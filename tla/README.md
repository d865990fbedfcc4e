# TLA+ models of intextum

intextum indexes the files of connected folders: a backend (FastAPI and
PostgreSQL) keeps the records, hands the files out to workers that extract
text, pictures and fields, and answers questions about them.  This directory
holds models of the parts of it that are concurrent and have to survive
failures, the TLC runs that check them and the proofs about them.

## The system

| Component | State it keeps | Operations | What is hard |
| --- | --- | --- | --- |
| Task queue (`api/services/task_queue`) | rows of `task_queue`: status, owner, secret, retry count, time of claim; the processing columns of `indexed_content_items` | enqueue, claim, heartbeat, complete, fail, abort, is_superseded, sweep of stale claims | every handler reads a row and writes it several awaits later; reports are late, lost or doubled; two rows (task and item) must agree |
| Row policies (`api/sql/rls`) | none | decide which rows a context reads and writes | silently empty reads and UPDATEs of no row |
| Worker (`worker/src/intextum_worker`) | the active task; a heartbeat thread; a signal handler | poll, process, upload, report | crash, SIGTERM in the middle of a report, timeouts |
| Processing artifacts (`processing_artifacts.py`) | staging and canonical directories | upload, promote, clean up | renames outside the transaction |
| Event outbox and user events (`event_outbox.py`, `user-event-bridge.tsx`) | rows of `event_outbox`, a stream per user in Valkey, the cursor and the notification center in localStorage | append in a transaction, dispatch, stream, list, clear | two systems, at least once; several loops and several tabs without a lock |
| Chat and research runs (`chat/run`, `chat/runner`) | rows of `chat_runs`, research reports | create, claim, heartbeat, finish, cancel | takeover of stale runs, cancellation |
| Chunk index (`vector.py`, worker `vector.py`) | chunks with an index version | upsert, delete other versions | order of the two calls of two attempts |
| Sync, watchers, reconciliation, deletion (`services/content`, `watcher*.py`) | records of files | upsert, delete, enqueue | events in any order, deletion under a claim |
| Enrichment and review (`content/enrichment`, `DocumentDataPanel.tsx`, `useContentItemDetails.ts`) | the enrichment row of an item; the page's copy of it and the reviewer's drafts | complete, accept, correct, dismiss, reset, change of class; poll, refetch, save | a completion and a review that overlap; four sources write the page's copy |
| Class catalog (`content/enrichment/catalog.py`, the editors of `pages/settings`) | classes with their extraction schemas; the page's list, editor and dialog | edit, save, delete, import, export | the whole list is sent and replaced; the editor knows its class by its place; two forms of every value |
| Conversation client (`useConversationRun.ts`, `pages/Chat.tsx`) | what is shown of each conversation, the open stream, the stored cursor | create, join, resume, stop, settle | answers that arrive after the user has moved on, broken streams, reloads |
| Content page (`ContentListView.tsx`, `useContentPage*.ts`, `useContentListFilters.ts`) | address, filters, selection, details dialog | type, pick, navigate, delete, process | three copies of the address that lag behind it |
| Enrichment training | jobs and models | queue, train, promote | the claim protocol again |
| Sessions, throttle, permissions, limits, connectors, statistics | small | reads and single-row writes | little |
| The rest of the web front end | forms | one request per form | little |

The components meet in the database (task and item rows, outbox rows), over
HTTP (workers call the worker routes, the pages call the user routes) and through
the event streams (of a chat run, of a user), which the pages resume after the last
event they have stored.  PROJECT.json lists each with its
status; its `hazards` are the list the properties are drawn from.

## Modules

| Module | What it is |
| --- | --- |
| `TaskQueue` | the task queue with the worker routes, the row policies and the poll loop |
| `TaskLifecycle` | what the queue promises of one task, without workers or requests |
| `TaskQueue_proofs` | theorems about `TaskQueue` for all values of its constants |
| `MCTaskQueue` | TLC instances of `TaskQueue` |
| `ChatRun` | chat and research runs: submission, runners, cancellation, event stream and its readers |
| `ChatRun_proofs` | theorems about `ChatRun` for all values of its constants |
| `MCChatRun` | TLC instances of `ChatRun` |
| `ConversationClient` | the hook of the chat page that joins, resumes and settles runs, over the status and the event log that `ChatRun` models |
| `ConversationClient_proofs` | theorems about `ConversationClient` for all values of its constants |
| `UserEvents` | from the outbox row of a task to the notification center of the browser |
| `UserEvents_proofs` | theorems about `UserEvents` for all values of its constants |
| `ContentPage` | the address, the filters, the selection and the dialog of the content page |
| `ContentPage_proofs` | theorems about `ContentPage` for all values of its constants |
| `ContentReview` | the enrichment row of an item under reviews and completions, and the page of its reviewer |
| `ContentReview_proofs` | theorems about `ContentReview`: what its transactions undo, what its page shows |
| `ClassCatalog` | the catalog of document classes and the page that edits it |
| `ClassCatalog_proofs` | theorems about `ClassCatalog`: the rows, what a save sends and what is read back |
| `Selection`, `Selection_proofs` | the elements of a sequence that are in a set (`Array.prototype.filter`), and the lemmas about it |
| `MCConversationClient`, `MCUserEvents`, `MCContentPage`, `MCContentReview`, `MCClassCatalog` | their TLC instances |

### TaskQueue

*State.*  One function per column of `task_queue` (`status`, `owner`, `secret`,
`issued`, `retry`, `stale`), per processing column of `indexed_content_items`
(`itemStatus`, `itemTask`, `document`), the directories of extracted output
(`staged`, `canonical`), the outbox rows the queue writes (`announced`), the
requests and transactions in progress (`conn`) and the poll loop of each worker
(`wk`).  A secret is modelled by its number: `secrets.token_urlsafe` gives the
n-th attempt of a task a value nobody has seen, which is all the code relies on.
`stale` says that `claimed_at` is older than `STALE_CLAIM_MINUTES`; time itself is
`ClockAdvance`.  Task ids are in the order of `created_at`.

*Requests.*  The handlers of complete, fail and abort read their task, then
move files and run the UPDATE of the item, then write the task row by its key
and commit (the sessions do not flush by themselves, so the task row is written
last).  Each is a slot of `conn` that goes through `Begin`, `Write` and `Commit`;
the sweep and an admin's abort enter at `Open`, with what they have read.
`Write` notes whether the item's UPDATE may match under the row policies at
that moment, `Commit` applies both.  `MayUpdateTask`, `MayUpdateItem` and `Visible`
are the policies `task_queue_rls`, `app.can_worker_task_access` and the SELECT
side of the former.  A transaction can be undone at any step (`Abandon`: an
error, a deadlock, the end of the server process); files stay moved.

*Workers.*  `Report`, `ReportFailure`, `NoticeSuperseded` and `Signal` send
requests; `Timeout` gives a request up while the server may still be working on
it; `Crash` loses everything but the identity.  A claim whose reply is lost is
`Claim` followed by `Crash`.  The heartbeat thread is `Heartbeat`.

*Enqueueing.*  `EnqueueBegin` reads the item, runs the UPDATE that supersedes PENDING rows and
the INSERT; `EnqueueCommit` makes them visible, and writes the status of the item only if it was
not QUEUED when it was read (`found`), since a flush leaves out what has not changed.  A row that has been claimed in
between no longer matches, as PostgreSQL re-evaluates the condition, and
`SKIP LOCKED` keeps claims off the rows an enqueue has updated.  Requesters are the
watchers and admins, whom the policies admit.

*Users.*  `UserAbortBegin` and `UserAbortCommit` are the abort of a user who is
not an admin: no policy shows such a user a row of `task_queue`, and the route
takes its path for a missing task.

*Abstractions.*  `Claim`, `Heartbeat` and `UploadExtracted` are single steps (a
row lock, a single-row write that a later one overwrites, and a file upload).
The reads that a worker route and the service make of the same row are one step,
since the session keeps the object it read first.  A sweep over several tasks is
several slots.  Audit rows are only appended and not represented.  The
order in which the file steps and the item's UPDATE fall inside `Write` is not
visible to another request.  A failure whose text says "Superseded" would be reported as an
abort (`poll_runtime.py:289`); nothing in the worker raises one, as a handler that finds its task
superseded returns a result that says so (`NoticeSuperseded`), and the branch is left out.
Training tasks, deletion of items, and the writes of enrichment results are other components.

### TaskLifecycle

A task waits, runs and is done; each return to waiting issues a new ticket.
`Lifecycle` in `TaskQueue` maps `status` to `phase` and `issued` to `ticket`.

### ChatRun

*State.*  The columns of `chat_runs` that decide anything (`status`, `claimedBy`,
`stale` for the age of `claimed_at`, `order` for `created_at`), the status of the research
report (`report`), whether the report has become a message of the conversation
(`answered`), the Valkey stream of each run (`stream`), the two requests about a run
(`request` submits it, `cancel` cancels it), the runner loop of each backend process
(`runner`) and the stream request of each client (`reader`).

*Steps.*  Everything here is coroutines over one database and one Valkey, so a step is
what lies between two awaits.  The sessions are made with `expire_on_commit=False`, and no
caller keeps a row object between two calls, so each call of the service reads the row
again.  Where the code writes without looking (`mark_completed`, `mark_failed`, the marks
of a report) read and write are one step: the value read has no influence.  Where it looks
first (`mark_cancelled`, `has_active_run` and the insert) there are two.  A claim holds a row
lock.  A heartbeat is one step although it reads before it writes: what a late write sets is the
time of a claim, which nobody looks at once the run has ended, and which is new if the run has just
been taken over.

*Runner.*  `Claim` takes the oldest run that is pending or whose claim is stale;
`StartReport` to `Complete` are `_execute_chat_mode` and `_execute_research_mode` in their
order, which the two modes share, and `Announce` the event for the user after it, during which a
cancellation can still reach the task and cancel the report of a completed run; `HandleError` to `FailReport` are the handler of
exceptions, `StopRead` to `StopReport` that of `CancelledError`.  `Raise` is an exception of
any call of the body, `Interrupt` the cancellation of the task by the cancel route
(`CancelSignal`, only when the request is served by the process that executes the run) or at
shutdown (`Shutdown`).  `Crash` is the end of the process.  A run that is taken over has two
runners: nobody tells the first, whose heartbeat loop just ends.

*Research.*  A research request makes its report before it tests for an active run, and
stores its messages after the run can be claimed (`Persist`).  The answer has the message id
`research-report:<id>`, so a second one replaces the first and `answered` is a set.

*Readers.*  `Join` reads the status and then replays (`Replay`), `Follow` sends what has
arrived, `TailEmpty` and `Poll` read the row when nothing has.  A reader begins anywhere in
the stream (`after`, `Last-Event-ID`).  The limits of a batch (100 events, or
`CHAT_RUN_MAX_REPLAY_EVENTS`) are left out: a read takes all there is.

*Left out.*  Deleting a conversation, the expiry of a stream, `last_event_id`, the
notifications of the user (nothing reads them back), what the graphs generate.

### ConversationClient

*State.*  The backend is reduced to what the page sees of it: a status and an event log per
run.  `values`, `progress`, `stored`, `active` and `streaming` are the state and the refs
of `useConversationRun`; `conn` is the stream of the current `joinRun`, and `closing`,
`probes`, `creating` and `cancelling` are the calls that are not answered yet.  A piece of an
answer is named by its run and position, which is all that the reducer of
`lib/chat-stream.ts` lets the properties tell apart.

*Steps.*  `Submit`, `Regenerate`, `Stop`, `Open`, `ToggleMode` and `Reload` are the user's;
`CreateAnswered`, `ProbeAnswered`, `CloseAnswered` and `CancelAnswered` (and their failures)
are the code after an `await`, with the conversation that it captured before;
`ReceiveMessages` to `ReceiveEnd` are `applyRunEvent`.  A stream may close or break after any
event and is joined again after the last one stored.

*Left out.*  Conversations that do not exist yet, the messages of the thread other than the
streamed answer, several tabs.

### UserEvents

*State.*  `row` is the outbox row of an event, `batch` what a dispatch loop has selected and
what became of it, `stream` the user's stream, `storage` the cursor and the notification
center in localStorage (shared by the tabs), `conn` where each tab's stream is.

*Steps.*  `Select` reads the due rows without a lock, `AppendRow` and `AppendFails` are the
`xadd` of one row, `Commit` writes all rows of the batch.  `Crash` ends a process between any
two.  `Connect` reads the cursor, `Receive` writes it and lists the entry; a stream breaks
(and is opened again) or is refused (and is not).  The bridge writes a cursor without
comparing it, so a slow tab sets it back.

*Left out.*  A backend without Valkey and rows without a user, which `_dispatch` passes over and
marks processed; the expiry of the stream, other users.  An `xadd` that succeeds before an `expire`
that fails leaves what a crash between append and commit leaves: an entry whose row stays due.
Writing the cursor and adding to the list are one step of `Receive`, so two tabs do not interleave
within one (`notification-center.ts:60`): localStorage is written synchronously, but browsers
do not promise a lock across processes, and an entry lost that way is not in the model.  That an event
is announced twice after a crash or by two loops is in the model: the code accepts it.

### ContentPage

*State.*  `nav` is the history with the place in it and the ref that `updateSearchParams`
moves ahead; `shown` is the address as last rendered; `conds`, `debounced` and `timer` are one
debounced filter, `status` one that writes the address at once; `selected` and `load` are the
dialog and its look-up.

*Steps.*  The router renders in a transition (`RouterRender`), so a user event may come first.
A rendering runs the effects in their order: seeding (`Seed`), write-back (`WriteBack`, which
is run with a debounced value that may be old), look-up (`Lookup`).  `TimerFires` is the
debounce.  Back and Forward are modelled from a rendered address only.

*Left out.*  Loading and paging of the list, folders, uploads, the other filters, which are of
these two kinds.

### ContentReview

*State.*  `row` holds the columns of `content_item_enrichment_states` that a review or a
completion writes; a class stands for its id, its label and its schema of one field.  The
task queue is reduced to the item's one current task.  `file` is the page's copy of the item,
`draft` the edit and the base it was made from, `save` and `start` the requests of the
page, `byPath` and `byId` its two fetches.

*Steps.*  `ReadRow` and `CommitReview` are the review request, `QueueForced` the change of
class, `Complete` and `CommitCompletion` the worker's completion, `FailTask` its last failure,
`FailStaleTask` that of the sweep, which enqueues no event (status LAPSED stands for FAILED with
the sweep's error).  `Flushed` is SQLAlchemy's
unit of work: only the columns that the transaction changed are written.  Enqueueing waits for
the row lock of a completion.  The page polls while the item is processed, refetches after each
save, and is told of the end of a task by the event bridge (`Notified`), unless the sweep ended it.

*Left out.*  A sweep that overrules a report in progress, and requeues (`TaskQueue` has both: here a
task that is requeued is still QUEUED); several reviewers, aborts, lost answers after a commit, other files and tabs,
validation of values, history and evidence.

### ClassCatalog

*State.*  `rows` are the two tables, `list`, `editor`, `dialog`, `deleting` and `saving` the
state of the page, `route` its address, `requests` the replacements on their way.

*Data.*  A plain field, and a child, stands for one of type `int`, the only type for which storing
a value that was shown can change it: what the other types give (a text, a truth value, a number of
`parseFloat`, lines) is shown in a form that gives itself again.  What an administrator typed is
"raw", what `coerceExampleScalarValue` gave it is "clean" and stays so, unless it has the "digits" of
an integer of 1e21 or more: it is stored as a number, which `String` shows with an "exponent", and
of this `parseInt` keeps the digits before the point, "clean" again.  A field is plain or a list of
objects with at most one child and one example, a schema has one scene.
`Key` is a name in lower case: the validation compares these and the conversion exact names.
`Serialized` and `Drafted` are the two conversions, `Valid` the validation.

*Steps.*  `Rendered` is the effect that opens, keeps or closes the editor after the address or
the list has changed.  A save and a deletion send the whole list with one change
(`Save`, `ConfirmDelete`); the backend reads (`Read`), writes the differences in one flush
(`Commit`: updated and new rows first, then deletions, under unique names) and reads again
(`Answer`); the page shows the answer (`Apply`) and, after one more request, closes the editor
(`Finish`).  `Fail` is a request that is refused, that is lost on its way, or whose answer is lost
after the commit: the rows have changed then and the page keeps its list.  Every edit of the draft
is one disjunct of `Edit`.

*Left out.*  Versions, descriptions, aliases, several administrators, files that were not
exported here.  A page that gives up before the commit while the server goes on: its request would
be a slot without an answer.  `Refused` compares the names that result; the UPDATEs run one after
the other, so exchanging two names is refused in the code and not in the model.  The two SELECTs of
a read, of classes and of schemas, are one step.

## Properties and runs

| Run | Instance | Checks |
| --- | --- | --- |
| `attempts` | 2 workers, 2 slots, 1 task, 1 retry | `TypeOK`, `RowConsistent`, `SecretsNotShared`, `IInv`, `ClaimNotStolen`, `ItemNotAbandoned`, `LifecycleSpec` |
| `drains` | 1 worker, 1 slot, 2 tasks of one item, 1 retry, fairness | `QueueDrains` |
| `settled` | 1 worker, 2 slots | statement 1 below, violated |
| `chat_queue` | 2 requests for one conversation, 2 processes, 1 fault | `OneActiveRun`, `EndedRunStaysEnded` |
| `chat_research` | 1 research run, 2 processes, 1 fault | `TypeOK`, `IInv`, `CompletedRunDelivered` |
| `chat_ends` | 1 chat of up to one part, 1 process, 1 reader, 1 fault, fairness | `ReaderSawOutcome`, `RunEnds`, `StreamEnds` |
| `chat_cancelled` | 1 run, 2 processes, no fault | statement 2 below, violated |
| `page` | 2 conversations, 2 runs, 2 look-ups at a time, 4 moves or 3 with one fault, reload, stop or change of mode, fairness | `TypeOK`, `SpinnerBacked`, `CursorStored`, `CompletedAnswerShown`, `LoadingEnds` |
| `announced` | 1 event of a task, 1 direct event, 2 dispatch loops, 2 tabs, 2 faults, 2 user actions, fairness | `TypeOK`, `ProcessedIsPublished`, `ListedOnce`, `CursorCovered`, `EventAnnounced` |
| `content` | 1 folder, 2 files, 1 condition, 3 user actions, 1 fault, fairness | `TypeOK`, `AddressAgrees`, `FiltersSettle`, `BackReturns`, `DialogSettles` |
| `review` | 2 classes, 2 actions, 2 versions of the catalog, 1 fault, fairness | `TypeOK`, `QuietPageIsCurrent`, `DetailsSettle`, `NothingUndone` |
| `catalog` | 3 classes, 5 actions, 2 edits, 2 requests on their way, 1 fault | `TypeOK`, `SentIsStable`, `SavesOwnClass` |

*Task queue.*  `RowConsistent` says that status, owner and secret of a row fit together
whatever raced for it.  `SecretsNotShared` is what locks the worker of an earlier
attempt out.  `ClaimNotStolen` says that a late report never ends somebody
else's claim: the handlers do not test this when they write, the row policy
does.  `ItemNotAbandoned` describes the only way in which an item can say
PROCESSING for ever: a worker's request is in progress, its own signal handler
fails the attempt, the same identity claims the task again and the old
completion is written.  The item's UPDATE ran while the task was not claimed and
matched no row, the task's is by key.  No sweep repairs this, since the task is
COMPLETED.  `QueueDrains` is the point of the sweep.

*Runs.*  `OneActiveRun` is kept by the unique index, not by the test in front of it, and
has to survive take-overs and the unconditional writes of terminal states.
`EndedRunStaysEnded` says that those writes, of runners that have lost their claim, of
requests that fail late, do not bring a run back.  `CompletedRunDelivered` relates three
stores: the row says COMPLETED only after the stream has "done" and the conversation has the
report.  `ReaderSawOutcome` is why the route replays once more after it has read a terminal
status.  `RunEnds` is what the take-over of stale claims is for, `StreamEnds` what the poll of
the row is for: a run that fails has no "done".

*Conversation client.*  `SpinnerBacked`: a conversation shown as loading has a stream or a
look-up that will end it.  `CursorStored`: a reload continues where the open stream is, whatever
answers about other runs did to the storage; what may take the cursor away is an older look-up
of the same run that fails when a newer one has joined, which takes more moves than the run
has and which the proof covers.  `CompletedAnswerShown`: a completed answer is shown once and
whole or not at all, never a part of it, twice, or with another run's; it is not shown when the
late look-up of earlier research has cleared the conversation, which takes three runs.  `LoadingEnds`: the page does not load for ever as long as nothing
fails and nobody stops, reloads or changes mode.  It excepts one state the code does reach
(`Forgotten`): a look-up that is answered when its run has ended and has been shown joins it
again, without storing it, and a user who leaves before the stream closes comes back to a
conversation that is loading with nothing to rejoin; `Stop` does nothing there, and only a
reload helps.

*User events.*  `ProcessedIsPublished`: a row is not marked processed by a loop whose append
failed, also when another loop published it.  `CursorCovered` and `ListedOnce` are about the
cursor that tabs share and overwrite: it may go back, but nothing before it was skipped, and
what is read again is not listed twice.  `EventAnnounced` is the end of the chain, from the
commit of a task to the list in the browser.

*Content page.*  `AddressAgrees`: a page that shows the address it is at says the same as the
address, in its ref, its filters and its dialog, whatever was typed, navigated or answered in
which order.  The write-back and the seeding of the filters are each other's cause:
`FiltersSettle` says that they come to rest and agree, `BackReturns` that the conditions of
the page left, written onto the address that Back entered, do not keep it from arriving,
`DialogSettles` that the dialog shows the file of the address in the end.

*Review.*  `QuietPageIsCurrent`: once nothing is announced, saved or polled, the page shows
the row of the backend; no answer that was read before the last commit replaces one that was read
after it.  It shows the status too, unless the item is being processed or was failed by the sweep,
of which no event tells.  `DetailsSettle`: whatever overlaps, the page gets there, not processing.
It excepts one state that the code does reach (`Missed`): an answer read before the task was queued
ends the polling, the sweep then fails the task in silence, and the page shows the item as it was
before until something else makes it fetch.  `NothingUndone`: a completion changes no column that only a reviewer writes,
and a review none that only a worker writes.

*Catalog.*  `SavesOwnClass`: the list may change under an open editor (a deletion whose dialog
was closed is answered late, and the place of a class is then that of another); a save still
edits no class but its own, which the comparison of ids in the validation ensures; the others are
sent as the list shows them.
`SentIsStable`: loading what was sent and sending it again keeps every field, example and
extraction, and changes no value but an integer of 1e21 or more, which loses all digits but the
first (`ShortenedClass`), also if it is in a class that nobody edits; and every
extraction of a scene names a field, which the backend does not check.

*Bounds of the task queue.*  Two workers and two slots are what the races need: an attempt and its
successor, a request and the one that overtakes it.  One retry gives two
attempts and the boundary `retry_count = max_retries`.  Two tasks are an old and
a new task of an item.  `MaxTasks` and `MaxRetries` are the only bounds on
counters; `MaxRetries` is the `max_retries` of the code (3 there).  Deadlock is not
checked because the queue stops when all tasks are settled and no more may be
enqueued.  Workers and slots are interchangeable (symmetry) where no liveness
is checked.

*Bounds of the runs.*  `MaxParts` bounds the parts a graph emits; most runs have none, as
parts change nothing but the length of the stream, and `chat_ends` has one.  `MaxFaults`
bounds deaths, shutdowns and late heartbeats together; one is enough for a take-over with
the first runner alive.  `Cancellable` are the runs whose user presses the button.  Two
processes are a runner and the one that takes over, or the one that serves the cancel
request.  Deadlock is not checked because everything may have ended.

*Bounds of the pages.*  `MaxUser` and its kind bound the actions of a person, the answers to
them are not bounded; deadlock is not checked because a page at rest does nothing.  In `page`,
two runs in two conversations with four moves allow to leave, come back and leave again while
an answer is on its way and to find what it left; a fault, reload, stop or change of mode
counts as one of the moves.  In `content`, three actions are an edit, a navigation and Back.  In
`review`, two actions overlap with the processing that the first starts.  In `catalog`, five
actions are those of the hard case: ask, confirm, close the dialog, open another class, save.
In `announced`, two faults let a loop fail and another die.

*Fairness of the task queue* (`Fairness`).  The event loop runs a handler that can go on, the
sweep loop never stops, workers poll and their handlers return.  Strong fairness
is used where a step can be disabled again and again by a transaction that is
undone or by other requests in the slots: the code gives no bound, but
the database does not fail for ever.  Nothing is assumed of crashes, signals,
timeouts, heartbeats or users.  That a handler returns matters: the heartbeat
thread keeps the claim of a handler that hangs.

*Fairness of the runs.*  The chat loop of a process never stops, what an event loop can run
it runs, and a graph ends (`Execution`, `Claim`); a claim nobody refreshes times out
(`Lapse`); a stream request goes on (`Following`).  All of it is weak fairness: nothing disables
these steps again and again.  Nothing is assumed of requests, faults or exceptions.

*Fairness of the pages.*  Requests are answered, open streams deliver, timers fire, the router
renders, the dispatch loops poll, a task ends by its worker or by the sweep: all weak fairness of what an event loop
or a server runs once it is there.  Users, administrators and faults owe nothing.

*Statements that do not hold.*

1. `SettledFailureIgnored`: "Ignoring failure for task %s because status is %s"
   (`worker_lifecycle_ops.py:299`).  Status is tested when the request begins and not
   when it writes; the signal handler's report crosses the completion.
2. `CompletesRunning`: "Mark a claimed/running run as completed."
   (`chat/run/service.py:230`).  A run that was cancelled after the runner's last look at
   it becomes COMPLETED; the user has been told CANCELLED.

## Proofs

`TaskQueue_proofs` proves, for any finite or infinite set of workers, items and
slots and any `MaxTasks` and `MaxRetries`:

- `Invariance`: `Spec => []IInv`; from it `TypeCorrect`, `RowsConsistent` and
  `SecretsSeparate`;
- `ClaimsKept`: `Spec => ClaimNotStolen`;
- `Refinement`: `Spec => LifecycleSpec`;
- `ItemsKeepTheirTask`: `Spec => ItemNotAbandoned`.

They rest on the assumptions named in the module (`BoundsAssumption`,
`NamesAssumption`: a worker identity is none of the names of the other callers,
`ItemAssumption`).  None of the properties is inductive by itself.  `IInv` adds
`IdsReserved` (an uncommitted task id belongs to one enqueue, so that a commit
never overwrites a row), `KnownTasksExist` (whoever knows a task id knows a
committed row), `RequestersKnown` (what a request in a given phase can be),
`RepliesAwaited` (a worker waits for one reply, so that a late reply wakes nobody)
and `SecretsInTime` (a worker's secret is not newer than the row's, and older while the
row waits to be claimed, which is why the next claim hands out another one).
`StepInv` has a lemma per action; the steps that leave the rows alone share
`QuietStep`.  `ClaimsKept` and `Refinement` follow from `RowChanges` (three actions
change status) and `CommitRow` (who can make the change).

The last part of the module proves `ItemsKeepTheirTask` (`Spec => ItemNotAbandoned`): the one way in which an item is left in
PROCESSING is the only one.  An item loses its last active task to a commit alone, so the
invariant `RInv` says what each request in progress may rely on: a worker's request in progress is up to
date, late for a task that has been settled, or older than the secret of its task (`InTime`);
the UPDATE of an item matches for an admin and the sweep (`Matches`); what an enqueue replaces are
tasks of its item (`SeenOfItem`); and no completion finds a newer task, since the row policy hides
it (`NotSuperseded`).  `SlotStep` says once what a step may do to a request, and the steps of
`RInv` use it and `IInv`.

`ChatRun_proofs` proves, for any sets of requests, conversations, processes and readers and
any `MaxParts` and `MaxFaults`, `Invariance` (`Spec => []IInv`) and from it `TypeCorrect`,
`OneActive`, `CompletedDelivered`, `ReadersInformed` and, for the action property,
`EndedStays`.  The assumptions are the types of the constants and that `None` is no process
and no run.  `IInv` adds `RowsInserted` (a request that has not inserted its row has none, so
an insert never overwrites an ended run), `RunnerDelivered` (what a runner has done before it
writes COMPLETED) and `ReaderInformed` (whoever read COMPLETED has "done" before it).  The
proof has two layers.  For each part of the state, one lemma over all actions says what a
step may do to it: `StatusStep`, `RequestStep`, `ExecutionStep`, `AnswerStep`,
`CompletionStep`, `DeliveryStep`, `ReadStep`, and `StreamStep` (a stream only grows).  The
lemmas of the second layer (`OneActiveStep` to `ReaderSawOutcomeStep`) use these and no
action.

`UserEvents_proofs` proves, for any sets of events, dispatch loops and tabs and any bounds,
`TypesCorrect`, `NoEventLost` (`ProcessedIsPublished`), `NoEntrySkipped` (`CursorCovered`) and
`NoEntryListedTwice` (`ListedOnce`).  The first invariant is strengthened by what a batch may
claim to have sent, the others by where the tabs may be.

`ContentReview_proofs` proves, for any classes, labels, versions of the catalog and numbers of
actions, `NothingIsUndone` (`Spec => NothingUndone`).  A flush writes the columns that the
transaction changed, so what has to be known of an open transaction is that what it computed
differs from what it read only in columns of its own: the invariant `Faithful`.  `TypeCorrect`
has the invariant `TypeInv`, which adds to the types what the phases of a save and of the two
fetches hold.  `QuietIsCurrent` (`Spec => []QuietPageIsCurrent`) adds `Reads`: while nothing is
under way that will make the page fetch again (`Announced`), every copy that the page has or is
about to get equals the row, and its status unless the task goes on or was failed by the sweep.  It
holds since each other commit leaves an answer or an event, and the page
fetches anew when that arrives; the sweep's failure does not touch the row.  Assumed: the class that is found is a class, the catalog has a
version, `None` is none of the records.

`ConversationClient_proofs` proves, for any conversations, runs, scripts and bounds,
`LoadingBacked` (`Spec => []SpinnerBacked`), `CursorStays` (`Spec => CursorStored`), `TypeCorrect` and
`AnswerIsWhole` (`Spec => CompletedAnswerShown`), from the
types of the constants and that a script ends with "done" or "error" and has these nowhere else,
and that a chat emits its state before "done".
The first two are about answers that come when the page has moved on, so the invariant `IInv` says what
the calls and cursors that are left can still be about: every cursor and every look-up is at an
event of a created run that is not "done" (`Cursors`), a submission waits for a run nobody else
has (`Creations`), a log follows its script and nothing but an end follows an end (`Logs`), and
a conversation that is loading has a stream that has not heard "done" or the look-up of a run
that has ended (`Backed`), which is what makes the answer settle the page.  As in
`ChatRun_proofs`, a first layer says what a step may do to each part (`BackendStep`,
`LogsGrow`, `PageMoves`), a second proves the parts of `IInv` from it.  `TypeCorrect` needs that the
look-ups under way are at most `MaxProbes`, so that one of their numbers is free (`Numbered`,
`FreeNumber`).  `AnswerIsWhole` adds that the log of a run is its script until an error or a
cancellation (`Scripted`), and that after a state event the conversation shows nothing or all
pieces so far (`Whole`).

`ContentPage_proofs` proves, for any folders, files, values and bounds, `TypeCorrect` and
`PageAgrees` (`Spec => []AddressAgrees`), from bounds that are numbers, a blank that is no value and
`None` that is none of the data.  `AddressAgrees` speaks of rendered addresses only, and a
navigation leaves it for a while; the invariant says what holds meanwhile: `InEffect` (the filters
in effect are those of the ref, which is at the present address or at the one shown) and `LookedUp`
(a look-up is of the file of the address shown; without one the dialog shows it, or the address has
moved on to another file).

`ClassCatalog_proofs` proves, for any names, classes and bounds, `SavesOwn` (`Spec =>
SavesOwnClass`), `TypeCorrect` and `SentStable` (`Spec => []SentIsStable`).  Assumed are finitely
many distinct names in the order of the database, `None` apart from the data, and of the classes that
the catalog begins with what the tables and the request model (`min_length=1`) ensure: finitely many,
named, of distinct names, plain fields without children.

- `SavesOwn`.  The editor writes at the place its class had when it was opened, which may now be
  another's.  The invariant `IInv` says why this does no harm: the class that is edited is still
  in the list under its id (`Fits`), or the rendering would have closed the editor, so a draft at
  another place has an id that the list has twice, which `Valid` refuses (`OwnClass`).  The rest of
  `IInv` says that lists are lists of records with ids wherever they come from.
- `TypeCorrect`.  `TInv` says that both tables hold validated rows and that class names are unique
  (`TableInv`).  A flush merges columns that two transactions wrote (`WrittenTyped`), and one that
  would make two names equal is refused (`FlushedUnique`).  Unique names are what reading the catalog
  rests on: rows sorted by name have ranks 0, 1, ... (`Ranks`), so each place has one class
  (`CatalogTyped`).  One lemma per edit says that it leaves a class (`EditSchemaTyped`).
- `SentStable`.  `StoredTwice`: what a field stores of a sample, shown and stored again, is what
  `Shortened` makes of it, for either type, and has a value if it had one.  `SerializedStable` carries this through the fields and the scene: an extraction
  finds the same field again since the names of valid fields differ (`DistinctNames`,
  `FieldAlike`), and nothing that was stored is empty, so no filter drops any of it (`SelectedAll`).

`Selection_proofs` has the induction that these proofs need.  The library's induction theorems
take an operator, but a set of numbers that is not empty has a least one (`LeastNumber`, from
the well-founded order of the numbers), and from that follows induction over the numbers in a set
(`NumberInduction`).  So `Selected` is a recursive function whose lemmas are proved, and so is that a
finite set of ids has a maximum (`MaxIsNumber`).

Only model-checked: the liveness properties (`QueueDrains`, `RunEnds`, `StreamEnds`,
`LoadingEnds`, `FiltersSettle`, `BackReturns`, `DialogSettles`, `EventAnnounced`, `DetailsSettle`),
since the prover does not reason about fairness, and the two statements that do not hold.  Every
invariant and action property of a run that passes has its theorem.

## Plan

1. `ArtifactPromotion`: the renames, a crash between any two, and the relation of
   canonical output and `document_json`; composed with the completion of TaskQueue.
2. `ChunkIndex`: upsert and delete of versions by two attempts.
3. `ContentSync`: watcher events, reconciliation and deletion against a claimed task.
4. Training jobs, login throttle, access lists as operators.
5. `ContentReview`: several reviewers, and an answer lost after its commit; `ContentPage`: the pages of the list.

Theorems to come: those of the modules above; invariants of what the liveness properties wait for,
such as who holds a task that is not settled.

## Not modelled

Research and chat graphs, document processors, connectors and statistics: calls to language
models and libraries, reads.  Most of the TypeScript sources by number of lines: two tables of
translations, the component kits `components/ui` and `components/ai-elements`, previews of
documents, tables and forms that show what a request answered and send one request when
they are submitted.  They keep no state over which two actors could disagree, and a model
would copy their layout.  Content sync, deletion, watchers, the chunk index, training and the
renames of a promotion are concurrent and are left to the plan; PROJECT.json lists what can go
wrong there among its hazards.  Retention of rows and the database itself, apart from row
locks, the re-evaluation of conditions, the flush of a session and the row policies.
