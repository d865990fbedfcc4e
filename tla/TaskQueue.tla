----------------------------- MODULE TaskQueue -----------------------------
(***************************************************************************)
(* The processing task queue of the backend (api/services/task_queue), the *)
(* worker routes in front of it (api/routers/worker), the row policies     *)
(* that PostgreSQL applies to it (api/sql/rls), and the poll loop of the   *)
(* workers (worker/src/intextum_worker).                                   *)
(*                                                                         *)
(* Every handler that reads a row and writes it later is a request held in *)
(* a slot of conn and takes several steps: the request arrives and reads   *)
(* its task (Begin), moves files and runs its UPDATE of the content item   *)
(* (Write), and commits (Commit) or is undone.  Steps of other requests    *)
(* fall in between, as they do between the awaits of the code.             *)
(***************************************************************************)
EXTENDS Integers, FiniteSets

CONSTANTS Item,        \* content items
          Worker,      \* worker identities
          Conn,        \* slots for requests and transactions in progress
          MaxTasks,    \* bound: tasks ever enqueued
          MaxRetries,  \* TaskQueue.max_retries
          Serves       \* pairs <<worker, item>>: the capability covers its kind

Null == "null"
Admin == "admin"
Cleanup == "stale_cleanup"
Requester == "requester"
User == "user"
Systems == {Admin, Cleanup, Requester, User}

ASSUME BoundsAssumption == MaxTasks \in Nat /\ MaxRetries \in Nat
ASSUME NamesAssumption == Worker \cap (Systems \cup {Null}) = {}
ASSUME ItemAssumption == Item # {}
ASSUME ServesAssumption == Serves \subseteq Worker \X Item

(* Task ids in the order of created_at; 0 is "no task". *)
Task == 1..MaxTasks

VARIABLES
  created,    \* tasks ids handed out, committed or not
  itemOf,     \* TaskQueue.content_item_id
  status,     \* TaskQueue.status, "ABSENT" while the row is not committed
  owner,      \* TaskQueue.claimed_by
  secret,     \* TaskQueue.task_secret: the n-th secret of the task, 0 is NULL
  issued,     \* how many secrets the task has had
  retry,      \* TaskQueue.retry_count
  stale,      \* claimed_at is older than STALE_CLAIM_MINUTES
  itemStatus, \* IndexedContentItem.processing_status, "ABSENT" without a row
  itemTask,   \* IndexedContentItem.task_id
  document,   \* the task whose document_json the item carries
  staged,     \* tasks with a staging directory
  canonical,  \* the task whose output is in the canonical directory
  announced,  \* file.process.* events put in the outbox
  conn,       \* requests and transactions in progress
  wk          \* the poll loop of each worker

rows == <<created, itemOf, status, owner, secret, issued, retry, stale>>
items == <<itemStatus, itemTask, document>>
files == <<staged, canonical>>
vars == <<rows, items, files, announced, conn, wk>>

Terminal == {"COMPLETED", "FAILED", "SUPERSEDED"}
Active == {"PENDING", "CLAIMED"}
ActiveItem == {"QUEUED", "PROCESSING", "RETRYING"}
ItemStatus == ActiveItem \cup {"ABSENT", "COMPLETED", "FAILED", "REVOKED"}

(* A request in a slot of conn. "secret" is what the request presented,   *)
(* or what the row held when a background transaction read it; "retry" the *)
(* retry_count it read; "access" whether its UPDATE of the item may match  *)
(* the row; "seen" the PENDING rows an enqueue replaces and "found" the    *)
(* status of the item that it read; "awaited" that the worker still waits  *)
(* for the reply.                                                          *)
Slot(op, phase, by, t, s, r, awaited) ==
  [op |-> op, phase |-> phase, by |-> by, task |-> t, secret |-> s, retry |-> r,
   access |-> FALSE, promoted |-> FALSE, seen |-> {}, found |-> "ABSENT",
   awaited |-> awaited]

Free == Slot("none", "free", Null, 0, 0, 0, FALSE)

Resting == [phase |-> "idle", task |-> 0, secret |-> 0]

ActiveTasks(i) == {t \in Task : status[t] \in Active /\ itemOf[t] = i}

(* Fault: a failure is retried once more than max_retries. *)
RetryableOnceMore(c) == c.op \in {"fail", "sweep"} /\ c.retry <= MaxRetries

(* is_retryable_failure; "fatal" is a message that starts with FATAL. *)
Retryable(c) == c.op \in {"fail", "sweep"} /\ c.retry < MaxRetries

Verdict(c) ==
  CASE c.op = "complete" -> "COMPLETED"
    [] c.op \in {"abort", "supersede"} -> "SUPERSEDED"
    [] OTHER -> IF Retryable(c) THEN "PENDING" ELSE "FAILED"

(* Fault: a final failure leaves the item as a retry does. *)
ItemVerdictRetrying(c) ==
  CASE c.op = "complete" -> "COMPLETED"
    [] c.op = "abort" -> "REVOKED"
    [] OTHER -> "RETRYING"

ItemVerdict(c) ==
  CASE c.op = "complete" -> "COMPLETED"
    [] c.op = "abort" -> "REVOKED"
    [] OTHER -> IF Retryable(c) THEN "RETRYING" ELSE "FAILED"

(* Fault: mark_task_requeued forgets claimed_by. *)
OwnerAfterKept(c) == owner[c.task]

OwnerAfter(c) == IF Retryable(c) THEN Null ELSE owner[c.task]

(* Fault: a retry keeps the secret of the attempt before it. *)
IssuedAfterReused(c) == issued[c.task]

(* secrets.token_urlsafe: a secret no request has carried yet. *)
IssuedAfter(c) == IF Retryable(c) THEN issued[c.task] + 1 ELSE issued[c.task]

(***************************************************************************)
(* Row policies.                                                           *)
(***************************************************************************)
WorkerMaySee(w, st, own) == own = w \/ (st = "PENDING" /\ own = Null)

(* task_queue_rls lets a worker_task context see the row of its own task   *)
(* alone: the query for a newer task of the item runs under it.            *)
Visible(c, t) ==
  c.by \in Worker => t = c.task /\ WorkerMaySee(c.by, status[t], owner[t])

NewerActive(c) ==
  \E t \in ActiveTasks(itemOf[c.task]) : t > c.task /\ Visible(c, t)

(* Fault: the policy looks at the new row alone. *)
MayUpdateTaskUnowned(c) ==
  c.by \in Worker => WorkerMaySee(c.by, Verdict(c), OwnerAfter(c))

(* USING on the old row and WITH CHECK on the new one. *)
MayUpdateTask(c) ==
  c.by \in Worker =>
    /\ WorkerMaySee(c.by, status[c.task], owner[c.task])
    /\ WorkerMaySee(c.by, Verdict(c), OwnerAfter(c))

(* app.can_worker_task_access; the sweeper and an admin pass unconditionally. *)
MayUpdateItem(c) ==
  c.by \in Worker =>
    /\ status[c.task] = "CLAIMED"
    /\ owner[c.task] = c.by
    /\ secret[c.task] # 0

(***************************************************************************)
(* Initial state: an empty database and idle workers.                      *)
(***************************************************************************)
Init ==
  /\ created = 0
  /\ itemOf = [t \in Task |-> CHOOSE i \in Item : TRUE]
  /\ status = [t \in Task |-> "ABSENT"]
  /\ owner = [t \in Task |-> Null]
  /\ secret = [t \in Task |-> 0]
  /\ issued = [t \in Task |-> 0]
  /\ retry = [t \in Task |-> 0]
  /\ stale = [t \in Task |-> FALSE]
  /\ itemStatus = [i \in Item |-> "ABSENT"]
  /\ itemTask = [i \in Item |-> 0]
  /\ document = [i \in Item |-> 0]
  /\ staged = {}
  /\ canonical = [i \in Item |-> 0]
  /\ announced = {}
  /\ conn = [c \in Conn |-> Free]
  /\ wk = [w \in Worker |-> Resting]

(***************************************************************************)
(* Enqueueing.  The UPDATE that supersedes PENDING rows and the INSERT run *)
(* at EnqueueBegin; both become visible at EnqueueCommit, where rows that  *)
(* were claimed in the meantime no longer match.                           *)
(***************************************************************************)
EnqueueBegin(c, i) ==
  /\ conn[c] = Free
  /\ created < MaxTasks
  /\ created' = created + 1
  /\ itemOf' = [itemOf EXCEPT ![created + 1] = i]
  /\ conn' = [conn EXCEPT ![c] =
       [Slot("enqueue", "ready", Requester, created + 1, 0, 0, FALSE) EXCEPT
          !.found = itemStatus[i],
          !.seen = {t \in ActiveTasks(i) : status[t] = "PENDING"}]]
  /\ UNCHANGED <<status, owner, secret, issued, retry, stale, items, files,
                 announced, wk>>

EnqueueCommit(c) ==
  LET t == conn[c].task
      i == itemOf[t]
  IN
  /\ conn[c].op = "enqueue"
  /\ conn[c].found = "ABSENT" => itemStatus[i] = "ABSENT"   \* else a duplicate key
  /\ status' = [u \in Task |->
       IF u = t THEN "PENDING"
       ELSE IF u \in conn[c].seen /\ status[u] = "PENDING" THEN "SUPERSEDED"
       ELSE status[u]]
  /\ secret' = [secret EXCEPT ![t] = 1]
  /\ issued' = [issued EXCEPT ![t] = 1]
  /\ itemStatus' = [itemStatus EXCEPT ![i] = IF conn[c].found = "QUEUED" THEN @ ELSE "QUEUED"]
  /\ itemTask' = [itemTask EXCEPT ![i] = t]
  /\ conn' = [conn EXCEPT ![c] = Free]
  /\ UNCHANGED <<created, itemOf, owner, retry, stale, document, files,
                 announced, wk>>

(***************************************************************************)
(* Claiming: the oldest PENDING row the worker can serve, SKIP LOCKED over *)
(* the rows that an enqueue in progress has updated.                       *)
(***************************************************************************)
Locked(t) == \E c \in Conn : conn[c].op = "enqueue" /\ t \in conn[c].seen

Claimable(w, t) == status[t] = "PENDING" /\ <<w, itemOf[t]>> \in Serves

Claim(w, t) ==
  /\ wk[w].phase = "idle"
  /\ Claimable(w, t)
  /\ \A u \in Task : u < t /\ Claimable(w, u) => Locked(u)
  /\ status' = [status EXCEPT ![t] = "CLAIMED"]
  /\ owner' = [owner EXCEPT ![t] = w]
  /\ stale' = [stale EXCEPT ![t] = FALSE]
  /\ itemStatus' = [itemStatus EXCEPT ![itemOf[t]] = "PROCESSING"]
  /\ wk' = [wk EXCEPT ![w] =
              [phase |-> "working", task |-> t, secret |-> secret[t]]]
  /\ UNCHANGED <<created, itemOf, secret, issued, retry, itemTask, document,
                 files, announced, conn>>

(***************************************************************************)
(* The worker's side.                                                      *)
(***************************************************************************)
(* The secret, the owner and the status are what every worker route tests. *)
Holds(w, t, s) ==
  /\ t \in Task
  /\ status[t] = "CLAIMED"
  /\ owner[t] = w
  /\ secret[t] # 0
  /\ secret[t] = s

WorkerRequest(w, op, awaited) ==
  Slot(op, "sent", w, wk[w].task, wk[w].secret, 0, awaited)

(* Nobody waits for the requests of w any more. *)
Unawaited(w) ==
  [c \in Conn |-> IF conn[c].by = w THEN [conn[c] EXCEPT !.awaited = FALSE]
                                    ELSE conn[c]]

Send(w, c, op, from) ==
  /\ wk[w].phase = from
  /\ conn[c] = Free
  /\ conn' = [conn EXCEPT ![c] = WorkerRequest(w, op, TRUE)]
  /\ wk' = [wk EXCEPT ![w].phase = "waiting"]
  /\ UNCHANGED <<rows, items, files, announced>>

(* The handler ends: it completes, fails, or fails with a FATAL status. *)
Report(w, c) ==
  \E op \in {"complete", "fail", "fatal"} : Send(w, c, op, "working")

(* report_processing_failure after a completion or an abort that raised. *)
ReportFailure(w, c) == \E op \in {"fail", "fatal"} : Send(w, c, op, "recovering")

(* is_superseded answers TRUE, or with an error that says the task's       *)
(* identity is no longer valid: the handler stops and reports an abort.    *)
Superseded(w) ==
  \/ ~Holds(w, wk[w].task, wk[w].secret)
  \/ NewerActive([by |-> w, task |-> wk[w].task])

NoticeSuperseded(w, c) ==
  wk[w].phase = "working" /\ Superseded(w) /\ Send(w, c, "abort", "working")

UploadExtracted(w) ==
  /\ wk[w].phase = "working"
  /\ Holds(w, wk[w].task, wk[w].secret)
  /\ wk[w].task \notin staged
  /\ staged' = staged \cup {wk[w].task}
  /\ UNCHANGED <<rows, items, canonical, announced, conn, wk>>

(* The heartbeat thread runs until the handler has reported. *)
Heartbeat(w) ==
  /\ wk[w].phase # "idle"
  /\ Holds(w, wk[w].task, wk[w].secret)
  /\ stale[wk[w].task]
  /\ stale' = [stale EXCEPT ![wk[w].task] = FALSE]
  /\ UNCHANGED <<created, itemOf, status, owner, secret, issued, retry, items,
                 files, announced, conn, wk>>

(* The request times out at the client, or its reply is lost; the server   *)
(* may still be working on it.                                             *)
Timeout(w) ==
  /\ \E c \in Conn :
       /\ conn[c].by = w /\ conn[c].awaited
       /\ wk' = [wk EXCEPT ![w] =
            IF conn[c].op \in {"complete", "abort"}
            THEN [@ EXCEPT !.phase = "recovering"] ELSE Resting]
  /\ conn' = Unawaited(w)
  /\ UNCHANGED <<rows, items, files, announced>>

(* The process dies and restarts under the same identity.  Right after a  *)
(* claim this is also the claim whose reply is lost.                       *)
Crash(w) ==
  /\ wk[w].phase # "idle"
  /\ wk' = [wk EXCEPT ![w] = Resting]
  /\ conn' = Unawaited(w)
  /\ UNCHANGED <<rows, items, files, announced>>

(* signal_handler: fails the active task over a fresh connection, even     *)
(* while a request of the handler is in progress, and exits.               *)
Signal(w, c) ==
  /\ wk[w].phase # "idle"
  /\ conn[c] = Free
  /\ wk' = [wk EXCEPT ![w] = Resting]
  /\ conn' = [Unawaited(w) EXCEPT ![c] = WorkerRequest(w, "fail", FALSE)]
  /\ UNCHANGED <<rows, items, files, announced>>

(***************************************************************************)
(* Other callers: the stale-claim sweep (the background loop and the admin *)
(* endpoint both run it), an admin's abort and another user's abort.       *)
(***************************************************************************)
ClockAdvance(t) ==
  /\ status[t] = "CLAIMED" /\ ~stale[t]
  /\ stale' = [stale EXCEPT ![t] = TRUE]
  /\ UNCHANGED <<created, itemOf, status, owner, secret, issued, retry, items,
                 files, announced, conn, wk>>

Open(c, op, by, t) ==
  /\ conn[c] = Free
  /\ conn' = [conn EXCEPT ![c] =
                Slot(op, "open", by, t, secret[t], retry[t], FALSE)]
  /\ UNCHANGED <<rows, items, files, announced, wk>>

(* Fault: the sweep passes over claims that have no retry left. *)
SweepBeginRetryable(c, t) ==
  /\ status[t] = "CLAIMED" /\ stale[t] /\ retry[t] < MaxRetries
  /\ Open(c, "sweep", Cleanup, t)

SweepBegin(c, t) == status[t] = "CLAIMED" /\ stale[t] /\ Open(c, "sweep", Cleanup, t)

(* An admin sees every row; a task that is not CLAIMED is refused. *)
AdminAbort(c, i) ==
  /\ itemStatus[i] \in ActiveItem
  /\ itemTask[i] # 0
  /\ status[itemTask[i]] = "CLAIMED"
  /\ Open(c, "abort", Admin, itemTask[i])

(* No policy admits a user to task_queue: the task counts as missing. *)
UserAbortBegin(c, i) ==
  /\ itemStatus[i] \in ActiveItem
  /\ itemTask[i] # 0
  /\ conn[c] = Free
  /\ conn' = [conn EXCEPT ![c] =
                Slot("reset", "ready", User, itemTask[i], 0, 0, FALSE)]
  /\ UNCHANGED <<rows, items, files, announced, wk>>

UserAbortCommit(c) ==
  LET i == itemOf[conn[c].task] IN
  /\ conn[c].op = "reset"
  /\ itemStatus' = [itemStatus EXCEPT ![i] = "REVOKED"]
  /\ itemTask' = [itemTask EXCEPT ![i] = 0]
  /\ conn' = [conn EXCEPT ![c] = Free]
  /\ UNCHANGED <<rows, document, files, announced, wk>>

(***************************************************************************)
(* The server side of complete, fail, abort and of the sweep.              *)
(***************************************************************************)
Authorized(c) == Holds(c.by, c.task, c.secret)

(* The worker gets its reply. A completion that is refused, ignored or      *)
(* undone raises in the handler, which then reports a failure; so does an   *)
(* abort that was undone.                                                   *)
Answered(c, raises) ==
  IF conn[c].awaited
  THEN [wk EXCEPT ![conn[c].by] =
          IF raises THEN [@ EXCEPT !.phase = "recovering"] ELSE Resting]
  ELSE wk

Begin(c) ==
  /\ conn[c].phase = "sent"
  /\ Authorized(conn[c])
  /\ conn' = [conn EXCEPT ![c].phase = "open", ![c].retry = retry[conn[c].task],
                ![c].op = IF @ = "complete" /\ NewerActive(conn[c])
                          THEN "supersede" ELSE @]
  /\ UNCHANGED <<rows, items, files, announced, wk>>

Refuse(c) ==
  /\ conn[c].phase = "sent"
  /\ ~Authorized(conn[c])
  /\ wk' = Answered(c, conn[c].op = "complete")
  /\ conn' = [conn EXCEPT ![c] = Free]
  /\ UNCHANGED <<rows, items, files, announced>>

(* Staging is promoted by a completion and removed by anything else, before*)
(* the commit and not undone with it; then the item's UPDATE runs, and     *)
(* matches the row or silently does not.                                   *)
Write(c) ==
  LET t == conn[c].task
      promotes == conn[c].op = "complete" /\ t \in staged
  IN
  /\ conn[c].phase = "open"
  /\ staged' = staged \ {t}
  /\ canonical' = IF promotes THEN [canonical EXCEPT ![itemOf[t]] = t]
                              ELSE canonical
  /\ conn' = [conn EXCEPT ![c].phase = "ready", ![c].promoted = promotes,
                ![c].access = MayUpdateItem(conn[c])]
  /\ UNCHANGED <<rows, items, announced, wk>>

Settles(c) == conn[c].phase = "ready" /\ conn[c].op \notin {"enqueue", "reset"}

Commit(c) ==
  LET t == conn[c].task
      i == itemOf[t]
      again == Retryable(conn[c])
      itemWrite == conn[c].access /\ conn[c].op # "supersede"
  IN
  /\ Settles(c)
  /\ MayUpdateTask(conn[c])
  /\ status' = [status EXCEPT ![t] = Verdict(conn[c])]
  /\ owner' = [owner EXCEPT ![t] = OwnerAfter(conn[c])]
  /\ issued' = [issued EXCEPT ![t] = IssuedAfter(conn[c])]
  /\ secret' = [secret EXCEPT ![t] =
                  IF again THEN IssuedAfter(conn[c]) ELSE 0]
  /\ retry' = [retry EXCEPT ![t] = IF again THEN conn[c].retry + 1 ELSE @]
  /\ stale' = [stale EXCEPT ![t] = FALSE]
  /\ itemStatus' = IF itemWrite
                   THEN [itemStatus EXCEPT ![i] = ItemVerdict(conn[c])]
                   ELSE itemStatus
  /\ document' = IF itemWrite /\ conn[c].promoted
                 THEN [document EXCEPT ![i] = t] ELSE document
  /\ announced' = announced \cup
       (IF conn[c].op \in {"complete", "fail", "fatal"} /\ ~again
        THEN {<<t, Verdict(conn[c])>>} ELSE {})
  /\ wk' = Answered(c, conn[c].op = "supersede")
  /\ conn' = [conn EXCEPT ![c] = Free]
  /\ UNCHANGED <<created, itemOf, itemTask, files>>

(* The transaction is undone; files moved by Write stay moved. *)
Undo(c) ==
  /\ wk' = Answered(c, conn[c].op \in {"complete", "supersede", "abort"})
  /\ conn' = [conn EXCEPT ![c] = Free]
  /\ UNCHANGED <<rows, items, files, announced>>

(* The row policy or a unique key rejects the transaction. *)
CommitRefused(c) ==
  /\ \/ Settles(c) /\ ~MayUpdateTask(conn[c])
     \/ /\ conn[c].op = "enqueue" /\ conn[c].found = "ABSENT"
        /\ itemStatus[itemOf[conn[c].task]] # "ABSENT"
  /\ Undo(c)

(* A database error, a deadlock, or the server process dies. *)
Abandon(c) == conn[c] # Free /\ Undo(c)

Next ==
  \/ \E c \in Conn, i \in Item :
       EnqueueBegin(c, i) \/ AdminAbort(c, i) \/ UserAbortBegin(c, i)
  \/ \E w \in Worker, t \in Task : Claim(w, t)
  \/ \E w \in Worker : UploadExtracted(w) \/ Heartbeat(w) \/ Timeout(w) \/ Crash(w)
  \/ \E w \in Worker, c \in Conn :
       Report(w, c) \/ ReportFailure(w, c) \/ NoticeSuperseded(w, c) \/ Signal(w, c)
  \/ \E t \in Task : ClockAdvance(t)
  \/ \E c \in Conn, t \in Task : SweepBegin(c, t)
  \/ \E c \in Conn :
       \/ EnqueueCommit(c) \/ UserAbortCommit(c) \/ Begin(c) \/ Refuse(c)
       \/ Write(c) \/ Commit(c) \/ CommitRefused(c) \/ Abandon(c)

Spec == Init /\ [][Next]_vars

(***************************************************************************)
(* Fairness.  Request handlers and the sweep are run by the event loop, so *)
(* an enabled step is taken; strong fairness where another request may     *)
(* take the free slot, or the database may undo a transaction, again and   *)
(* again but not for ever.  A handler in the worker returns in the end.    *)
(***************************************************************************)
Fairness ==
  /\ \A c \in Conn :
       /\ WF_vars(EnqueueCommit(c)) /\ WF_vars(UserAbortCommit(c))
       /\ SF_vars(Begin(c)) /\ WF_vars(Refuse(c)) /\ SF_vars(Write(c))
       /\ SF_vars(Commit(c)) /\ WF_vars(CommitRefused(c))
  /\ \A w \in Worker :
       /\ SF_vars(\E t \in Task : Claim(w, t))
       /\ SF_vars(\E c \in Conn : Report(w, c))
       /\ SF_vars(\E c \in Conn : ReportFailure(w, c))
  /\ \A t \in Task : WF_vars(ClockAdvance(t))
  /\ SF_vars(\E c \in Conn, t \in Task : SweepBegin(c, t))

FairSpec == Spec /\ Fairness

(***************************************************************************)
(* Properties.                                                             *)
(***************************************************************************)
Secret == Nat

Request ==
  [op : {"none", "enqueue", "reset", "sweep", "complete", "supersede", "fail",
         "fatal", "abort"},
   phase : {"free", "sent", "open", "ready"},
   by : Worker \cup Systems \cup {Null}, task : 0..MaxTasks, secret : Secret,
   retry : 0..MaxRetries, access : BOOLEAN, promoted : BOOLEAN,
   seen : SUBSET Task, found : ItemStatus, awaited : BOOLEAN]

(* Every variable has its type; retry_count never passes max_retries. *)
TypeOK ==
  /\ created \in 0..MaxTasks
  /\ itemOf \in [Task -> Item]
  /\ status \in [Task -> Active \cup Terminal \cup {"ABSENT"}]
  /\ owner \in [Task -> Worker \cup {Null}]
  /\ secret \in [Task -> Secret] /\ issued \in [Task -> Secret]
  /\ retry \in [Task -> 0..MaxRetries]
  /\ stale \in [Task -> BOOLEAN]
  /\ itemStatus \in [Item -> ItemStatus]
  /\ itemTask \in [Item -> 0..MaxTasks] /\ document \in [Item -> 0..MaxTasks]
  /\ staged \subseteq Task /\ canonical \in [Item -> 0..MaxTasks]
  /\ announced \subseteq Task \X Terminal
  /\ conn \in [Conn -> Request]
  /\ wk \in [Worker -> [phase : {"idle", "working", "waiting", "recovering"},
                        task : 0..MaxTasks, secret : Secret]]

(* A row that two racing requests wrote is still one the code can act on:  *)
(* PENDING rows are unowned, active rows carry the newest secret, settled  *)
(* ones none (a superseded row that nobody claimed keeps its own).         *)
RowConsistent ==
  \A t \in Task :
    /\ status[t] \in {"ABSENT", "PENDING"} => owner[t] = Null
    /\ status[t] = "CLAIMED" => owner[t] \in Worker
    /\ status[t] \in Active => secret[t] = issued[t] /\ issued[t] > 0
    /\ status[t] \in {"COMPLETED", "FAILED"} => secret[t] = 0
    /\ secret[t] \in {0, issued[t]}

(* Two workers never hold the same secret of the same task, whatever       *)
(* requests of theirs were lost, late or repeated: after a retry the       *)
(* earlier worker is locked out by its old secret.                         *)
SecretsNotShared ==
  \A v, w \in Worker :
    v # w /\ wk[v].task # 0 /\ wk[v].task = wk[w].task
      => wk[v].secret # wk[w].secret

(***************************************************************************)
(* The inductive invariant behind RowConsistent, SecretsNotShared and the  *)
(* refinement: a task id is reserved by one enqueue until its row exists,  *)
(* whoever knows a task id knows an existing row, and a secret that a      *)
(* worker has is never newer than the task's and older while it waits.     *)
(***************************************************************************)
IdsReserved ==
  /\ \A t \in Task : t > created => status[t] = "ABSENT"
  /\ \A c \in Conn : conn[c].op = "enqueue" =>
       /\ conn[c].task \in Task /\ conn[c].task <= created
       /\ status[conn[c].task] = "ABSENT"
  /\ \A c, d \in Conn :
       conn[c].op = "enqueue" /\ conn[d].op = "enqueue"
         /\ conn[c].task = conn[d].task => c = d

KnownTasksExist ==
  /\ \A w \in Worker :
       /\ wk[w].phase # "idle" => wk[w].task # 0
       /\ wk[w].task # 0 => status[wk[w].task] # "ABSENT"
  /\ \A i \in Item : itemTask[i] # 0 => status[itemTask[i]] # "ABSENT"
  /\ \A c \in Conn : conn[c].phase # "free" /\ conn[c].op # "enqueue" =>
       conn[c].task \in Task /\ status[conn[c].task] # "ABSENT"

RequestersKnown ==
  \A c \in Conn :
    /\ conn[c].phase = "free" => conn[c] = Free
    /\ conn[c].phase = "sent" => conn[c].by \in Worker
    /\ conn[c].phase # "free" /\ conn[c].op \notin {"enqueue", "reset"} =>
         conn[c].by \in Worker \cup {Admin, Cleanup}
    /\ conn[c].op \in {"enqueue", "reset"} => conn[c].phase = "ready"

RepliesAwaited ==
  /\ \A c \in Conn : conn[c].awaited =>
       conn[c].by \in Worker /\ wk[conn[c].by].phase = "waiting"
  /\ \A c, d \in Conn :
       conn[c].awaited /\ conn[d].awaited /\ conn[c].by = conn[d].by => c = d

SecretsInTime ==
  \A w \in Worker : wk[w].task # 0 =>
    /\ wk[w].secret <= issued[wk[w].task]
    /\ status[wk[w].task] = "PENDING" => wk[w].secret < issued[wk[w].task]

IInv ==
  /\ TypeOK /\ IdsReserved /\ KnownTasksExist /\ RequestersKnown
  /\ RepliesAwaited /\ RowConsistent /\ SecretsInTime /\ SecretsNotShared

EndedBy(t, by) ==
  \E c \in Conn :
    conn[c].phase = "ready" /\ conn[c].task = t /\ conn[c].by \in by /\ conn'[c] = Free

(* A claim is ended by the worker that has it, by an admin or by the sweep:*)
(* no late request of a worker that had the task before ends it, although  *)
(* the handlers test secret and owner only when they begin.                *)
ClaimNotStolen ==
  [][\A t \in Task :
       status[t] = "CLAIMED" /\ ~(status'[t] = "CLAIMED" /\ owner'[t] = owner[t])
         => EndedBy(t, {owner[t], Admin, Cleanup})]_vars

Abandoned(i) == itemStatus[i] \in ActiveItem /\ ActiveTasks(i) = {}

(* An item that says it is being processed has an active task.  The one way*)
(* it loses it is a worker's request that is still in progress when the    *)
(* task has been given out again to the same worker.                       *)
ItemNotAbandoned ==
  [][\A i \in Item :
       ~Abandoned(i) /\ Abandoned(i)' =>
         \E c \in Conn :
           /\ conn[c].phase = "ready" /\ conn'[c] = Free
           /\ conn[c].by \in Worker
           /\ conn[c].secret < issued[conn[c].task]]_vars

(* Every task is settled in the end: crashed workers, lost replies and     *)
(* undone transactions leave nothing PENDING or CLAIMED for ever.          *)
QueueDrains == <>[](\A t \in Task : status[t] \notin Active)

Phase ==
  [t \in Task |-> CASE status[t] = "ABSENT" -> "absent"
                   [] status[t] = "PENDING" -> "waiting"
                   [] status[t] = "CLAIMED" -> "running"
                   [] OTHER -> "done"]

Lifecycle == INSTANCE TaskLifecycle WITH phase <- Phase, ticket <- issued

(* Seen from outside, a task waits, runs and is done, and its task_secret  *)
(* is a ticket that is new for every attempt: the queue with its requests, *)
(* retries and sweeps implements TaskLifecycle.                            *)
LifecycleSpec == Lifecycle!Spec

(***************************************************************************)
(* What the code says of itself and does not do.                           *)
(***************************************************************************)
(* "Ignoring failure for task %s because status is %s": a failure report   *)
(* does not change a task that has been settled.                           *)
SettledFailureIgnored ==
  [][\A c \in Conn :
       conn[c].op = "fail" /\ conn[c].phase = "ready" /\ conn'[c] = Free
         /\ status[conn[c].task] \in Terminal
         => status'[conn[c].task] = status[conn[c].task]]_vars
=============================================================================
