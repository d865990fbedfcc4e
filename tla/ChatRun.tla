------------------------------ MODULE ChatRun ------------------------------
(***************************************************************************)
(* Resumable chat and research runs of the backend: the rows of chat_runs  *)
(* and research_reports, the runner loop of each backend process           *)
(* (api/chat/runner), the routes that submit, cancel and follow a run      *)
(* (api/routers/conversations/runs.py) and the event stream of a run in    *)
(* Valkey (api/chat/run/events.py).                                        *)
(*                                                                         *)
(* A step is what happens between two awaits: a read, a single-row write   *)
(* or an append.  Sessions read committed rows and a mark_* method writes  *)
(* the row by its key, so a status that was read may be gone by the time   *)
(* of the write.                                                           *)
(***************************************************************************)
EXTENDS Integers, Sequences

CONSTANTS Run,          \* requests for a run; each makes at most one row
          Conversation,
          Runner,       \* backend processes, one runner loop each
          Reader,       \* clients that follow the stream of a run
          ConversationOf, \* of a request
          Research,     \* the requests with mode "research"
          Cancellable,  \* bound: the runs whose user ever cancels them
          MaxParts,     \* bound: events the graph emits in one execution
          MaxFaults     \* bound: processes that stop and heartbeats that stall

None == "none"

ASSUME BoundsAssumption == MaxParts \in Nat /\ MaxFaults \in Nat
ASSUME ConversationAssumption == ConversationOf \in [Run -> Conversation]
ASSUME ResearchAssumption == Research \subseteq Run
ASSUME CancellableAssumption == Cancellable \subseteq Run
ASSUME NoneAssumption == None \notin Runner \cup Run

VARIABLES
  status,    \* ChatRun.status, "ABSENT" without a row
  claimedBy, \* ChatRun.claimed_by
  stale,     \* claimed_at is older than CHAT_RUN_CLAIM_TIMEOUT_SECONDS
  order,     \* the rows by created_at
  report,    \* ResearchReport.status, "ABSENT" without a row
  answered,  \* runs whose report is a message of the conversation
  stream,    \* the event stream of each run
  request,   \* progress of the request that submits a run
  cancel,    \* progress of the request that cancels it
  runner,    \* the runner loop of each process
  reader,    \* the stream request of each reader
  faults     \* faults so far

rows == <<status, claimedBy, stale, order>>
reports == <<report, answered>>
requests == <<request, cancel>>
vars == <<rows, reports, stream, requests, runner, reader, faults>>

Active == {"PENDING", "RUNNING"}
Terminal == {"COMPLETED", "FAILED", "CANCELLED"}
Done == {"done", "cancelled"}  \* event "done", with COMPLETED or CANCELLED

Idle == [pc |-> "idle", run |-> None, parts |-> 0, beating |-> FALSE]
Working(b) == runner[b].pc # "idle"
Executes(b, r) == Working(b) /\ runner[b].run = r

(* The try block of execute_chat_run, and its two handlers. *)
Body == {"start", "status", "stream", "append", "report", "answer", "done", "complete", "announce"}
Handler == {"raise", "error", "fail", "failReport", "stop", "stopWrite", "stopReport"}

SetStatus(r, s) == status' = [status EXCEPT ![r] = s]
SetReport(r, s) == report' = [report EXCEPT ![r] = s]
Emit(r, event) == stream' = [stream EXCEPT ![r] = Append(@, event)]
GoTo(b, pc) == runner' = [runner EXCEPT ![b].pc = pc]
Leave(b) == runner' = [runner EXCEPT ![b] = Idle]
Fault == faults < MaxFaults /\ faults' = faults + 1

Init ==
  /\ status = [r \in Run |-> "ABSENT"]
  /\ claimedBy = [r \in Run |-> None]
  /\ stale = [r \in Run |-> FALSE]
  /\ order = <<>>
  /\ report = [r \in Run |-> "ABSENT"]
  /\ answered = {}
  /\ stream = [r \in Run |-> <<>>]
  /\ request = [r \in Run |-> "new"]
  /\ cancel = [r \in Run |-> "new"]
  /\ runner = [b \in Runner |-> Idle]
  /\ reader = [c \in Reader |-> [pc |-> "off", run |-> None, cursor |-> 0, saw |-> None]]
  /\ faults = 0

-----------------------------------------------------------------------------
(* Submitting: create_conversation_run. *)

ActiveIn(c) == {r \in Run : status[r] \in Active /\ ConversationOf[r] = c}

Asked(r, pc) == request' = [request EXCEPT ![r] = pc] /\ UNCHANGED cancel

(* A research request creates its report before it tests anything. *)
Submit(r) ==
  /\ request[r] = "new"
  /\ Asked(r, "check")
  /\ IF r \in Research THEN SetReport(r, "PENDING") ELSE UNCHANGED report
  /\ UNCHANGED <<rows, answered, stream, runner, reader, faults>>

(* has_active_run; a request that is turned away takes its report with it. *)
Check(r) ==
  /\ request[r] = "check"
  /\ \/ /\ ActiveIn(ConversationOf[r]) = {}
        /\ Asked(r, "insert")
        /\ UNCHANGED report
     \/ /\ ActiveIn(ConversationOf[r]) # {}
        /\ Asked(r, "ended")
        /\ SetReport(r, "ABSENT")
  /\ UNCHANGED <<rows, answered, stream, runner, reader, faults>>

AddRow(r) ==
  /\ SetStatus(r, "PENDING")
  /\ order' = Append(order, r)
  /\ Asked(r, IF r \in Research THEN "persist" ELSE "ended")
  /\ UNCHANGED <<claimedBy, stale, reports, stream, runner, reader, faults>>

(* Fault: the table has no unique index on active runs. *)
InsertUnindexed(r) == request[r] = "insert" /\ AddRow(r)

(* The index ux_chat_runs_active_conversation refuses a second active run; *)
(* the IntegrityError is caught by nobody and the report stays.            *)
Insert(r) ==
  /\ request[r] = "insert"
  /\ \/ ActiveIn(ConversationOf[r]) = {} /\ AddRow(r)
     \/ /\ ActiveIn(ConversationOf[r]) # {}
        /\ Asked(r, "ended")
        /\ UNCHANGED <<rows, reports, stream, runner, reader, faults>>

(* persist_submitted_messages, which may fail; the run can be claimed by then. *)
Persist(r) ==
  /\ request[r] = "persist"
  /\ \/ Asked(r, "ended") /\ UNCHANGED status
     \/ Asked(r, "undo") /\ SetStatus(r, "FAILED")
  /\ UNCHANGED <<claimedBy, stale, order, reports, stream, runner, reader, faults>>

FailSubmission(r) ==
  /\ request[r] = "undo"
  /\ Asked(r, "ended")
  /\ SetReport(r, "FAILED")
  /\ UNCHANGED <<rows, answered, stream, runner, reader, faults>>

-----------------------------------------------------------------------------
(* Claiming: process_next_chat_run, one run at a time in each process. *)

(* Fault: only pending runs are taken. *)
ClaimablePending(r) == status[r] = "PENDING"

(* Fault: a stale claim is taken over whatever the run's status. *)
ClaimableEnded(r) == status[r] = "PENDING" \/ stale[r]

Claimable(r) == status[r] = "PENDING" \/ (status[r] = "RUNNING" /\ stale[r])

Oldest(r) ==
  \E i \in DOMAIN order :
    /\ order[i] = r
    /\ Claimable(r)
    /\ \A j \in 1..(i - 1) : ~Claimable(order[j])

Take(b, r) ==
  /\ ~Working(b)
  /\ Oldest(r)
  /\ SetStatus(r, "RUNNING")
  /\ stale' = [stale EXCEPT ![r] = FALSE]
  /\ runner' = [runner EXCEPT ![b] =
       [pc |-> IF r \in Research THEN "start" ELSE "status",
        run |-> r, parts |-> 0, beating |-> TRUE]]
  /\ UNCHANGED <<order, reports, stream, requests, reader, faults>>

(* Fault: the claim is not signed. *)
ClaimUnsigned(b, r) == Take(b, r) /\ UNCHANGED claimedBy

Claim(b, r) == Take(b, r) /\ claimedBy' = [claimedBy EXCEPT ![r] = b]

(* _heartbeat_chat_run_loop: it ends for good when the run is not this     *)
(* runner's any more; the execution is not told.                           *)
Heartbeat(b) ==
  /\ Working(b) /\ runner[b].beating
  /\ LET r == runner[b].run IN
     IF status[r] = "RUNNING" /\ claimedBy[r] = b
     THEN stale' = [stale EXCEPT ![r] = FALSE] /\ UNCHANGED runner
     ELSE runner' = [runner EXCEPT ![b].beating = FALSE] /\ UNCHANGED stale
  /\ UNCHANGED <<status, claimedBy, order, reports, stream, requests, reader, faults>>

TimesOut(r) ==
  /\ status[r] = "RUNNING" /\ ~stale[r]
  /\ stale' = [stale EXCEPT ![r] = TRUE]
  /\ UNCHANGED <<status, claimedBy, order, reports, stream, requests, runner, reader>>

Refreshed(r) == \E b \in Runner : Executes(b, r) /\ claimedBy[r] = b

(* The claim times out, since nobody refreshes it ... *)
Lapse(r) == ~Refreshed(r) /\ TimesOut(r) /\ UNCHANGED faults

(* ... or the heartbeats of a busy runner fail or are late. *)
Stall(r) == Refreshed(r) /\ Fault /\ TimesOut(r)

-----------------------------------------------------------------------------
(* Executing: execute_chat_run with its chat and research mode. *)

At(b, pc) == runner[b].pc = pc
Mine(b) == runner[b].run
IsResearch(b) == Mine(b) \in Research
Cancelled(r) == status[r] = "CANCELLED"  \* _run_was_cancelled

StartReport(b) ==
  /\ At(b, "start")
  /\ SetReport(Mine(b), "RUNNING")
  /\ GoTo(b, "status")
  /\ UNCHANGED <<rows, answered, stream, requests, reader, faults>>

StatusEvent(b) ==
  /\ At(b, "status")
  /\ Emit(Mine(b), "status")
  /\ GoTo(b, "stream")
  /\ UNCHANGED <<rows, reports, requests, reader, faults>>

(* The graph yields a part: the run is tested before the event is appended. *)
NextPart(b) ==
  /\ At(b, "stream") /\ runner[b].parts < MaxParts
  /\ IF Cancelled(Mine(b)) THEN Leave(b)
     ELSE runner' = [runner EXCEPT ![b].pc = "append", ![b].parts = @ + 1]
  /\ UNCHANGED <<rows, reports, stream, requests, reader, faults>>

AppendPart(b) ==
  /\ At(b, "append")
  /\ Emit(Mine(b), "part")
  /\ GoTo(b, "stream")
  /\ UNCHANGED <<rows, reports, requests, reader, faults>>

EndOfGraph(b) ==
  /\ At(b, "stream")
  /\ IF Cancelled(Mine(b)) THEN Leave(b)
     ELSE GoTo(b, IF IsResearch(b) THEN "report" ELSE "done")
  /\ UNCHANGED <<rows, reports, stream, requests, reader, faults>>

(* Fault: the report does not become a message of the conversation. *)
CompleteReportUnsaid(b) ==
  /\ At(b, "report")
  /\ SetReport(Mine(b), "COMPLETED")
  /\ GoTo(b, "done")
  /\ UNCHANGED <<rows, answered, stream, requests, reader, faults>>

CompleteReport(b) ==
  /\ At(b, "report")
  /\ SetReport(Mine(b), "COMPLETED")
  /\ GoTo(b, "answer")
  /\ UNCHANGED <<rows, answered, stream, requests, reader, faults>>

(* The message id is made of the report id: a second append replaces it. *)
AppendAnswer(b) ==
  /\ At(b, "answer")
  /\ answered' = answered \cup {Mine(b)}
  /\ GoTo(b, "done")
  /\ UNCHANGED <<rows, report, stream, requests, reader, faults>>

DoneEvent(b) ==
  /\ At(b, "done")
  /\ Emit(Mine(b), "done")
  /\ GoTo(b, "complete")
  /\ UNCHANGED <<rows, reports, requests, reader, faults>>

(* mark_completed writes the status whatever it is. *)
Complete(b) ==
  /\ At(b, "complete")
  /\ SetStatus(Mine(b), "COMPLETED")
  /\ GoTo(b, "announce")
  /\ UNCHANGED <<claimedBy, stale, order, reports, stream, requests, reader, faults>>

(* publish_user_event, whose failure is only logged; a cancellation that   *)
(* reaches the task here still cancels the report of the completed run.    *)
Announce(b) ==
  /\ At(b, "announce")
  /\ Leave(b)
  /\ UNCHANGED <<rows, reports, stream, requests, reader, faults>>

(* Any other call of the try block may raise. *)
Raise(b) ==
  /\ runner[b].pc \in Body \ {"announce"}
  /\ GoTo(b, "raise")
  /\ UNCHANGED <<rows, reports, stream, requests, reader, faults>>

HandleError(b) ==
  /\ At(b, "raise")
  /\ IF Cancelled(Mine(b)) THEN Leave(b) ELSE GoTo(b, "error")
  /\ UNCHANGED <<rows, reports, stream, requests, reader, faults>>

(* A failed append is only logged. *)
ErrorEvent(b) ==
  /\ At(b, "error")
  /\ Emit(Mine(b), "error") \/ UNCHANGED stream
  /\ GoTo(b, "fail")
  /\ UNCHANGED <<rows, reports, requests, reader, faults>>

Fail(b) ==
  /\ At(b, "fail")
  /\ SetStatus(Mine(b), "FAILED")
  /\ IF IsResearch(b) THEN GoTo(b, "failReport") ELSE Leave(b)
  /\ UNCHANGED <<claimedBy, stale, order, reports, stream, requests, reader, faults>>

FailReport(b) ==
  /\ At(b, "failReport")
  /\ SetReport(Mine(b), "FAILED")
  /\ Leave(b)
  /\ UNCHANGED <<rows, answered, stream, requests, reader, faults>>

-----------------------------------------------------------------------------
(* Cancellation of the task: task.cancel() of the route or of a shutdown.  *)
(* In a handler it escapes from execute_chat_run.                          *)

Interrupt(b) ==
  \/ runner[b].pc \in Body /\ GoTo(b, "stop")
  \/ runner[b].pc \in Handler /\ Leave(b)

StopNext(b) == IF IsResearch(b) THEN GoTo(b, "stopReport") ELSE Leave(b)

(* mark_cancelled reads the row, then writes it if it was active. *)
StopRead(b) ==
  /\ At(b, "stop")
  /\ IF status[Mine(b)] \in Active THEN GoTo(b, "stopWrite") ELSE StopNext(b)
  /\ UNCHANGED <<rows, reports, stream, requests, reader, faults>>

StopWrite(b) ==
  /\ At(b, "stopWrite")
  /\ SetStatus(Mine(b), "CANCELLED")
  /\ StopNext(b)
  /\ UNCHANGED <<claimedBy, stale, order, reports, stream, requests, reader, faults>>

StopReport(b) ==
  /\ At(b, "stopReport")
  /\ SetReport(Mine(b), "CANCELLED")
  /\ Leave(b)
  /\ UNCHANGED <<rows, answered, stream, requests, reader, faults>>

Shutdown(b) ==
  /\ Fault
  /\ Interrupt(b)
  /\ UNCHANGED <<rows, reports, stream, requests, reader>>

(* The process dies, or the database fails in a handler or before the body. *)
Crash(b) ==
  /\ Working(b)
  /\ Fault
  /\ Leave(b)
  /\ UNCHANGED <<rows, reports, stream, requests, reader>>

-----------------------------------------------------------------------------
(* Cancelling: cancel_conversation_run, once for each run of Cancellable. *)

CancelAt(r, pc) == cancel' = [cancel EXCEPT ![r] = pc] /\ UNCHANGED request

(* A run that has ended is returned as it is. *)
CancelBegin(r) ==
  /\ r \in Cancellable /\ cancel[r] = "new" /\ status[r] \in Active
  /\ CancelAt(r, "event")
  /\ UNCHANGED <<rows, reports, stream, runner, reader, faults>>

(* _append_cancelled_event, whose failure is only logged. *)
CancelEvent(r) ==
  /\ cancel[r] = "event"
  /\ Emit(r, "cancelled") \/ UNCHANGED stream
  /\ CancelAt(r, "read")
  /\ UNCHANGED <<rows, reports, runner, reader, faults>>

CancelNext(r) == CancelAt(r, IF r \in Research THEN "report" ELSE "signal")

CancelRead(r) ==
  /\ cancel[r] = "read"
  /\ IF status[r] \in Active THEN CancelAt(r, "write") ELSE CancelNext(r)
  /\ UNCHANGED <<rows, reports, stream, runner, reader, faults>>

CancelWrite(r) ==
  /\ cancel[r] = "write"
  /\ SetStatus(r, "CANCELLED")
  /\ CancelNext(r)
  /\ UNCHANGED <<claimedBy, stale, order, reports, stream, runner, reader, faults>>

(* The report is cancelled whatever became of the run. *)
CancelReport(r) ==
  /\ cancel[r] = "report"
  /\ SetReport(r, "CANCELLED")
  /\ CancelAt(r, "signal")
  /\ UNCHANGED <<rows, answered, stream, runner, reader, faults>>

(* request_chat_run_cancellation reaches a task of the process that serves *)
(* the request.                                                            *)
CancelSignal(r, b) ==
  /\ cancel[r] = "signal"
  /\ CancelAt(r, "ended")
  /\ IF Executes(b, r) THEN Interrupt(b) ELSE UNCHANGED runner
  /\ UNCHANGED <<rows, reports, stream, reader, faults>>

(* The process that serves a request dies, or the database fails. *)
RequestLost(r) ==
  /\ Fault
  /\ \/ request[r] \notin {"new", "ended"} /\ Asked(r, "ended")
     \/ cancel[r] \notin {"new", "ended"} /\ CancelAt(r, "ended")
  /\ UNCHANGED <<rows, reports, stream, runner, reader>>

-----------------------------------------------------------------------------
(* Following: stream_conversation_run. *)

ReaderAt(c, pc) == reader[c].pc = pc

(* The status is read before the stored events are. *)
Join(c, r) ==
  /\ ReaderAt(c, "off") /\ status[r] # "ABSENT"
  /\ \E after \in 0..Len(stream[r]) :
       reader' = [reader EXCEPT ![c] =
         [pc |-> "replay", run |-> r, cursor |-> after, saw |-> status[r]]]
  /\ UNCHANGED <<rows, reports, stream, requests, runner, faults>>

Unread(c) == (reader[c].cursor + 1)..Len(stream[reader[c].run])
DoneUnread(c) == \E i \in Unread(c) : stream[reader[c].run][i] \in Done

ReadTo(c, pc) ==
  reader' = [reader EXCEPT ![c].cursor = Len(stream[reader[c].run]), ![c].pc = pc]

Replay(c) ==
  /\ ReaderAt(c, "replay")
  /\ ReadTo(c, IF DoneUnread(c) \/ reader[c].saw \in Terminal THEN "ended" ELSE "tail")
  /\ UNCHANGED <<rows, reports, stream, requests, runner, faults>>

(* read_next_events; only a "done" at the end of the batch is looked for. *)
Follow(c) ==
  /\ ReaderAt(c, "tail") /\ Unread(c) # {}
  /\ LET events == stream[reader[c].run] IN
     ReadTo(c, IF events[Len(events)] \in Done THEN "ended" ELSE "tail")
  /\ UNCHANGED <<rows, reports, stream, requests, runner, faults>>

(* It returned nothing: the status of the run is read next. *)
TailEmpty(c) ==
  /\ ReaderAt(c, "tail") /\ Unread(c) = {}
  /\ reader' = [reader EXCEPT ![c].pc = "poll"]
  /\ UNCHANGED <<rows, reports, stream, requests, runner, faults>>

PollTo(c, pc) ==
  /\ ReaderAt(c, "poll")
  /\ reader' = [reader EXCEPT ![c].saw = status[reader[c].run], ![c].pc = pc]
  /\ UNCHANGED <<rows, reports, stream, requests, runner, faults>>

(* Fault: the stream is not read again once the run has ended. *)
PollAndLeave(c) ==
  PollTo(c, IF status[reader[c].run] \in Terminal THEN "ended" ELSE "tail")

(* Fault: only events end the stream. *)
PollForEvents(c) == PollTo(c, "tail")

(* One more replay follows a terminal status. *)
Poll(c) == PollTo(c, IF status[reader[c].run] \in Terminal THEN "replay" ELSE "tail")

-----------------------------------------------------------------------------
Submission(r) == Submit(r) \/ Check(r) \/ Insert(r) \/ Persist(r) \/ FailSubmission(r)

Cancellation(r) ==
  \/ CancelEvent(r) \/ CancelRead(r) \/ CancelWrite(r) \/ CancelReport(r)
  \/ \E b \in Runner : CancelSignal(r, b)

Execution(b) ==
  \/ StartReport(b) \/ StatusEvent(b) \/ NextPart(b) \/ AppendPart(b) \/ EndOfGraph(b)
  \/ CompleteReport(b) \/ AppendAnswer(b) \/ DoneEvent(b) \/ Complete(b)
  \/ Announce(b)
  \/ HandleError(b) \/ ErrorEvent(b) \/ Fail(b) \/ FailReport(b)
  \/ StopRead(b) \/ StopWrite(b) \/ StopReport(b)

Following(c) == Replay(c) \/ Follow(c) \/ TailEmpty(c) \/ Poll(c)

Next ==
  \/ \E r \in Run : Submission(r) \/ CancelBegin(r) \/ Cancellation(r) \/ RequestLost(r) \/ Lapse(r) \/ Stall(r)
  \/ \E b \in Runner : Execution(b) \/ Raise(b) \/ Heartbeat(b) \/ Shutdown(b) \/ Crash(b)
  \/ \E b \in Runner, r \in Run : Claim(b, r)
  \/ \E c \in Reader : Following(c) \/ \E r \in Run : Join(c, r)

Spec == Init /\ [][Next]_vars

(* The runner loops never stop, the event loop runs what can go on, a      *)
(* graph ends, and a claim that nobody refreshes times out.                *)
Fairness ==
  /\ \A b \in Runner : WF_vars(Execution(b)) /\ WF_vars(\E r \in Run : Claim(b, r))
  /\ \A r \in Run : WF_vars(Lapse(r))
  /\ \A c \in Reader : WF_vars(Following(c))

FairSpec == Spec /\ Fairness

-----------------------------------------------------------------------------
(* Properties. *)

Events == {"status", "part", "error"} \cup Done

RowsTyped ==
  /\ status \in [Run -> {"ABSENT"} \cup Active \cup Terminal]
  /\ claimedBy \in [Run -> Runner \cup {None}]
  /\ \A r \in Run : status[r] = "RUNNING" => claimedBy[r] # None
  /\ stale \in [Run -> BOOLEAN]
  /\ order \in Seq(Run)
  /\ report \in [Run -> {"ABSENT"} \cup Active \cup Terminal]
  /\ answered \subseteq Run
  /\ faults \in 0..MaxFaults

RequestsTyped ==
  /\ request \in [Run -> {"new", "check", "insert", "persist", "undo", "ended"}]
  /\ cancel \in [Run -> {"new", "event", "read", "write", "report", "signal", "ended"}]

RunnersTyped ==
  /\ runner \in [Runner -> [pc : {"idle"} \cup Body \cup Handler, run : Run \cup {None},
                            parts : 0..MaxParts, beating : BOOLEAN]]
  /\ \A b \in Runner : Working(b) => runner[b].run \in Run

ReadersTyped ==
  /\ reader \in [Reader -> [pc : {"off", "replay", "tail", "poll", "ended"},
                            run : Run \cup {None}, cursor : Nat,
                            saw : {None, "ABSENT"} \cup Active \cup Terminal]]
  /\ \A c \in Reader : ~ReaderAt(c, "off") => reader[c].run \in Run

(* Every variable keeps its type; a run that somebody runs has a claimant. *)
TypeOK ==
  /\ RowsTyped
  /\ RequestsTyped
  /\ RunnersTyped
  /\ ReadersTyped
  /\ stream \in [Run -> Seq(Events)]

(* A conversation never has two active runs, though two submissions can    *)
(* both pass has_active_run, and claims, retries of stale runs and late    *)
(* writes of terminal states change what is active.                        *)
OneActiveRun ==
  \A q, r \in Run :
    status[q] \in Active /\ status[r] \in Active
      /\ ConversationOf[q] = ConversationOf[r] => q = r

(* An event is among the first n of a stream. *)
Seen(r, n, event) == \E i \in DOMAIN stream[r] : i <= n /\ stream[r][i] = event

(* A run that is COMPLETED has its "done" event in the stream, and a       *)
(* research run its report in the conversation: the row is the last thing  *)
(* the runner writes, whoever else ran, cancelled or failed it before.     *)
CompletedRunDelivered ==
  \A r \in Run :
    status[r] = "COMPLETED" =>
      /\ Seen(r, Len(stream[r]), "done")
      /\ r \in Research => r \in answered

(* A client whose stream was closed because the run was COMPLETED has been *)
(* sent the "done" event: the status is read before the last replay.       *)
ReaderSawOutcome ==
  \A c \in Reader :
    ReaderAt(c, "ended") /\ reader[c].saw = "COMPLETED" =>
      Seen(reader[c].run, reader[c].cursor, "done")

(* Why the row comes last: a runner that is about to complete a run has    *)
(* appended what CompletedRunDelivered asks for.                           *)
RunnerDelivered ==
  \A b \in Runner :
    /\ runner[b].pc \in {"done", "complete"} /\ IsResearch(b) => Mine(b) \in answered
    /\ At(b, "complete") => Seen(Mine(b), Len(stream[Mine(b)]), "done")

(* A request that has not inserted its row has none; who runs or cancels a *)
(* run has found its row.                                                  *)
RowsInserted ==
  \A r \in Run :
    /\ request[r] \in {"new", "check", "insert"} => status[r] = "ABSENT"
    /\ cancel[r] # "new" => status[r] # "ABSENT"
    /\ \A b \in Runner : Executes(b, r) => status[r] # "ABSENT"

(* A reader that read COMPLETED has, or has before it, the "done" event. *)
ReaderInformed ==
  \A c \in Reader :
    reader[c].saw = "COMPLETED" =>
      ~ReaderAt(c, "off") /\ Seen(reader[c].run, Len(stream[reader[c].run]), "done")

(* The inductive invariant behind the safety properties above. *)
IInv ==
  /\ TypeOK
  /\ OneActiveRun
  /\ RowsInserted
  /\ CompletedRunDelivered
  /\ RunnerDelivered
  /\ ReaderInformed
  /\ ReaderSawOutcome

(* A run that has ended is never active again: no claim, heartbeat or late *)
(* write takes it up, so a conversation is not blocked by an old run.      *)
EndedRunStaysEnded ==
  [][\A r \in Run : status[r] \in Terminal => status'[r] \in Terminal]_vars

(* Every run ends: runs of processes that died or stalled are taken over,  *)
(* and no run is left behind active by the handlers.                       *)
RunEnds == \A r \in Run : status[r] \in Active ~> status[r] \in Terminal

(* A client that follows a run is let go in the end, also when the run     *)
(* fails or is cancelled without a "done" event.                           *)
StreamEnds == \A c \in Reader : ReaderAt(c, "replay") ~> ReaderAt(c, "ended")

(* What mark_completed says it does: "Mark a claimed/running run as        *)
(* completed."  The run may have been cancelled since it was last tested.  *)
CompletesRunning ==
  [][\A r \in Run : status'[r] = "COMPLETED" /\ status[r] # "COMPLETED"
                      => status[r] = "RUNNING"]_vars

=============================================================================
