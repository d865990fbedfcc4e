------------------------------ MODULE UserEvents ------------------------------
(***************************************************************************)
(* How the end of a task reaches the user who asked for it: the row of the *)
(* event outbox written with the task, the dispatch loops that move rows   *)
(* to the user's stream, the event streams of the browser's tabs, and the  *)
(* notification center that all tabs share in localStorage.                *)
(*                                                                         *)
(* Events are those of one user.  The cancellation of a chat run goes to   *)
(* the stream directly and is lost when the stream cannot be reached.      *)
(***************************************************************************)
EXTENDS Naturals, Sequences, FiniteSets

CONSTANTS
  Event,       \* the events of tasks, through the outbox
  Direct,      \* the events published without it
  Dispatcher,  \* the dispatch loops, one for each process of the backend
  Tab,         \* tabs of the browser
  None,        \* no batch
  MaxStored,   \* MAX_STORED_NOTIFICATIONS
  MaxFaults,   \* crashes, failed appends, broken streams
  MaxUser      \* actions of the user

ASSUME ConstantsAssumption ==
  /\ {MaxStored, MaxFaults, MaxUser} \subseteq Nat /\ MaxStored > 0
  /\ Event \cap Direct = {} /\ None \notin [rows : SUBSET Event, sent : SUBSET Event, failed : SUBSET Event]

VARIABLES
  row,       \* event_outbox: absent, pending, delayed (until next_attempt_at) or processed
  published, \* the direct events that have been published, or lost
  stream,    \* the user's stream in Valkey
  batch,     \* per dispatch loop, the rows it selected and what became of them
  storage,   \* localStorage: the last event id and the notification center, the newest first
  conn,      \* per tab, the position of its event stream, or why it has none
  listed,    \* the events that the notification center has listed
  left       \* faults and user actions that may still happen

backend == <<row, published, stream, batch>>
browser == <<storage, conn, listed>>
vars == <<row, published, stream, batch, storage, conn, listed, left>>

Batch == [rows : SUBSET Event, sent : SUBSET Event, failed : SUBSET Event]
Note == [at : Nat, read : BOOLEAN]

Fault == left.faults > 0 /\ left' = [left EXCEPT !.faults = @ - 1]
Acts == left.user > 0 /\ left' = [left EXCEPT !.user = @ - 1]

----------------------------------------------------------------------------
(* The backend. *)

(* enqueue_user_event, committed with the task. *)
Enqueue(e) ==
  /\ row[e] = "absent"
  /\ row' = [row EXCEPT ![e] = "pending"]
  /\ UNCHANGED <<published, stream, batch, browser, left>>

(* dispatch_pending reads the rows that are due, without a lock. *)
Select(d) ==
  /\ batch[d] = None
  /\ \E e \in Event : row[e] = "pending"
  /\ batch' = [batch EXCEPT ![d] = [rows |-> {e \in Event : row[e] = "pending"}, sent |-> {}, failed |-> {}]]
  /\ UNCHANGED <<row, published, stream, browser, left>>

Open(d) == batch[d].rows \ (batch[d].sent \cup batch[d].failed)

(* xadd of one row of the batch. *)
AppendRow(d, e) ==
  /\ batch[d] # None /\ e \in Open(d)
  /\ stream' = Append(stream, e)
  /\ batch' = [batch EXCEPT ![d].sent = @ \cup {e}]
  /\ UNCHANGED <<row, published, browser, left>>

(* For mutation: the error is logged and the row goes on as the others. *)
AppendFailsQuietly(d, e) ==
  /\ batch[d] # None /\ e \in Open(d) /\ Fault
  /\ batch' = [batch EXCEPT ![d].sent = @ \cup {e}]
  /\ UNCHANGED <<row, published, stream, browser>>

(* The append raises: the row is tried again later, the rest of the batch goes on. *)
AppendFails(d, e) ==
  /\ batch[d] # None /\ e \in Open(d) /\ Fault
  /\ batch' = [batch EXCEPT ![d].failed = @ \cup {e}]
  /\ UNCHANGED <<row, published, stream, browser>>

(* For mutation: a row that failed is given up. *)
OutcomeFinal(b, e) == IF e \in b.sent \cup b.failed THEN "processed" ELSE row[e]

(* The commit writes the columns that changed: a failed row keeps the status it has. *)
Outcome(b, e) ==
  IF e \in b.sent THEN "processed"
  ELSE IF e \in b.failed /\ row[e] # "processed" THEN "delayed"
  ELSE row[e]

Commit(d) ==
  /\ batch[d] # None /\ Open(d) = {}
  /\ row' = [e \in Event |-> Outcome(batch[d], e)]
  /\ batch' = [batch EXCEPT ![d] = None]
  /\ UNCHANGED <<published, stream, browser, left>>

(* The process dies, or the commit fails: what was appended stays, the rows are pending. *)
Crash(d) ==
  /\ batch[d] # None /\ Fault
  /\ batch' = [batch EXCEPT ![d] = None]
  /\ UNCHANGED <<row, published, stream, browser>>

(* next_attempt_at passes. *)
Due(e) ==
  /\ row[e] = "delayed"
  /\ row' = [row EXCEPT ![e] = "pending"]
  /\ UNCHANGED <<published, stream, batch, browser, left>>

(* publish_user_event catches every error. *)
Publish(e) ==
  /\ e \notin published /\ published' = published \cup {e}
  /\ \/ stream' = Append(stream, e) /\ UNCHANGED left
     \/ Fault /\ UNCHANGED stream
  /\ UNCHANGED <<row, batch, browser>>

----------------------------------------------------------------------------
(* The browser. *)

Closed(why) == [state |-> why, at |-> 0]

(* For mutation: the entry after the cursor counts as read. *)
ConnectAfter(t) ==
  /\ conn[t].state = "idle"
  /\ conn' = [conn EXCEPT ![t] = [state |-> "open", at |-> storage.last + 1]]
  /\ UNCHANGED <<backend, storage, listed, left>>

(* For mutation: only entries that are new from now on. *)
ConnectAtEnd(t) ==
  /\ conn[t].state = "idle"
  /\ conn' = [conn EXCEPT ![t] = [state |-> "open", at |-> Len(stream)]]
  /\ UNCHANGED <<backend, storage, listed, left>>

(* The stream is asked for after the event that any tab stored last. *)
Connect(t) ==
  /\ conn[t].state = "idle"
  /\ conn' = [conn EXCEPT ![t] = [state |-> "open", at |-> storage.last]]
  /\ UNCHANGED <<backend, storage, listed, left>>

Streams(t) == conn[t].state = "open"

(* For mutation: an entry that is listed already is not looked for. *)
RecordAgain(notes, p) ==
  SubSeq(<<[at |-> p, read |-> FALSE]>> \o notes, 1,
         IF Len(notes) < MaxStored THEN Len(notes) + 1 ELSE MaxStored)

(* recordStoredNotification: an entry that is listed already is left alone, the oldest is dropped. *)
Record(notes, p) ==
  IF \E i \in DOMAIN notes : notes[i].at = p THEN notes ELSE RecordAgain(notes, p)

(* One frame: the cursor is stored, then the notification. *)
Receive(t) ==
  /\ Streams(t) /\ conn[t].at < Len(stream)
  /\ LET p == conn[t].at + 1
     IN /\ storage' = [last |-> p, notes |-> Record(storage.notes, p)]
        /\ conn' = [conn EXCEPT ![t].at = p]
        /\ listed' = listed \cup {stream[p]}
  /\ UNCHANGED <<backend, left>>

(* The connection is lost; the tab connects again after RECONNECT_DELAY_MS. *)
Break(t) ==
  /\ Streams(t) /\ Fault
  /\ conn' = [conn EXCEPT ![t] = Closed("idle")]
  /\ UNCHANGED <<backend, storage, listed>>

(* 401, 403 or 503: the tab does not try again. *)
Refuse(t) ==
  /\ conn[t].state = "idle" /\ Fault
  /\ conn' = [conn EXCEPT ![t] = Closed("stopped")]
  /\ UNCHANGED <<backend, storage, listed>>

Reload(t) ==
  /\ Acts
  /\ conn' = [conn EXCEPT ![t] = Closed("idle")]
  /\ UNCHANGED <<backend, storage, listed>>

(* Opening the notification center. *)
MarkRead ==
  /\ Acts
  /\ storage' = [storage EXCEPT !.notes = [i \in DOMAIN @ |-> [@[i] EXCEPT !.read = TRUE]]]
  /\ UNCHANGED <<backend, conn, listed>>

Clear ==
  /\ Acts /\ storage.notes # <<>>
  /\ storage' = [storage EXCEPT !.notes = <<>>]
  /\ UNCHANGED <<backend, conn, listed>>

----------------------------------------------------------------------------
Init ==
  /\ row = [e \in Event |-> "absent"] /\ published = {}
  /\ stream = <<>> /\ batch = [d \in Dispatcher |-> None]
  /\ storage = [last |-> 0, notes |-> <<>>]
  /\ conn = [t \in Tab |-> Closed("idle")]
  /\ listed = {}
  /\ left = [faults |-> MaxFaults, user |-> MaxUser]

Dispatch(d) == Select(d) \/ Commit(d) \/ \E e \in Event : AppendRow(d, e)

Next ==
  \/ \E e \in Event : Enqueue(e) \/ Due(e)
  \/ \E e \in Direct : Publish(e)
  \/ \E d \in Dispatcher : Dispatch(d) \/ Crash(d) \/ \E e \in Event : AppendFails(d, e)
  \/ \E t \in Tab : Connect(t) \/ Receive(t) \/ Break(t) \/ Refuse(t) \/ Reload(t)
  \/ MarkRead \/ Clear

Spec == Init /\ [][Next]_vars

(* The dispatch loops poll, a delay passes, a tab connects and reads what it is sent. *)
Fairness ==
  /\ \A d \in Dispatcher : WF_vars(Dispatch(d))
  /\ \A e \in Event : WF_vars(Due(e))
  /\ \A t \in Tab : WF_vars(Connect(t)) /\ WF_vars(Receive(t))

FairSpec == Spec /\ Fairness

----------------------------------------------------------------------------
(* Properties. *)

(* The types of the rows, the stream and the browser's state. *)
TypeOK ==
  /\ row \in [Event -> {"absent", "pending", "delayed", "processed"}]
  /\ published \subseteq Direct
  /\ stream \in Seq(Event \cup Direct)
  /\ batch \in [Dispatcher -> Batch \cup {None}]
  /\ storage \in [last : 0 .. Len(stream), notes : Seq(Note)]
  /\ conn \in [Tab -> [state : {"idle", "open", "stopped"}, at : 0 .. Len(stream)]]
  /\ listed \subseteq Event \cup Direct
  /\ left \in [faults : Nat, user : Nat]

(* A row is processed only when its event is in the user's stream: neither an append that fails,   *)
(* nor a crash between the appends of a batch and its commit, nor two processes that have selected *)
(* the same rows lose an event.                                                                    *)
ProcessedIsPublished ==
  \A e \in Event : row[e] = "processed" => \E p \in DOMAIN stream : stream[p] = e

(* Two tabs that receive the same entry, or one that receives it again after a reload, list it     *)
(* once, and the center keeps its size.                                                            *)
ListedOnce ==
  /\ Len(storage.notes) =< MaxStored
  /\ \A i, j \in DOMAIN storage.notes : storage.notes[i].at = storage.notes[j].at => i = j

(* The tabs share one cursor and each overwrites it: still no entry up to it was skipped.          *)
CursorCovered == \A p \in 1 .. storage.last : p \in DOMAIN stream /\ stream[p] \in listed

(* Every task that ended is announced in the end, unless the server turned every tab away.         *)
EventAnnounced ==
  \A e \in Event : row[e] # "absent" ~> (e \in listed \/ \A t \in Tab : conn[t].state = "stopped")

=============================================================================
