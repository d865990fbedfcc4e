------------------------- MODULE ConversationClient -------------------------
(***************************************************************************)
(* The chat page of the web application in one browser tab: the hook       *)
(* useConversationRun with the event reducer of lib/chat-stream.ts and the *)
(* handlers of the page that submit, regenerate, stop and rejoin a run.    *)
(*                                                                         *)
(* The page shows one conversation at a time and holds at most one open    *)
(* event stream: joinRun, stop and the detach effect abort the one before. *)
(* Everything else is an answer that may arrive when the page has moved    *)
(* on: the creation of a run, the look-up of a stored run, the look-up     *)
(* after a stream closed, the cancellation.  sessionStorage survives a     *)
(* reload, the state of the page does not.                                 *)
(*                                                                         *)
(* The backend (modelled in ChatRun) is reduced to what the page sees of   *)
(* it: the status of a run and its event log.  Pages of conversations that *)
(* do not exist yet (the route without an id) are not modelled.            *)
(***************************************************************************)
EXTENDS Naturals, Sequences, FiniteSets, SequencesExt

CONSTANTS
  Conversation,  \* conversations of the user
  Landing,       \* the conversation the tab opens with
  MaxRuns,       \* runs that can be created
  None,          \* no value
  Script,        \* the events of a run by mode, in the order they are appended
  MaxFaults,     \* failed requests, broken streams, runs lost by the backend
  MaxReloads,    \* reloads of the tab
  MaxMoves,      \* navigations to another conversation, and upsets
  MaxStops,      \* uses of the Stop button
  MaxProbes,     \* look-ups of a stored run that overlap
  MaxToggles,    \* changes of the composer's mode
  MaxUpsets      \* faults, reloads, stops and changes of mode together

Run == 1..MaxRuns
Modes == {"chat", "research"}
TerminalStatus == {"COMPLETED", "FAILED", "CANCELLED"}
Events == {"values", "messages", "progress", "done", "error"}
Done == {"done", "cancelled"}  \* event "done", with COMPLETED or CANCELLED

(* The row of a run; what is stored, active and open of one; a look-up after a stream. *)
RunRow == [conv : Conversation, mode : Modes, status : TerminalStatus \cup {"ACTIVE"}]
Cursor == [run : Run, last : Nat]
ActiveRun == [conv : Conversation, run : Run, mode : Modes]
JoinedStream == [conv : Conversation, run : Run, from : Nat, pos : Nat, composer : Modes]
Call == [conv : Conversation, run : Run, composer : Modes, aborted : BOOLEAN]

(* The events of a run end with "done" or "error", and with these only; a chat that is done *)
(* has streamed the state after its last step, which is the last thing that its graph does. *)
ASSUME ConstantsAssumption ==
  /\ Landing \in Conversation
  /\ None \notin Conversation \cup RunRow \cup Cursor \cup ActiveRun \cup JoinedStream
  /\ Script \in [Modes -> Seq(Events)]
  /\ \A m \in Modes : Script[m] # <<>> /\ \A i \in DOMAIN Script[m] :
       Script[m][i] \in {"done", "error"} <=> i = Len(Script[m])
  /\ \A i \in 2..Len(Script["chat"]) : Script["chat"][i] = "done" => Script["chat"][i - 1] = "values"
  /\ {MaxRuns, MaxFaults, MaxReloads, MaxMoves, MaxStops, MaxProbes, MaxToggles, MaxUpsets} \subseteq Nat
  /\ MaxProbes > 0

VARIABLES
  run,        \* the backend's row of each run, None before it is created
  log,        \* the event log of each run
  view,       \* activeConversationId
  mode,       \* the composer's mode, from the URL
  values,     \* valuesByConversation: what is shown of each conversation
  progress,   \* eventsByConversation: the progress events shown
  stored,     \* sessionStorage, chat-run:<conversation>
  active,     \* activeRunRef
  streaming,  \* runStatus: the conversation that is streaming, or None
  conn,       \* the open stream of the current joinRun, or None
  closing,    \* joinRun calls whose stream has closed, awaiting getRun
  probes,     \* rejoin effects awaiting getRun
  creating,   \* submissions awaiting createRun or regenerateMessage
  cancelling, \* stops awaiting cancelRun
  count       \* faults, reloads, moves and toggles that may still happen

backend == <<run, log>>
shown == <<values, progress>>
hook == <<stored, active, streaming, conn>>
pending == <<closing, probes, creating, cancelling>>
vars == <<backend, view, mode, shown, hook, pending, count>>

----------------------------------------------------------------------------
(* What is shown of a conversation: whether the messages before the answer *)
(* are there, and the pieces of answers, each named by run and position.   *)

Empty == [history |-> FALSE, text |-> <<>>]
ShownOf(c) == IF values[c] = None THEN Empty ELSE values[c]

(* The pieces of a run's answer that its first k events carry. *)
Pieces(r, k) ==
  [i \in 1..Cardinality({j \in 1..k : log[r][j] = "messages"}) |-> <<r, i>>]

(* applyStreamMessageEvent: the text of a message grows by the event's. *)
ApplyMessage(c, r, k) ==
  [values EXCEPT ![c] = [ShownOf(c) EXCEPT !.text = Append(@, Last(Pieces(r, k)))]]

(* For mutation: the event's messages are added to those shown. *)
MergeValuesAppended(c, r, k) ==
  [values EXCEPT ![c] = [history |-> TRUE, text |-> ShownOf(c).text \o Pieces(r, k)]]

(* mergeChatStreamState: the messages are replaced by the event's. *)
MergeValues(c, r, k) ==
  [values EXCEPT ![c] = [history |-> TRUE, text |-> Pieces(r, k)]]

(* The messages of the page, those streamed or else those loaded, with the user's own added. *)
Optimistic(c) == IF values[c] = None THEN [history |-> TRUE, text |-> <<>>] ELSE values[c]

(* The messages up to the answer that is generated again. *)
UpToAnswer(c) == [Optimistic(c) EXCEPT !.text = <<>>]

----------------------------------------------------------------------------
(* Parts of the hook. *)

IsLoading == streaming = view

IsActiveRun(a, c, r) == a # None /\ a.conv = c /\ a.run = r

(* For mutation: whatever conversation is streaming, unless it is this one. *)
MarkOthersReady(s, c) == IF s = c THEN s ELSE None

MarkReady(s, c) == IF s = c THEN None ELSE s

(* For mutation: whatever run is stored. *)
ClearAnyStored(c, r) == [stored EXCEPT ![c] = None]

ClearStored(c, r) ==
  IF stored[c] # None /\ stored[c].run = r THEN [stored EXCEPT ![c] = None] ELSE stored

ClearActive(c, r) == IF IsActiveRun(active, c, r) THEN None ELSE active
ClearActiveRun(c, r) == stored' = ClearStored(c, r) /\ active' = ClearActive(c, r)

(* What a run that ended leaves on the page: of research only the report. *)
ClearShown(c, m) ==
  /\ progress' = [progress EXCEPT ![c] = <<>>]
  /\ values' = IF m = "research" THEN [values EXCEPT ![c] = None] ELSE values

(* abortControllerRef.current?.abort(): the open stream ends, a look-up goes on. *)
Cut(calls) == {[x EXCEPT !.aborted = TRUE] : x \in calls}

(* A look-up among the others, all told apart. *)
Probe(c, r, after, m, others) ==
  [conv |-> c, run |-> r, after |-> after, composer |-> m,
   nr |-> CHOOSE n \in 1..(MaxProbes + 1) : \A p \in others : p.nr # n]

(* For mutation: from the event before the last one received; only a run that is active already. *)
RejoinBefore(c, m, a, s, others) ==
  IF s[c] = None \/ IsActiveRun(a, c, s[c].run)
  THEN {}
  ELSE {Probe(c, s[c].run, s[c].last - 1, m, others)}
RejoinActive(c, m, a, s, others) ==
  IF s[c] = None \/ ~IsActiveRun(a, c, s[c].run)
  THEN {}
  ELSE {Probe(c, s[c].run, s[c].last, m, others)}

(* The rejoin effect: the stored run of the conversation is looked up. *)
Rejoin(c, m, a, s, others) ==
  IF s[c] = None \/ IsActiveRun(a, c, s[c].run)
  THEN {}
  ELSE {Probe(c, s[c].run, s[c].last, m, others)}

(* The page shows conversation c with composer mode m; a, k, calls and s are active, conn, closing *)
(* and stored as the handler leaves them.  The detach effect runs when the conversation changes,   *)
(* the rejoin effect when joinRun does, which depends on the conversation and on the mode.         *)
Render(c, m, a, k, calls, s) ==
  LET detach == c # view /\ a # None /\ a.conv # c
      kept == IF detach THEN None ELSE a
  IN /\ view' = c /\ mode' = m
     /\ active' = kept
     /\ conn' = IF detach THEN None ELSE k
     /\ closing' = IF detach THEN Cut(calls) ELSE calls
     /\ stored' = s
     /\ probes' = IF c = view /\ m = mode THEN probes ELSE probes \cup Rejoin(c, m, kept, s, probes)
     /\ Cardinality(probes') <= MaxProbes

(* joinRun.  The call it aborts marks the conversation ready when it was for the same run. *)
JoinRun(c, r, m, after, composer) ==
  /\ conn' = [conv |-> c, run |-> r, from |-> after, pos |-> after, composer |-> composer]
  /\ active' = [conv |-> c, run |-> r, mode |-> m]
  /\ streaming' =
       IF conn # None /\ conn.conv = c /\ conn.run = r THEN None ELSE c
  /\ closing' = Cut(closing)

Upset(k) ==
  /\ count[k] > 0 /\ count.upsets > 0 /\ count.moves > 0
  /\ count' = [count EXCEPT ![k] = @ - 1, !.upsets = @ - 1, !.moves = @ - 1]
Fault == Upset("faults")

----------------------------------------------------------------------------
(* The backend as the page sees it. *)

Created(r) == run[r] # None
IsLive(r) == Created(r) /\ run[r].status = "ACTIVE"
Ended(r) == Created(r) /\ run[r].status \in TerminalStatus
Closed(r) == log[r] # <<>> /\ Last(log[r]) \in Done \cup {"error"}

Produce(r) ==
  /\ IsLive(r) /\ ~Closed(r)
  /\ log' = [log EXCEPT ![r] = Append(@, Script[run[r].mode][Len(@) + 1])]
  /\ UNCHANGED <<run, view, mode, shown, hook, pending, count>>

(* The status follows the last event. *)
Finish(r) ==
  /\ IsLive(r) /\ Closed(r)
  /\ run' = [run EXCEPT ![r].status = IF Last(log[r]) = "done" THEN "COMPLETED" ELSE "FAILED"]
  /\ UNCHANGED <<log, view, mode, shown, hook, pending, count>>

(* The run fails with an error event, or its process is gone and the sweep ends it without one. *)
FailRun(r) ==
  /\ IsLive(r) /\ ~Closed(r) /\ Fault
  /\ \/ log' = [log EXCEPT ![r] = Append(@, "error")] /\ UNCHANGED run
     \/ run' = [run EXCEPT ![r].status = "FAILED"] /\ UNCHANGED log
  /\ UNCHANGED <<view, mode, shown, hook, pending>>

----------------------------------------------------------------------------
(* The user. *)

(* Navigation to another conversation. *)
Open(c) ==
  /\ c # view
  /\ count.moves > 0 /\ count' = [count EXCEPT !.moves = @ - 1]
  /\ Render(c, mode, active, conn, closing, stored)
  /\ UNCHANGED <<backend, shown, streaming, creating, cancelling>>

(* The menu of the composer, disabled while loading. *)
ToggleMode ==
  /\ ~IsLoading
  /\ Upset("toggles")
  /\ \E m \in Modes \ {mode} : Render(view, m, active, conn, closing, stored)
  /\ UNCHANGED <<backend, shown, streaming, creating, cancelling>>

(* Every submission is for a run of its own, the next one. *)
Used(r) == Created(r) \/ \E x \in creating : x.run = r
MaySubmit(r) == ~Used(r) /\ \A q \in 1..(r - 1) : Used(q)

(* handleSubmit and sendMessage, up to the await of createRun. *)
Submit(r) ==
  /\ ~IsLoading /\ MaySubmit(r)
  /\ values' = [values EXCEPT ![view] = Optimistic(view)]
  /\ progress' = IF mode = "research" THEN [progress EXCEPT ![view] = <<>>] ELSE progress
  /\ creating' = creating \cup {[kind |-> "submit", conv |-> view, run |-> r, mode |-> mode]}
  /\ UNCHANGED <<backend, view, mode, hook, closing, probes, cancelling, count>>

(* handleRegenerateMessage, up to the await of regenerateMessage. *)
Regenerate(r) ==
  /\ ~IsLoading /\ MaySubmit(r) /\ mode = "chat"
  /\ creating' = creating \cup {[kind |-> "regenerate", conv |-> view, run |-> r, mode |-> "chat"]}
  /\ UNCHANGED <<backend, view, mode, shown, hook, closing, probes, cancelling, count>>

(* The Stop button, shown while loading. *)
Stop ==
  /\ IsLoading
  /\ Upset("stops")
  /\ conn' = None /\ active' = None /\ closing' = Cut(closing)
  /\ IF active = None
     THEN UNCHANGED <<streaming, shown, cancelling>>
     ELSE /\ streaming' = MarkReady(streaming, active.conv)
          /\ IF active.mode = "research" THEN ClearShown(active.conv, "research") ELSE UNCHANGED shown
          /\ cancelling' = cancelling \cup {[conv |-> active.conv, run |-> active.run]}
  /\ UNCHANGED <<backend, view, mode, stored, probes, creating>>

(* The tab is reloaded: only sessionStorage is left. *)
Reload ==
  /\ Upset("reloads")
  /\ values' = [c \in Conversation |-> None]
  /\ progress' = [c \in Conversation |-> <<>>]
  /\ active' = None /\ streaming' = None /\ conn' = None
  /\ closing' = {} /\ creating' = {} /\ cancelling' = {}
  /\ probes' = Rejoin(view, mode, None, stored, {})
  /\ UNCHANGED <<backend, view, mode, stored>>

----------------------------------------------------------------------------
(* Answers. *)

(* The run is created and joined, whatever the page shows by now. *)
CreateAnswered(x) ==
  /\ x \in creating /\ creating' = creating \ {x}
  /\ \A r \in Run : IsLive(r) => run[r].conv # x.conv
  /\ run' = [run EXCEPT ![x.run] = [conv |-> x.conv, mode |-> x.mode, status |-> "ACTIVE"]]
  /\ values' = IF x.kind = "regenerate" THEN [values EXCEPT ![x.conv] = UpToAnswer(x.conv)] ELSE values
  /\ stored' = [stored EXCEPT ![x.conv] = [run |-> x.run, last |-> 0]]
  /\ JoinRun(x.conv, x.run, x.mode, 0, x.mode)
  /\ UNCHANGED <<log, view, mode, progress, probes, cancelling, count>>

(* The conversation has an active run, or the request fails: submit marks it ready, regenerate does not. *)
CreateRefused(x) ==
  /\ x \in creating /\ creating' = creating \ {x}
  /\ \/ (\E r \in Run : IsLive(r) /\ run[r].conv = x.conv) /\ UNCHANGED count
     \/ Fault
  /\ streaming' = IF x.kind = "submit" THEN MarkReady(streaming, x.conv) ELSE streaming
  /\ UNCHANGED <<backend, view, mode, shown, stored, active, conn, closing, probes, cancelling>>

(* The rejoin effect's look-up answers; the effect is not cancelled when the page moves on. *)
ProbeAnswered(p) ==
  /\ p \in probes /\ probes' = probes \ {p}
  /\ JoinRun(p.conv, p.run, run[p.run].mode, p.after, p.composer)
  /\ UNCHANGED <<backend, view, mode, shown, stored, creating, cancelling, count>>

(* The look-up fails, for whatever reason: the stored run is forgotten. *)
ProbeFailed(p) ==
  /\ p \in probes /\ probes' = probes \ {p}
  /\ Fault
  /\ ClearActiveRun(p.conv, p.run)
  /\ UNCHANGED <<backend, view, mode, shown, streaming, conn, closing, creating, cancelling>>

CancelAnswered(x) ==
  /\ x \in cancelling /\ cancelling' = cancelling \ {x}
  /\ ClearActiveRun(x.conv, x.run)
  /\ IF IsLive(x.run)
     THEN /\ run' = [run EXCEPT ![x.run].status = "CANCELLED"]
          /\ log' = [log EXCEPT ![x.run] = Append(@, "cancelled")]
     ELSE UNCHANGED backend
  /\ UNCHANGED <<view, mode, shown, streaming, conn, closing, probes, creating, count>>

CancelFailed(x) ==
  /\ x \in cancelling /\ cancelling' = cancelling \ {x}
  /\ Fault
  /\ UNCHANGED <<backend, view, mode, shown, hook, closing, probes, creating>>

----------------------------------------------------------------------------
(* The stream. *)

NextEvent == log[conn.run][conn.pos + 1]
HasEvent == conn # None /\ conn.pos < Len(log[conn.run])

(* Every event moves the cursor in sessionStorage. *)
StoreCursor == [stored EXCEPT ![conn.conv] = [run |-> conn.run, last |-> conn.pos + 1]]
Advanced == [conn EXCEPT !.pos = @ + 1]

ReceiveMessages ==
  /\ HasEvent /\ NextEvent = "messages"
  /\ values' = ApplyMessage(conn.conv, conn.run, conn.pos + 1)
  /\ stored' = StoreCursor /\ conn' = Advanced
  /\ UNCHANGED <<backend, view, mode, progress, active, streaming, pending, count>>

ReceiveValues ==
  /\ HasEvent /\ NextEvent = "values"
  /\ values' = MergeValues(conn.conv, conn.run, conn.pos + 1)
  /\ stored' = StoreCursor /\ conn' = Advanced
  /\ UNCHANGED <<backend, view, mode, progress, active, streaming, pending, count>>

ReceiveProgress ==
  /\ HasEvent /\ NextEvent = "progress"
  /\ progress' = [progress EXCEPT ![conn.conv] = Append(@, <<conn.run, conn.pos + 1>>)]
  /\ stored' = StoreCursor /\ conn' = Advanced
  /\ UNCHANGED <<backend, view, mode, values, active, streaming, pending, count>>

(* handleConversationRunSettled, in the closure that joined: research that completed puts the    *)
(* composer back to chat, on the page of its conversation.                                      *)
Settle(x, status, a, k, calls, s) ==
  IF x.composer = "research" /\ run[x.run].mode = "research" /\ status = "COMPLETED"
  THEN Render(x.conv, "chat", a, k, calls, s)
  ELSE Render(view, mode, a, k, calls, s)

EndStatus == [done |-> "COMPLETED", cancelled |-> "CANCELLED", error |-> "FAILED"]

(* The run ended on the stream: done or error. *)
ReceiveEnd ==
  /\ HasEvent /\ NextEvent \in Done \cup {"error"}
  /\ streaming' = MarkReady(streaming, conn.conv)
  /\ ClearShown(conn.conv, run[conn.run].mode)
  /\ Settle(conn, EndStatus[NextEvent], ClearActive(conn.conv, conn.run), Advanced, closing,
            [stored EXCEPT ![conn.conv] = None])
  /\ UNCHANGED <<backend, creating, cancelling, count>>

(* The backend closes the stream after a done event, or when the run has ended and all is sent. *)
StreamCloses ==
  /\ conn # None
  /\ \/ conn.pos > 0 /\ log[conn.run][conn.pos] \in Done
     \/ conn.pos = Len(log[conn.run]) /\ Ended(conn.run)
  /\ closing' = closing \cup
       {[conv |-> conn.conv, run |-> conn.run, composer |-> conn.composer, aborted |-> FALSE]}
  /\ conn' = None
  /\ UNCHANGED <<backend, view, mode, shown, stored, active, streaming, probes, creating, cancelling, count>>

(* The connection breaks: joinRun marks the conversation ready and reports the error. *)
StreamBreaks ==
  /\ conn # None /\ Fault
  /\ conn' = None
  /\ streaming' = MarkReady(streaming, conn.conv)
  /\ UNCHANGED <<backend, view, mode, shown, stored, active, pending>>

(* The look-up after the stream: the page settles a run that has ended. *)
CloseAnswered(x) ==
  /\ x \in closing
  /\ IF Ended(x.run)
     THEN /\ streaming' = MarkReady(streaming, x.conv)
          /\ ClearShown(x.conv, run[x.run].mode)
          /\ Settle(x, run[x.run].status, ClearActive(x.conv, x.run), conn, closing \ {x},
                    ClearStored(x.conv, x.run))
     ELSE /\ closing' = closing \ {x}
          /\ UNCHANGED <<hook, shown, mode, view, probes>>
  /\ UNCHANGED <<backend, creating, cancelling, count>>

CloseFailed(x) ==
  /\ x \in closing /\ closing' = closing \ {x}
  /\ Fault
  /\ streaming' =
       IF ~x.aborted \/ IsActiveRun(active, x.conv, x.run) THEN MarkReady(streaming, x.conv) ELSE streaming
  /\ UNCHANGED <<backend, view, mode, shown, stored, active, conn, probes, creating, cancelling>>

----------------------------------------------------------------------------
Init ==
  /\ run = [r \in Run |-> None] /\ log = [r \in Run |-> <<>>]
  /\ view = Landing /\ mode = "chat"
  /\ values = [c \in Conversation |-> None] /\ progress = [c \in Conversation |-> <<>>]
  /\ stored = [c \in Conversation |-> None]
  /\ active = None /\ streaming = None /\ conn = None
  /\ closing = {} /\ probes = {} /\ creating = {} /\ cancelling = {}
  /\ count = [faults |-> MaxFaults, reloads |-> MaxReloads, moves |-> MaxMoves,
              stops |-> MaxStops, toggles |-> MaxToggles, upsets |-> MaxUpsets]

Backend == \E r \in Run : Produce(r) \/ Finish(r) \/ FailRun(r)

User ==
  \/ \E c \in Conversation : Open(c)
  \/ ToggleMode \/ Stop \/ Reload
  \/ \E r \in Run : Submit(r) \/ Regenerate(r)

Answer ==
  \/ \E x \in creating : CreateAnswered(x) \/ CreateRefused(x)
  \/ \E p \in probes : ProbeAnswered(p) \/ ProbeFailed(p)
  \/ \E x \in cancelling : CancelAnswered(x) \/ CancelFailed(x)
  \/ \E x \in closing : CloseAnswered(x) \/ CloseFailed(x)

Stream ==
  \/ ReceiveMessages \/ ReceiveValues \/ ReceiveProgress \/ ReceiveEnd
  \/ StreamCloses \/ StreamBreaks

Next == Backend \/ User \/ Answer \/ Stream
Spec == Init /\ [][Next]_vars

(* Runs go on, requests are answered and open streams deliver.  The user owes nothing. *)
Fairness ==
  /\ \A r \in Run : WF_vars(Produce(r) \/ Finish(r))
  /\ WF_vars(ReceiveMessages \/ ReceiveValues \/ ReceiveProgress \/ ReceiveEnd \/ StreamCloses)
  /\ WF_vars(\E p \in probes : ProbeAnswered(p))
  /\ WF_vars(\E x \in closing : CloseAnswered(x))
  /\ WF_vars(\E x \in cancelling : CancelAnswered(x))

FairSpec == Spec /\ Fairness

----------------------------------------------------------------------------
(* Properties. *)

(* The types of the page's and the backend's state. *)
TypeOK ==
  /\ \A r \in Run : run[r] = None \/ run[r] \in RunRow
  /\ log \in [Run -> Seq(Events \cup Done)]
  /\ view \in Conversation /\ mode \in Modes
  /\ \A c \in Conversation : stored[c] = None \/ stored[c] \in Cursor
  /\ active = None \/ active \in ActiveRun
  /\ streaming \in Conversation \cup {None}
  /\ conn = None \/ conn \in JoinedStream
  /\ closing \subseteq Call
  /\ probes \subseteq [conv : Conversation, run : Run, after : Nat, composer : Modes, nr : 1..(MaxProbes + 1)]
  /\ cancelling \subseteq [conv : Conversation, run : Run]

(* A conversation shown as loading has something to load it: when a run is active, the page      *)
(* holds a stream of this conversation or awaits the look-up after one (runStatus, activeRunRef  *)
(* and abortControllerRef of useConversationRun are set in different places).                    *)
SpinnerBacked ==
  IsLoading /\ active # None =>
    \/ conn # None /\ conn.conv = view
    \/ \E x \in closing : x.conv = view

(* A reload continues where the stream stopped: while a stream that delivered something is open  *)
(* and its run is live, sessionStorage holds this run and the last event shown.  The one thing   *)
(* that takes it away is an older look-up of this very run that fails when a newer has joined;   *)
(* cancellations and look-ups of other runs do not.                                              *)
Resumable ==
  conn # None /\ conn.from < conn.pos /\ IsLive(conn.run) /\ ~Closed(conn.run) =>
    stored[conn.conv] = [run |-> conn.run, last |-> conn.pos]

CursorStored ==
  [][Resumable /\ ~Resumable' =>
       \E p \in probes : probes' = probes \ {p} /\ p.conv = conn.conv /\ p.run = conn.run]_vars

(* A chat run that ends on a stream that carried its closing state leaves on the page exactly    *)
(* the pieces of its answer, in order and once, or none: nothing streamed is shown when a late    *)
(* look-up of earlier research has cleared it, and no piece when the user then submitted again.  *)
(* Never is it a part, a repetition or another run's answer.                                     *)
CompletedAnswerShown ==
  [][ReceiveEnd /\ NextEvent = "done" /\ run[conn.run].mode = "chat" /\ conn.from < conn.pos =>
       \/ values[conn.conv] = None
       \/ values[conn.conv].text \in {<<>>, Pieces(conn.run, conn.pos)}]_vars

(* The page does not load for ever, however the user moves between conversations while runs are  *)
(* created and rejoined, as long as no request fails and nobody stops, reloads or changes mode.  *)
(* One page does: a look-up that is answered when its run has ended and has been shown joins it   *)
(* again, and a user who leaves before the stream closes comes back to a conversation that is     *)
(* loading, with no stream and nothing in sessionStorage to rejoin.                              *)
Forgotten == active = None /\ stored[view] = None
LoadingEnds == []<>(~IsLoading \/ Forgotten \/ count.upsets < MaxUpsets)

=============================================================================
