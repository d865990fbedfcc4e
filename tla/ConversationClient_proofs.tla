----------------------- MODULE ConversationClient_proofs -----------------------
(***************************************************************************)
(* Theorems about ConversationClient, for any conversations, runs, scripts *)
(* and bounds.                                                             *)
(*                                                                         *)
(* Both properties are about answers that arrive when the page has moved   *)
(* on, so the invariant says what each call that is not answered yet, and  *)
(* each cursor, can still be about.                                        *)
(***************************************************************************)
EXTENDS ConversationClient, TLAPS, FiniteSetTheorems

Ending == Done \cup {"error"}

(* The backend's part of the state. *)
BackendTyped ==
  /\ run \in [Run -> RunRow \cup {None}]
  /\ log \in [Run -> Seq(Events \cup Done)]

(* The page's; the number of a look-up is not used. *)
PageTyped ==
  /\ view \in Conversation /\ mode \in Modes
  /\ stored \in [Conversation -> Cursor \cup {None}]
  /\ active \in ActiveRun \cup {None}
  /\ streaming \in Conversation \cup {None}
  /\ conn \in JoinedStream \cup {None}
  /\ closing \subseteq Call
  /\ \A p \in probes :
       p.conv \in Conversation /\ p.run \in Run /\ p.after \in Nat /\ p.composer \in Modes
  /\ creating \subseteq [kind : {"submit", "regenerate"}, conv : Conversation, run : Run, mode : Modes]
  /\ cancelling \subseteq [conv : Conversation, run : Run]

(* A run that has no row has no events; one that goes on has those of its script so far; *)
(* and after an event that ends it come only such.                                        *)
Follows(r) ==
  run[r] # None /\ ~Closed(r) =>
    \A i \in 1..Len(log[r]) :
      i \in 1..Len(Script[run[r].mode]) /\ log[r][i] = Script[run[r].mode][i]

Logs ==
  \A r \in Run :
    /\ run[r] = None => log[r] = <<>>
    /\ Follows(r)
    /\ \A i \in 1..Len(log[r]) : log[r][i] \in Ending => Closed(r)

(* A submission waits for a run nobody else has. *)
Creations ==
  /\ \A x \in creating : run[x.run] = None
  /\ \A x, y \in creating : x.run = y.run => x = y

(* A cursor is at an event of its run, and no "done" was stored. *)
Heard(r, k) == k = 0 \/ (k \in 1..Len(log[r]) /\ log[r][k] \notin Done)

Cursors ==
  /\ \A c \in Conversation :
       stored[c] # None => Created(stored[c].run) /\ Heard(stored[c].run, stored[c].last)
  /\ \A p \in probes : Created(p.run) /\ Heard(p.run, p.after)
  /\ conn # None => Created(conn.run) /\ conn.pos <= Len(log[conn.run])

(* What ends the loading of a conversation whose run is active: a stream that has not heard  *)
(* "done", or the look-up, not aborted, of a run that has ended.                              *)
Backed ==
  streaming # None /\ active # None =>
    \/ conn # None /\ conn.conv = streaming /\ Heard(conn.run, conn.pos)
    \/ \E x \in closing : x.conv = streaming /\ ~x.aborted /\ Ended(x.run)

IInv == BackendTyped /\ PageTyped /\ Logs /\ Creations /\ Cursors /\ Backed

(***************************************************************************)
(* The backend.  A run keeps its row and its events, is created, has an    *)
(* event more, or ends.                                                    *)
(***************************************************************************)
Keeps(r) == run'[r] = run[r] /\ log'[r] = log[r]

Starts(r) ==
  /\ run[r] = None /\ run'[r] \in RunRow /\ log'[r] = log[r]
  /\ \E x \in creating : x.run = r /\ CreateAnswered(x)

Emits(r) ==
  /\ IsLive(r) /\ ~Closed(r) /\ run'[r] = run[r]
  /\ \/ log'[r] = Append(log[r], "error")
     \/ /\ Len(log[r]) + 1 \in 1..Len(Script[run[r].mode])
        /\ log'[r] = Append(log[r], Script[run[r].mode][Len(log[r]) + 1])

Ends(r) ==
  /\ IsLive(r) /\ run'[r] \in RunRow /\ run'[r].status \in TerminalStatus
  /\ run'[r].mode = run[r].mode
  /\ log'[r] = log[r] \/ log'[r] = Append(log[r], "cancelled")

LEMMA RowIsNotNone == None \notin RunRow
  BY ConstantsAssumption

(* A run that goes on has an event of its script to come. *)
LEMMA NextOfScript ==
  ASSUME BackendTyped, Logs, NEW r \in Run, IsLive(r), ~Closed(r)
  PROVE  /\ Len(log[r]) + 1 \in 1..Len(Script[run[r].mode])
         /\ Script[run[r].mode][Len(log[r]) + 1] \in Events
<1> DEFINE script == Script[run[r].mode]
           n == Len(log[r])
<1>1. run[r] # None /\ run[r] \in RunRow BY DEF BackendTyped, IsLive, Created
<1>2. run[r].mode \in Modes BY <1>1 DEF RunRow
<1>3. /\ script \in Seq(Events) /\ script # <<>>
      /\ \A i \in DOMAIN script : script[i] \in {"done", "error"} <=> i = Len(script)
  BY <1>2, ConstantsAssumption
<1>4. log[r] \in Seq(Events \cup Done) BY DEF BackendTyped
<1>5. \A i \in 1..n : i \in 1..Len(script) /\ log[r][i] = script[i] BY <1>1 DEF Logs, Follows
<1>6. ASSUME n >= Len(script) PROVE FALSE
  <2>1. Len(script) \in Nat \ {0} /\ n \in Nat BY <1>3, <1>4
  <2>2. n \in 1..Len(script) BY <1>5, <1>6, <2>1
  <2>3. n = Len(script) BY <1>6, <2>1, <2>2
  <2>4. log[r][n] = script[n] BY <1>5, <1>6, <2>1
  <2>5. script[n] \in {"done", "error"} BY <1>3, <2>1, <2>2, <2>3
  <2>6. Last(log[r]) = log[r][n] BY DEF Last
  <2>7. log[r] # <<>> BY <1>4, <2>1, <2>3
  <2> QED BY <2>4, <2>5, <2>6, <2>7 DEF Closed, Done
<1>7. n + 1 \in 1..Len(script) BY <1>3, <1>4, <1>6
<1> QED BY <1>3, <1>7

LEMMA Answered ==
  ASSUME BackendTyped, PageTyped, NEW x \in creating, CreateAnswered(x), run[x.run] = None
  PROVE  /\ run' \in [Run -> RunRow \cup {None}] /\ log' = log
         /\ \A r \in Run : Keeps(r) \/ Starts(r)
<1> DEFINE row == [conv |-> x.conv, mode |-> x.mode, status |-> "ACTIVE"]
<1>1. x.conv \in Conversation /\ x.run \in Run /\ x.mode \in Modes BY DEF PageTyped
<1>2. row \in RunRow BY <1>1 DEF RunRow
<1>3. run' = [run EXCEPT ![x.run] = row] /\ log' = log BY DEF CreateAnswered
<1>4. run' \in [Run -> RunRow \cup {None}] BY <1>2, <1>3 DEF BackendTyped
<1>5. run'[x.run] = row /\ \A r \in Run \ {x.run} : run'[r] = run[r]
  BY <1>1, <1>3 DEF BackendTyped
<1>6. Starts(x.run) BY <1>2, <1>3, <1>5 DEF Starts
<1>7. \A r \in Run \ {x.run} : Keeps(r) BY <1>3, <1>5 DEF Keeps
<1> QED BY <1>3, <1>4, <1>6, <1>7

LEMMA Cancelled ==
  ASSUME BackendTyped, PageTyped, NEW x \in cancelling, CancelAnswered(x)
  PROVE  /\ BackendTyped'
         /\ \A r \in Run : Keeps(r) \/ Ends(r)
<1>1. x.run \in Run BY DEF PageTyped
<1>2. CASE ~IsLive(x.run)
  BY <1>2 DEF CancelAnswered, backend, Keeps, BackendTyped
<1>3. CASE IsLive(x.run)
  <2>1. /\ run' = [run EXCEPT ![x.run].status = "CANCELLED"]
        /\ log' = [log EXCEPT ![x.run] = Append(@, "cancelled")]
    BY <1>3 DEF CancelAnswered
  <2>2. run[x.run] \in RunRow BY <1>1, <1>3 DEF IsLive, Created, BackendTyped
  <2>3. /\ run'[x.run] \in RunRow /\ run'[x.run].status = "CANCELLED"
        /\ run'[x.run].mode = run[x.run].mode
        /\ \A r \in Run \ {x.run} : run'[r] = run[r]
        /\ run' \in [Run -> RunRow \cup {None}]
    BY <1>1, <2>1, <2>2 DEF BackendTyped, RunRow, TerminalStatus
  <2>4. Append(log[x.run], "cancelled") \in Seq(Events \cup Done)
    BY <1>1 DEF BackendTyped, Done
  <2>5. /\ log'[x.run] = Append(log[x.run], "cancelled")
        /\ \A r \in Run \ {x.run} : log'[r] = log[r]
        /\ log' \in [Run -> Seq(Events \cup Done)]
    BY <1>1, <2>1, <2>4 DEF BackendTyped
  <2>6. Ends(x.run) BY <1>3, <2>3, <2>5 DEF Ends, TerminalStatus
  <2> QED BY <2>3, <2>5, <2>6 DEF BackendTyped, Keeps
<1> QED BY <1>2, <1>3

LEMMA Produced ==
  ASSUME BackendTyped, Logs, NEW q \in Run, Produce(q) \/ Finish(q) \/ FailRun(q)
  PROVE  /\ BackendTyped'
         /\ \A r \in Run : Keeps(r) \/ Emits(r) \/ Ends(r)
<1>1. ASSUME NEW e \in Events, log' = [log EXCEPT ![q] = Append(@, e)], run' = run
      PROVE  /\ BackendTyped'
             /\ log'[q] = Append(log[q], e) /\ \A r \in Run \ {q} : Keeps(r)
  <2>1. Append(log[q], e) \in Seq(Events \cup Done) BY DEF BackendTyped
  <2> QED BY <1>1, <2>1 DEF BackendTyped, Keeps
<1>2. ASSUME NEW s \in TerminalStatus, IsLive(q), run' = [run EXCEPT ![q].status = s], log' = log
      PROVE  BackendTyped' /\ Ends(q) /\ \A r \in Run \ {q} : Keeps(r)
  <2>1. run[q] \in RunRow BY <1>2 DEF IsLive, Created, BackendTyped
  <2>2. /\ run'[q] \in RunRow /\ run'[q].status = s /\ run'[q].mode = run[q].mode
        /\ \A r \in Run \ {q} : run'[r] = run[r]
        /\ run' \in [Run -> RunRow \cup {None}]
    BY <1>2, <2>1 DEF BackendTyped, RunRow
  <2> QED BY <1>2, <2>2 DEF BackendTyped, Ends, Keeps
<1>3. CASE Produce(q)
  <2>1. /\ Len(log[q]) + 1 \in 1..Len(Script[run[q].mode])
        /\ Script[run[q].mode][Len(log[q]) + 1] \in Events
    BY <1>3, NextOfScript DEF Produce
  <2>2. log' = [log EXCEPT ![q] = Append(@, Script[run[q].mode][Len(log[q]) + 1])] /\ run' = run
    BY <1>3 DEF Produce, BackendTyped
  <2>3. BackendTyped' /\ log'[q] = Append(log[q], Script[run[q].mode][Len(log[q]) + 1])
        /\ \A r \in Run \ {q} : Keeps(r)
    BY <1>1, <2>1, <2>2
  <2> QED BY <1>3, <2>1, <2>2, <2>3 DEF Emits, Produce
<1>4. CASE Finish(q)
  <2>1. PICK s \in TerminalStatus : run' = [run EXCEPT ![q].status = s]
    BY <1>4 DEF Finish, TerminalStatus
  <2> QED BY <1>2, <1>4, <2>1 DEF Finish
<1>5. CASE FailRun(q) /\ UNCHANGED run
  <2>1. log' = [log EXCEPT ![q] = Append(@, "error")] \/ log' = log BY <1>5 DEF FailRun
  <2>2. CASE log' = [log EXCEPT ![q] = Append(@, "error")]
    <3>1. BackendTyped' /\ log'[q] = Append(log[q], "error") /\ \A r \in Run \ {q} : Keeps(r)
      BY <1>1, <1>5, <2>2 DEF Events
    <3> QED BY <1>5, <3>1 DEF Emits, FailRun
  <2> QED BY <1>5, <2>1, <2>2 DEF BackendTyped, Keeps
<1>6. CASE FailRun(q) /\ ~UNCHANGED run
  BY <1>2, <1>6 DEF FailRun, TerminalStatus
<1> QED BY <1>3, <1>4, <1>5, <1>6

(* The other steps. *)
LEMMA StillSteps ==
  ASSUME \/ \E c \in Conversation : Open(c)
         \/ ToggleMode \/ Stop \/ Reload
         \/ \E r \in Run : Submit(r) \/ Regenerate(r)
         \/ \E x \in creating : CreateRefused(x)
         \/ \E p \in probes : ProbeAnswered(p) \/ ProbeFailed(p)
         \/ \E x \in cancelling : CancelFailed(x)
         \/ \E x \in closing : CloseAnswered(x) \/ CloseFailed(x)
         \/ Stream \/ UNCHANGED vars
  PROVE  UNCHANGED <<run, log>>
  BY DEF Open, ToggleMode, Stop, Reload, Submit, Regenerate, CreateRefused, ProbeAnswered,
         ProbeFailed, CancelFailed, CloseAnswered, CloseFailed, Stream, ReceiveMessages,
         ReceiveValues, ReceiveProgress, ReceiveEnd, StreamCloses, StreamBreaks, vars, backend

LEMMA BackendStep ==
  ASSUME IInv, [Next]_vars
  PROVE  BackendTyped' /\ \A r \in Run : Keeps(r) \/ Starts(r) \/ Emits(r) \/ Ends(r)
<1>1. CASE \E x \in creating : CreateAnswered(x)
  BY <1>1, Answered DEF IInv, Creations, BackendTyped
<1>2. CASE \E x \in cancelling : CancelAnswered(x)
  BY <1>2, Cancelled DEF IInv
<1>3. CASE Backend
  BY <1>3, Produced DEF IInv, Backend
<1>4. CASE UNCHANGED <<run, log>>
  BY <1>4 DEF IInv, BackendTyped, Keeps
<1> QED BY <1>1, <1>2, <1>3, <1>4, StillSteps DEF Next, User, Answer

(* So runs stay created and stay ended, and events stay where they are. *)
Grown(r) ==
  /\ Created(r) => Created(r)'
  /\ Ended(r) => Ended(r)'
  /\ \A i \in 1..Len(log[r]) : i \in 1..Len(log'[r]) /\ log'[r][i] = log[r][i]
  /\ Len(log[r]) <= Len(log'[r])
  /\ IsLive(r)' /\ ~Closed(r)' /\ Created(r) => IsLive(r) /\ ~Closed(r)

LEMMA AppendKeeps ==
  ASSUME NEW S, NEW s \in Seq(S), NEW e
  PROVE  /\ Len(Append(s, e)) = Len(s) + 1
         /\ Append(s, e)[Len(s) + 1] = e
         /\ \A i \in 1..Len(s) : Append(s, e)[i] = s[i]
         /\ Len(s) \in Nat /\ Append(s, e) # <<>> /\ Last(Append(s, e)) = e
         /\ s # <<>> <=> Len(s) > 0
  BY DEF Last

LEMMA LogsGrow ==
  ASSUME IInv, [Next]_vars
  PROVE  \A r \in Run : Grown(r)
<1> SUFFICES ASSUME NEW r \in Run PROVE Grown(r) OBVIOUS
<1>1. Keeps(r) \/ Starts(r) \/ Emits(r) \/ Ends(r) BY BackendStep
<1>2. log[r] \in Seq(Events \cup Done) BY DEF IInv, BackendTyped
<1>3. run[r] \in RunRow \cup {None} BY DEF IInv, BackendTyped
<1>4. CASE Keeps(r)
  BY <1>2, <1>4 DEF Keeps, Grown, Created, Ended, IsLive, Closed
<1>5. CASE Starts(r)
  BY <1>2, <1>5, RowIsNotNone DEF Starts, Grown, Created, Ended
<1>6. CASE Emits(r)
  BY <1>2, <1>6, AppendKeeps DEF Emits, Grown, Created, Ended, IsLive, Closed
<1>7. CASE Ends(r)
  BY <1>2, <1>7, AppendKeeps, RowIsNotNone DEF Ends, Grown, Created, Ended, IsLive, Closed, TerminalStatus
<1> QED BY <1>1, <1>4, <1>5, <1>6, <1>7

LEMMA LogsStep ==
  ASSUME IInv, [Next]_vars
  PROVE  Logs'
<1> SUFFICES ASSUME NEW r \in Run
             PROVE  /\ run'[r] = None => log'[r] = <<>>
                    /\ Follows(r)'
                    /\ \A i \in 1..Len(log'[r]) : log'[r][i] \in Ending => Closed(r)'
  BY DEF Logs
<1>1. Keeps(r) \/ Starts(r) \/ Emits(r) \/ Ends(r) BY BackendStep
<1>2. log[r] \in Seq(Events \cup Done) BY DEF IInv, BackendTyped
<1>3. /\ run[r] = None => log[r] = <<>>
      /\ Follows(r)
      /\ \A i \in 1..Len(log[r]) : log[r][i] \in Ending => Closed(r)
  BY DEF IInv, Logs
<1>4. CASE Keeps(r)
  BY <1>3, <1>4 DEF Keeps, Follows, Closed
<1>5. CASE Starts(r)
  BY <1>3, <1>5, RowIsNotNone DEF Starts, Follows, Closed
<1>6. ASSUME NEW e, log'[r] = Append(log[r], e), e \in Ending
      PROVE  Closed(r)'
  BY <1>2, <1>6, AppendKeeps DEF Closed, Ending
<1>7. CASE Emits(r)
  <2>1. PICK e : log'[r] = Append(log[r], e) BY <1>7 DEF Emits
  <2>2. /\ Len(log'[r]) = Len(log[r]) + 1 /\ log'[r][Len(log[r]) + 1] = e
        /\ \A i \in 1..Len(log[r]) : log'[r][i] = log[r][i]
        /\ Len(log[r]) \in Nat
    BY <1>2, <2>1, AppendKeeps
  <2>3. \A i \in 1..Len(log'[r]) : i \in 1..Len(log[r]) \/ i = Len(log[r]) + 1 BY <2>2
  <2>4. \A i \in 1..Len(log[r]) : log[r][i] \notin Ending BY <1>3, <1>7 DEF Emits
  <2>5. run[r] # None /\ run'[r] = run[r] BY <1>7 DEF Emits, IsLive, Created
  <2>6. \A i \in 1..Len(log'[r]) : log'[r][i] \in Ending => Closed(r)'
    BY <1>6, <2>1, <2>2, <2>3, <2>4
  <2>7. Follows(r)'
    <3>1. CASE e = "error" BY <1>6, <2>1, <2>5, <3>1 DEF Follows, Ending
    <3>2. CASE /\ Len(log[r]) + 1 \in 1..Len(Script[run[r].mode])
               /\ log'[r] = Append(log[r], Script[run[r].mode][Len(log[r]) + 1])
      <4>1. log'[r][Len(log[r]) + 1] = Script[run[r].mode][Len(log[r]) + 1]
        BY <1>2, <3>2, AppendKeeps
      <4>2. \A i \in 1..Len(log[r]) :
              i \in 1..Len(Script[run[r].mode]) /\ log[r][i] = Script[run[r].mode][i]
        BY <1>3, <1>7, <2>5 DEF Follows, Emits
      <4> QED BY <2>2, <2>3, <2>5, <3>2, <4>1, <4>2 DEF Follows
    <3>3. log'[r] = Append(log[r], "error") => e = "error" BY <1>2, <2>1, <2>2, AppendKeeps
    <3> QED BY <1>7, <3>1, <3>2, <3>3 DEF Emits
  <2> QED BY <2>5, <2>6, <2>7
<1>8. CASE Ends(r)
  <2>1. /\ run[r] # None /\ run'[r] # None /\ run'[r].mode = run[r].mode
    BY <1>8, RowIsNotNone DEF Ends, IsLive, Created
  <2>2. CASE log'[r] = log[r]
    BY <1>3, <2>1, <2>2 DEF Follows, Closed
  <2>3. CASE log'[r] = Append(log[r], "cancelled")
    BY <1>6, <2>1, <2>3 DEF Follows, Ending, Done
  <2> QED BY <1>8, <2>2, <2>3 DEF Ends
<1> QED BY <1>1, <1>4, <1>5, <1>7, <1>8

(***************************************************************************)
(* The page: the types of its state.                                       *)
(***************************************************************************)
LEMMA NoRecordIsNone ==
  None \notin Conversation \cup RunRow \cup Cursor \cup ActiveRun \cup JoinedStream
  BY ConstantsAssumption

LEMMA CutCalls ==
  ASSUME NEW calls \in SUBSET Call
  PROVE  Cut(calls) \in SUBSET Call
<1>1. \A x \in Call : [x EXCEPT !.aborted = TRUE] \in Call BY DEF Call
<1> QED BY <1>1 DEF Cut

(* A look-up that begins is of what is stored. *)
OfStored(p, c, m, s) ==
  s[c] # None /\ p.conv = c /\ p.run = s[c].run /\ p.after = s[c].last /\ p.composer = m

LEMMA RejoinStored ==
  ASSUME NEW c, NEW m, NEW a, NEW s, NEW others, NEW p \in Rejoin(c, m, a, s, others)
  PROVE  OfStored(p, c, m, s)
  BY DEF Rejoin, Probe, OfStored

LEMMA Rendered ==
  ASSUME NEW c, NEW m, NEW a, NEW k, NEW calls, NEW s, Render(c, m, a, k, calls, s)
  PROVE  /\ view' = c /\ mode' = m /\ stored' = s
         /\ \/ active' = a /\ conn' = k /\ closing' = calls
            \/ active' = None /\ conn' = None /\ closing' = Cut(calls)
         /\ \A p \in probes' : p \in probes \/ OfStored(p, c, m, s)
<1> DEFINE detach == c # view /\ a # None /\ a.conv # c
           kept == IF detach THEN None ELSE a
<1>1. probes' = IF c = view /\ m = mode THEN probes ELSE probes \cup Rejoin(c, m, kept, s, probes)
  BY DEF Render
<1>2. \A p \in Rejoin(c, m, kept, s, probes) : OfStored(p, c, m, s) BY RejoinStored
<1>3. \A p \in probes' : p \in probes \/ OfStored(p, c, m, s) BY <1>1, <1>2
<1> QED BY <1>3 DEF Render

LEMMA RenderTyped ==
  ASSUME PageTyped, NEW c \in Conversation, NEW m \in Modes, NEW a \in ActiveRun \cup {None},
         NEW k \in JoinedStream \cup {None}, NEW calls \in SUBSET Call,
         NEW s \in [Conversation -> Cursor \cup {None}], Render(c, m, a, k, calls, s)
  PROVE  /\ view' \in Conversation /\ mode' \in Modes
         /\ stored' \in [Conversation -> Cursor \cup {None}]
         /\ active' \in ActiveRun \cup {None} /\ conn' \in JoinedStream \cup {None}
         /\ closing' \subseteq Call
         /\ \A p \in probes' :
              p.conv \in Conversation /\ p.run \in Run /\ p.after \in Nat /\ p.composer \in Modes
<1>1. \A p \in probes' : p \in probes \/ OfStored(p, c, m, s) BY Rendered
<1>2. s[c] # None => s[c].run \in Run /\ s[c].last \in Nat BY DEF Cursor
<1>3. Cut(calls) \subseteq Call BY CutCalls
<1> QED BY <1>1, <1>2, <1>3, Rendered DEF PageTyped, OfStored

LEMMA ClearedTyped ==
  ASSUME PageTyped, NEW c \in Conversation, NEW r
  PROVE  /\ ClearStored(c, r) \in [Conversation -> Cursor \cup {None}]
         /\ ClearActive(c, r) \in {active, None}
         /\ [stored EXCEPT ![c] = None] \in [Conversation -> Cursor \cup {None}]
  BY DEF PageTyped, ClearStored, ClearActive

LEMMA JoinTyped ==
  ASSUME PageTyped, NEW c \in Conversation, NEW r \in Run, NEW m \in Modes, NEW after \in Nat,
         NEW composer \in Modes, JoinRun(c, r, m, after, composer)
  PROVE  /\ active' \in ActiveRun \cup {None} /\ conn' \in JoinedStream \cup {None}
         /\ streaming' \in Conversation \cup {None} /\ closing' \subseteq Call
  BY CutCalls DEF PageTyped, JoinRun, ActiveRun, JoinedStream

LEMMA ReceiveTyped ==
  ASSUME PageTyped, HasEvent
  PROVE  /\ Advanced \in JoinedStream /\ StoreCursor \in [Conversation -> Cursor \cup {None}]
         /\ conn \in JoinedStream
<1>1. conn \in JoinedStream BY DEF PageTyped, HasEvent
<1>2. Advanced \in JoinedStream BY <1>1 DEF JoinedStream, Advanced
<1>3. [run |-> conn.run, last |-> conn.pos + 1] \in Cursor BY <1>1 DEF JoinedStream, Cursor
<1>4. StoreCursor \in [Conversation -> Cursor \cup {None}]
  BY <1>3 DEF PageTyped, StoreCursor
<1> QED BY <1>1, <1>2, <1>4

LEMMA ReadyTyped ==
  ASSUME PageTyped, NEW c
  PROVE  MarkReady(streaming, c) \in {streaming, None}
  BY DEF MarkReady

LEMMA PageTypedStep ==
  ASSUME IInv, [Next]_vars
  PROVE  PageTyped'
<1> USE DEF IInv
<1> DEFINE Cursors1 == [Conversation -> Cursor \cup {None}]
<1>1. ASSUME NEW r \in Run, Produce(r) \/ Finish(r) \/ FailRun(r) PROVE PageTyped'
  BY <1>1 DEF PageTyped, Produce, Finish, FailRun, hook, pending
<1>2. ASSUME NEW c \in Conversation, Open(c) PROVE PageTyped'
  <2>1. Render(c, mode, active, conn, closing, stored) BY <1>2 DEF Open
  <2>2. UNCHANGED <<streaming, creating, cancelling>> BY <1>2 DEF Open
  <2> QED BY <2>1, <2>2, RenderTyped DEF PageTyped
<1>3. CASE ToggleMode
  <2>1. PICK m \in Modes : Render(view, m, active, conn, closing, stored) BY <1>3 DEF ToggleMode
  <2>2. UNCHANGED <<streaming, creating, cancelling>> BY <1>3 DEF ToggleMode
  <2> QED BY <2>1, <2>2, RenderTyped DEF PageTyped
<1>4. ASSUME NEW r \in Run, Submit(r) \/ Regenerate(r) PROVE PageTyped'
  BY <1>4 DEF PageTyped, Submit, Regenerate, hook, Modes
<1>5. CASE Stop
  <2>1. active # None => active.conv \in Conversation /\ active.run \in Run
    BY DEF PageTyped, ActiveRun
  <2> QED BY <1>5, <2>1, CutCalls, ReadyTyped DEF PageTyped, Stop
<1>6. CASE Reload
  <2>1. \A p \in probes' : OfStored(p, view, mode, stored) BY <1>6, RejoinStored DEF Reload
  <2>2. stored[view] # None => stored[view].run \in Run /\ stored[view].last \in Nat
    BY DEF PageTyped, Cursor
  <2> QED BY <1>6, <2>1, <2>2 DEF PageTyped, Reload, OfStored
<1>7. ASSUME NEW x \in creating, CreateAnswered(x) PROVE PageTyped'
  <2>1. x.conv \in Conversation /\ x.run \in Run /\ x.mode \in Modes BY DEF PageTyped
  <2>2. JoinRun(x.conv, x.run, x.mode, 0, x.mode) BY <1>7 DEF CreateAnswered
  <2>3. stored' \in Cursors1
    BY <1>7, <2>1 DEF CreateAnswered, PageTyped, Cursor
  <2> QED BY <1>7, <2>1, <2>2, <2>3, JoinTyped DEF PageTyped, CreateAnswered
<1>8. ASSUME NEW x \in creating, CreateRefused(x) PROVE PageTyped'
  BY <1>8, ReadyTyped DEF PageTyped, CreateRefused
<1>9. ASSUME NEW p \in probes, ProbeAnswered(p) PROVE PageTyped'
  <2>1. p.conv \in Conversation /\ p.run \in Run /\ p.after \in Nat /\ p.composer \in Modes
    BY DEF PageTyped
  <2>2. run[p.run].mode \in Modes
    BY <2>1, NoRecordIsNone DEF Cursors, Created, BackendTyped, RunRow
  <2>3. JoinRun(p.conv, p.run, run[p.run].mode, p.after, p.composer) BY <1>9 DEF ProbeAnswered
  <2> QED BY <1>9, <2>1, <2>2, <2>3, JoinTyped DEF PageTyped, ProbeAnswered
<1>10. ASSUME NEW p \in probes, ProbeFailed(p) PROVE PageTyped'
  BY <1>10, ClearedTyped DEF PageTyped, ProbeFailed, ClearActiveRun
<1>11. ASSUME NEW x \in cancelling, CancelAnswered(x) PROVE PageTyped'
  <2>1. x.conv \in Conversation BY DEF PageTyped
  <2> QED BY <1>11, <2>1, ClearedTyped DEF PageTyped, CancelAnswered, ClearActiveRun
<1>12. ASSUME NEW x \in cancelling, CancelFailed(x) PROVE PageTyped'
  BY <1>12 DEF PageTyped, CancelFailed, hook
<1>13. ASSUME NEW x \in closing, CloseAnswered(x) PROVE PageTyped'
  <2>1. x \in Call /\ x.conv \in Conversation BY DEF PageTyped, Call
  <2>2. CASE Ended(x.run)
    <3>1. PICK c \in Conversation, m \in Modes :
            Render(c, m, ClearActive(x.conv, x.run), conn, closing \ {x}, ClearStored(x.conv, x.run))
      BY <1>13, <2>1, <2>2 DEF CloseAnswered, Settle, PageTyped, Modes
    <3>2. ClearActive(x.conv, x.run) \in ActiveRun \cup {None}
          /\ ClearStored(x.conv, x.run) \in Cursors1
      BY <2>1, ClearedTyped DEF PageTyped
    <3>3. closing \ {x} \in SUBSET Call /\ conn \in JoinedStream \cup {None} BY DEF PageTyped
    <3>4. streaming' \in Conversation \cup {None} /\ UNCHANGED <<creating, cancelling>>
      BY <1>13, <2>2, ReadyTyped DEF CloseAnswered, PageTyped
    <3>5. /\ view' \in Conversation /\ mode' \in Modes /\ stored' \in Cursors1
          /\ active' \in ActiveRun \cup {None} /\ conn' \in JoinedStream \cup {None}
          /\ closing' \subseteq Call
          /\ \A p \in probes' :
               p.conv \in Conversation /\ p.run \in Run /\ p.after \in Nat /\ p.composer \in Modes
      BY <3>1, <3>2, <3>3, RenderTyped
    <3> QED BY <3>4, <3>5 DEF PageTyped
  <2>3. CASE ~Ended(x.run)
    BY <1>13, <2>3 DEF CloseAnswered, PageTyped, hook
  <2> QED BY <2>2, <2>3
<1>14. ASSUME NEW x \in closing, CloseFailed(x) PROVE PageTyped'
  BY <1>14, ReadyTyped DEF PageTyped, CloseFailed
<1>15. CASE ReceiveMessages \/ ReceiveValues \/ ReceiveProgress
  <2>1. /\ HasEvent /\ stored' = StoreCursor /\ conn' = Advanced
        /\ UNCHANGED <<view, mode, active, streaming, pending>>
    BY <1>15 DEF ReceiveMessages, ReceiveValues, ReceiveProgress
  <2> QED BY <2>1, ReceiveTyped DEF PageTyped, pending
<1>16. CASE ReceiveEnd
  <2>1. HasEvent /\ conn \in JoinedStream /\ Advanced \in JoinedStream
    BY <1>16, ReceiveTyped DEF ReceiveEnd
  <2>2. conn.conv \in Conversation BY <2>1 DEF JoinedStream
  <2>3. PICK c \in Conversation, m \in Modes :
          Render(c, m, ClearActive(conn.conv, conn.run), Advanced, closing,
                 [stored EXCEPT ![conn.conv] = None])
    BY <1>16, <2>2 DEF ReceiveEnd, Settle, PageTyped, Modes
  <2>4. ClearActive(conn.conv, conn.run) \in ActiveRun \cup {None}
        /\ [stored EXCEPT ![conn.conv] = None] \in Cursors1
    BY <2>2, ClearedTyped DEF PageTyped
  <2>5. closing \in SUBSET Call BY DEF PageTyped
  <2>6. streaming' \in Conversation \cup {None} /\ UNCHANGED <<creating, cancelling>>
    BY <1>16, ReadyTyped DEF ReceiveEnd, PageTyped
  <2>7. /\ view' \in Conversation /\ mode' \in Modes /\ stored' \in Cursors1
        /\ active' \in ActiveRun \cup {None} /\ conn' \in JoinedStream \cup {None}
        /\ closing' \subseteq Call
        /\ \A p \in probes' :
             p.conv \in Conversation /\ p.run \in Run /\ p.after \in Nat /\ p.composer \in Modes
    BY <2>1, <2>3, <2>4, <2>5, RenderTyped
  <2> QED BY <2>6, <2>7 DEF PageTyped
<1>17. CASE StreamCloses
  <2>1. conn \in JoinedStream BY <1>17 DEF PageTyped, StreamCloses
  <2>2. [conv |-> conn.conv, run |-> conn.run, composer |-> conn.composer, aborted |-> FALSE] \in Call
    BY <2>1 DEF Call, JoinedStream
  <2> QED BY <1>17, <2>2 DEF PageTyped, StreamCloses
<1>18. CASE StreamBreaks
  BY <1>18, ReadyTyped DEF PageTyped, StreamBreaks, pending
<1>19. CASE UNCHANGED vars
  BY <1>19 DEF PageTyped, vars, hook, pending
<1> QED BY <1>1, <1>2, <1>3, <1>4, <1>5, <1>6, <1>7, <1>8, <1>9, <1>10, <1>11, <1>12, <1>13,
           <1>14, <1>15, <1>16, <1>17, <1>18, <1>19
        DEF Next, Backend, User, Answer, Stream

LEMMA CreationsStep ==
  ASSUME IInv, [Next]_vars
  PROVE  Creations'
<1>1. \A r \in Run : run'[r] # run[r] => Created(r) \/ \E x \in creating : x.run = r /\ CreateAnswered(x)
  BY BackendStep DEF Keeps, Starts, Emits, Ends, IsLive
<1>2. CASE \E r \in Run : Submit(r) \/ Regenerate(r)
  <2>1. PICK r \in Run : Submit(r) \/ Regenerate(r) BY <1>2
  <2>2. PICK k, m : creating' = creating \cup {[kind |-> k, conv |-> view, run |-> r, mode |-> m]}
    BY <2>1 DEF Submit, Regenerate
  <2>3. run[r] = None /\ \A y \in creating : y.run # r
    BY <2>1 DEF Submit, Regenerate, MaySubmit, Used, Created
  <2>4. run' = run BY <2>1 DEF Submit, Regenerate, backend
  <2>5. [kind |-> k, conv |-> view, run |-> r, mode |-> m].run = r OBVIOUS
  <2> QED BY <2>2, <2>3, <2>4, <2>5 DEF IInv, Creations
<1>3. CASE \E x \in creating : CreateAnswered(x)
  <2>1. PICK x \in creating : CreateAnswered(x) BY <1>3
  <2>2. creating' = creating \ {x} /\ \A r \in Run \ {x.run} : run'[r] = run[r]
    BY <2>1 DEF CreateAnswered, IInv, BackendTyped
  <2>3. \A y \in creating' : y.run # x.run BY <2>2 DEF IInv, Creations
  <2> QED BY <2>2, <2>3 DEF IInv, Creations, PageTyped
<1>4. CASE creating' \subseteq creating /\ ~(\E x \in creating : CreateAnswered(x))
  <2>1. \A x \in creating' : x.run \in Run BY <1>4 DEF IInv, PageTyped
  <2> QED BY <1>1, <1>4, <2>1 DEF IInv, Creations, Created
<1>5. creating' \subseteq creating \/ \E r \in Run : Submit(r) \/ Regenerate(r)
  BY DEF Next, Backend, User, Answer, Stream, Produce, Finish, FailRun, Open, ToggleMode, Stop,
         Reload, CreateAnswered, CreateRefused, ProbeAnswered, ProbeFailed, CancelAnswered,
         CancelFailed, CloseAnswered, CloseFailed, ReceiveMessages, ReceiveValues,
         ReceiveProgress, ReceiveEnd, StreamCloses, StreamBreaks, vars, pending
<1> QED BY <1>2, <1>3, <1>4, <1>5

(***************************************************************************)
(* Where cursors, look-ups and streams come from.                          *)
(***************************************************************************)
StoredFrom(c) ==
  \/ stored'[c] = None \/ stored'[c] = stored[c]
  \/ stored'[c].last = 0 /\ run'[stored'[c].run] # None
  \/ HasEvent /\ NextEvent \notin Done /\ stored'[c] = [run |-> conn.run, last |-> conn.pos + 1]

ProbeFrom(p) ==
  \/ p \in probes
  \/ stored'[p.conv] # None /\ p.run = stored'[p.conv].run /\ p.after = stored'[p.conv].last

StreamFrom ==
  \/ conn' = None \/ conn' = conn
  \/ HasEvent /\ conn' = Advanced
  \/ conn'.pos = 0 /\ run'[conn'.run] # None
  \/ \E p \in probes : conn'.run = p.run /\ conn'.pos = p.after

Moves ==
  /\ \A c \in Conversation : StoredFrom(c)
  /\ \A p \in probes' : ProbeFrom(p)
  /\ StreamFrom

LEMMA RenderMoves ==
  ASSUME PageTyped, NEW c \in Conversation, NEW m \in Modes, NEW a, NEW k, NEW calls, NEW s,
         Render(c, m, a, k, calls, s),
         k = conn \/ (HasEvent /\ k = Advanced),
         \A d \in Conversation : s[d] = None \/ s[d] = stored[d]
  PROVE  Moves
<1>1. stored' = s /\ (conn' = k \/ conn' = None) BY Rendered
<1>2. \A p \in probes' : p \in probes \/ OfStored(p, c, m, s) BY Rendered
<1>3. \A d \in Conversation : StoredFrom(d) BY <1>1 DEF StoredFrom
<1>4. \A p \in probes' : ProbeFrom(p) BY <1>1, <1>2 DEF ProbeFrom, OfStored
<1>5. StreamFrom BY <1>1 DEF StreamFrom
<1> QED BY <1>3, <1>4, <1>5 DEF Moves

LEMMA Cleared ==
  ASSUME PageTyped, NEW c, NEW r
  PROVE  /\ \A d \in Conversation : ClearStored(c, r)[d] = None \/ ClearStored(c, r)[d] = stored[d]
         /\ \A d \in Conversation :
              LET s == [stored EXCEPT ![c] = None] IN s[d] = None \/ s[d] = stored[d]
  BY DEF PageTyped, ClearStored

LEMMA StayMoves ==
  ASSUME \A c \in Conversation : stored'[c] = None \/ stored'[c] = stored[c],
         probes' \subseteq probes, conn' = conn \/ conn' = None
  PROVE  Moves
  BY DEF Moves, StoredFrom, ProbeFrom, StreamFrom

LEMMA PageMoves ==
  ASSUME IInv, [Next]_vars
  PROVE  Moves
<1> USE DEF IInv
<1>1. CASE \/ Backend \/ Stop
           \/ \E r \in Run : Submit(r) \/ Regenerate(r)
           \/ \E x \in creating : CreateRefused(x)
           \/ \E x \in cancelling : CancelFailed(x)
           \/ \E x \in closing : CloseFailed(x) \/ (CloseAnswered(x) /\ ~Ended(x.run))
           \/ StreamCloses \/ StreamBreaks \/ UNCHANGED vars
  <2>1. UNCHANGED <<stored, probes>> /\ (conn' = conn \/ conn' = None)
    BY <1>1 DEF Backend, Produce, Finish, FailRun, Stop, Submit, Regenerate, CreateRefused,
                CancelFailed, CloseFailed, CloseAnswered, StreamCloses, StreamBreaks, vars, hook, pending
  <2> QED BY <2>1, StayMoves
<1>2. ASSUME NEW c \in Conversation, Open(c) PROVE Moves
  BY <1>2, RenderMoves DEF Open, PageTyped
<1>3. CASE ToggleMode
  BY <1>3, RenderMoves DEF ToggleMode, PageTyped
<1>4. CASE Reload
  <2>1. \A p \in probes' : OfStored(p, view, mode, stored) BY <1>4, RejoinStored DEF Reload
  <2>2. stored' = stored /\ conn' = None BY <1>4 DEF Reload
  <2> QED BY <2>1, <2>2 DEF Moves, StoredFrom, ProbeFrom, StreamFrom, OfStored
<1>5. ASSUME NEW x \in creating, CreateAnswered(x) PROVE Moves
  <2>1. x.conv \in Conversation /\ x.run \in Run /\ x.mode \in Modes BY DEF PageTyped
  <2>2. run'[x.run] # None
    <3>1. [conv |-> x.conv, mode |-> x.mode, status |-> "ACTIVE"] \in RunRow BY <2>1 DEF RunRow
    <3>2. run'[x.run] = [conv |-> x.conv, mode |-> x.mode, status |-> "ACTIVE"]
      BY <1>5, <2>1 DEF CreateAnswered, BackendTyped
    <3> QED BY <3>1, <3>2, RowIsNotNone
  <2>3. \A c \in Conversation : c = x.conv \/ stored'[c] = stored[c]
    BY <1>5 DEF CreateAnswered, PageTyped
  <2>4. stored'[x.conv] = [run |-> x.run, last |-> 0]
    BY <1>5, <2>1 DEF CreateAnswered, PageTyped
  <2>5. \A c \in Conversation : StoredFrom(c) BY <2>2, <2>3, <2>4 DEF StoredFrom
  <2>6. probes' = probes /\ conn'.pos = 0 /\ conn'.run = x.run
    BY <1>5 DEF CreateAnswered, JoinRun
  <2> QED BY <2>2, <2>5, <2>6 DEF Moves, ProbeFrom, StreamFrom
<1>6. ASSUME NEW p \in probes, ProbeAnswered(p) PROVE Moves
  <2>1. stored' = stored /\ probes' \subseteq probes /\ conn'.run = p.run /\ conn'.pos = p.after
    BY <1>6 DEF ProbeAnswered, JoinRun
  <2> QED BY <2>1 DEF Moves, StoredFrom, ProbeFrom, StreamFrom
<1>7. ASSUME NEW p \in probes, ProbeFailed(p) PROVE Moves
  BY <1>7, Cleared, StayMoves DEF ProbeFailed, ClearActiveRun
<1>8. ASSUME NEW x \in cancelling, CancelAnswered(x) PROVE Moves
  BY <1>8, Cleared, StayMoves DEF CancelAnswered, ClearActiveRun
<1>9. ASSUME NEW x \in closing, CloseAnswered(x), Ended(x.run) PROVE Moves
  <2>1. x.conv \in Conversation BY DEF PageTyped, Call
  <2>2. PICK c \in Conversation, m \in Modes :
          Render(c, m, ClearActive(x.conv, x.run), conn, closing \ {x}, ClearStored(x.conv, x.run))
    BY <1>9, <2>1 DEF CloseAnswered, Settle, PageTyped, Modes
  <2> QED BY <2>2, Cleared, RenderMoves
<1>10. CASE ReceiveMessages \/ ReceiveValues \/ ReceiveProgress
  <2>1. /\ HasEvent /\ NextEvent \notin Done /\ stored' = StoreCursor /\ conn' = Advanced
        /\ probes' = probes
    BY <1>10 DEF ReceiveMessages, ReceiveValues, ReceiveProgress, Done, pending
  <2>2. \A c \in Conversation :
          stored'[c] = stored[c] \/ stored'[c] = [run |-> conn.run, last |-> conn.pos + 1]
    BY <2>1 DEF StoreCursor, PageTyped
  <2> QED BY <2>1, <2>2 DEF Moves, StoredFrom, ProbeFrom, StreamFrom
<1>11. CASE ReceiveEnd
  <2>1. HasEvent /\ conn.conv \in Conversation
    BY <1>11, ReceiveTyped DEF ReceiveEnd, JoinedStream
  <2>2. PICK c \in Conversation, m \in Modes :
          Render(c, m, ClearActive(conn.conv, conn.run), Advanced, closing,
                 [stored EXCEPT ![conn.conv] = None])
    BY <1>11, <2>1 DEF ReceiveEnd, Settle, PageTyped, Modes
  <2>3. \A d \in Conversation :
          [stored EXCEPT ![conn.conv] = None][d] \in {None, stored[d]}
    BY DEF PageTyped
  <2> QED BY <2>1, <2>2, <2>3, RenderMoves
<1> QED BY <1>1, <1>2, <1>3, <1>4, <1>5, <1>6, <1>7, <1>8, <1>9, <1>10, <1>11
        DEF Next, User, Answer, Stream

(* Whatever was heard of a run stays so. *)
LEMMA HeardStays ==
  ASSUME IInv, [Next]_vars
  PROVE  \A r \in Run : \A k \in Nat :
           Created(r) /\ Heard(r, k) =>
             /\ run'[r] # None
             /\ k = 0 \/ (k \in 1..Len(log'[r]) /\ log'[r][k] \notin Done)
  BY LogsGrow DEF Grown, Heard, Created

LEMMA CursorsStep ==
  ASSUME IInv, [Next]_vars
  PROVE  Cursors'
<1> DEFINE Good(r, k) == run'[r] # None /\ (k = 0 \/ (k \in 1..Len(log'[r]) /\ log'[r][k] \notin Done))
<1>1. \A r \in Run : \A k \in Nat : Created(r) /\ Heard(r, k) => Good(r, k) BY HeardStays
<1>2. Moves BY PageMoves
<1>3. HasEvent =>
        /\ conn.run \in Run /\ conn.pos \in Nat /\ Created(conn.run)
        /\ conn.pos + 1 \in 1..Len(log[conn.run])
  BY DEF IInv, PageTyped, Cursors, HasEvent, JoinedStream, BackendTyped
<1>4. ASSUME NEW c \in Conversation, stored'[c] # None
      PROVE  Good(stored'[c].run, stored'[c].last)
  <2>1. StoredFrom(c) BY <1>2 DEF Moves
  <2>2. CASE stored'[c] = stored[c]
    <3>1. stored[c].run \in Run /\ stored[c].last \in Nat
      BY <1>4, <2>2 DEF IInv, PageTyped, Cursor
    <3>2. Created(stored[c].run) /\ Heard(stored[c].run, stored[c].last)
      BY <1>4, <2>2 DEF IInv, Cursors
    <3> QED BY <1>1, <2>2, <3>1, <3>2
  <2>3. CASE stored'[c].last = 0 /\ run'[stored'[c].run] # None BY <2>3
  <2>4. CASE /\ HasEvent /\ NextEvent \notin Done
             /\ stored'[c] = [run |-> conn.run, last |-> conn.pos + 1]
    <3>1. conn.pos + 1 \in Nat /\ Heard(conn.run, conn.pos + 1)
      BY <1>3, <2>4 DEF Heard, NextEvent
    <3> QED BY <1>1, <1>3, <2>4, <3>1
  <2> QED BY <1>4, <2>1, <2>2, <2>3, <2>4 DEF StoredFrom
<1>5. ASSUME NEW p \in probes'
      PROVE  Good(p.run, p.after)
  <2>1. ProbeFrom(p) BY <1>2, <1>5 DEF Moves
  <2>2. CASE p \in probes
    <3>1. p.run \in Run /\ p.after \in Nat BY <2>2 DEF IInv, PageTyped
    <3> QED BY <1>1, <2>2, <3>1 DEF IInv, Cursors
  <2>3. PageTyped' BY PageTypedStep
  <2>4. p.conv \in Conversation BY <1>5, <2>3 DEF PageTyped
  <2> QED BY <1>4, <2>1, <2>2, <2>4 DEF ProbeFrom
<1>6. ASSUME conn' # None
      PROVE  run'[conn'.run] # None /\ conn'.pos <= Len(log'[conn'.run])
  <2>1. StreamFrom BY <1>2 DEF Moves
  <2>2. conn'.run \in Run /\ conn'.pos \in Nat
    BY <1>6, PageTypedStep DEF PageTyped, JoinedStream
  <2>3. log'[conn'.run] \in Seq(Events \cup Done) BY <2>2, BackendStep DEF BackendTyped
  <2>4. Len(log'[conn'.run]) \in Nat BY <2>3
  <2>5. CASE conn' = conn
    <3>1. Created(conn.run) /\ conn.pos <= Len(log[conn.run])
      BY <1>6, <2>5 DEF IInv, Cursors
    <3> QED BY <2>2, <2>4, <2>5, <3>1, LogsGrow DEF Grown, Created, IInv, BackendTyped
  <2>6. CASE HasEvent /\ conn' = Advanced
    <3>1. conn'.run = conn.run /\ conn'.pos = conn.pos + 1
      BY <2>6, ReceiveTyped DEF Advanced, JoinedStream, IInv
    <3>2. Grown(conn.run) BY <1>3, <2>6, LogsGrow
    <3> QED BY <1>3, <2>4, <2>6, <3>1, <3>2 DEF Grown, Created
  <2>7. CASE conn'.pos = 0 /\ run'[conn'.run] # None BY <2>4, <2>7
  <2>8. CASE \E p \in probes : conn'.run = p.run /\ conn'.pos = p.after
    <3>1. PICK p \in probes : conn'.run = p.run /\ conn'.pos = p.after BY <2>8
    <3>2. Good(p.run, p.after) BY <1>1, <2>2, <3>1 DEF IInv, Cursors
    <3> QED BY <2>4, <3>1, <3>2
  <2> QED BY <1>6, <2>1, <2>5, <2>6, <2>7, <2>8 DEF StreamFrom
<1> QED BY <1>4, <1>5, <1>6 DEF Cursors, Heard, Created

(***************************************************************************)
(* Loading ends by itself.                                                 *)
(***************************************************************************)
(* A step that takes no stream and no look-up away leaves what there is. *)
LEMMA BackedStays ==
  ASSUME IInv, [Next]_vars,
         streaming' \in {streaming, None}, active' \in {active, None}, conn' = conn,
         closing \subseteq closing'
  PROVE  Backed'
<1> SUFFICES ASSUME streaming' # None, active' # None
             PROVE  \/ conn' # None /\ conn'.conv = streaming' /\ Heard(conn.run, conn.pos)'
                    \/ \E x \in closing' : x.conv = streaming' /\ ~x.aborted /\ Ended(x.run)'
  BY DEF Backed
<1>1. CASE conn # None /\ conn.conv = streaming /\ Heard(conn.run, conn.pos)
  <2>1. conn.run \in Run /\ conn.pos \in Nat /\ Created(conn.run)
    BY <1>1 DEF IInv, PageTyped, JoinedStream, Cursors
  <2> QED BY <1>1, <2>1, HeardStays DEF Heard
<1>2. CASE \E x \in closing : x.conv = streaming /\ ~x.aborted /\ Ended(x.run)
  BY <1>2, LogsGrow DEF Grown, IInv, PageTyped, Call
<1> QED BY <1>1, <1>2 DEF IInv, Backed

(* A look-up that is taken away was of another conversation. *)
LEMMA BackedAway ==
  ASSUME IInv, [Next]_vars,
         NEW x \in closing, closing' = closing \ {x}, conn' = conn, active' \in {active, None},
         \/ streaming' = MarkReady(streaming, x.conv)
         \/ streaming' = streaming /\ (x.aborted \/ ~Ended(x.run))
  PROVE  Backed'
<1> SUFFICES ASSUME streaming' # None, active' # None
             PROVE  \/ conn' # None /\ conn'.conv = streaming' /\ Heard(conn.run, conn.pos)'
                    \/ \E y \in closing' : y.conv = streaming' /\ ~y.aborted /\ Ended(y.run)'
  BY DEF Backed
<1>1. streaming' = streaming /\ (x.conv # streaming \/ x.aborted \/ ~Ended(x.run)) BY DEF MarkReady
<1>2. CASE conn # None /\ conn.conv = streaming /\ Heard(conn.run, conn.pos)
  <2>1. conn.run \in Run /\ conn.pos \in Nat /\ Created(conn.run)
    BY <1>2 DEF IInv, PageTyped, JoinedStream, Cursors
  <2> QED BY <1>1, <1>2, <2>1, HeardStays DEF Heard
<1>3. CASE \E y \in closing : y.conv = streaming /\ ~y.aborted /\ Ended(y.run)
  BY <1>1, <1>3, LogsGrow DEF Grown, IInv, PageTyped, Call
<1> QED BY <1>1, <1>2, <1>3 DEF IInv, Backed

(* Once the stream's conversation is ready, it is a look-up that backs another. *)
LEMMA BackedByCall ==
  ASSUME IInv, [Next]_vars, conn # None,
         streaming' = MarkReady(streaming, conn.conv), active' \in {active, None},
         closing' = closing
  PROVE  Backed'
<1> SUFFICES ASSUME streaming' # None, active' # None
             PROVE  \E x \in closing' : x.conv = streaming' /\ ~x.aborted /\ Ended(x.run)'
  BY DEF Backed
<1>1. streaming' = streaming /\ conn.conv # streaming BY DEF MarkReady
<1>2. PICK x \in closing : x.conv = streaming /\ ~x.aborted /\ Ended(x.run)
  BY <1>1 DEF IInv, Backed
<1> QED BY <1>1, <1>2, LogsGrow DEF Grown, IInv, PageTyped, Call

(* A run that is joined begins after what was heard. *)
LEMMA BackedByStream ==
  ASSUME NEW c \in Conversation, NEW r \in Run, NEW m \in Modes, NEW after \in Nat,
         NEW composer \in Modes, JoinRun(c, r, m, after, composer),
         after = 0 \/ (after \in 1..Len(log'[r]) /\ log'[r][after] \notin Done)
  PROVE  Backed'
<1>1. conn' = [conv |-> c, run |-> r, from |-> after, pos |-> after, composer |-> composer]
  BY DEF JoinRun
<1>2. conn' \in JoinedStream BY <1>1 DEF JoinedStream
<1>3. conn' # None BY <1>2, NoRecordIsNone
<1>4. streaming' \in {None, c} BY DEF JoinRun
<1> QED BY <1>1, <1>3, <1>4 DEF Backed, Heard

LEMMA BackedStep ==
  ASSUME IInv, [Next]_vars
  PROVE  Backed'
<1> USE DEF IInv
<1>1. CASE \/ Backend
           \/ \E r \in Run : Submit(r) \/ Regenerate(r)
           \/ \E x \in creating : CreateRefused(x)
           \/ \E p \in probes : ProbeFailed(p)
           \/ \E x \in cancelling : CancelAnswered(x) \/ CancelFailed(x)
           \/ UNCHANGED vars
  <2>1. /\ streaming' \in {streaming, None} /\ active' \in {active, None} /\ conn' = conn
        /\ closing' = closing
    BY <1>1 DEF Backend, Produce, Finish, FailRun, Submit, Regenerate, CreateRefused, ProbeFailed,
                CancelAnswered, CancelFailed, ClearActiveRun, ClearActive, MarkReady, vars, hook, pending
  <2> QED BY <2>1, BackedStays
<1>2. CASE ToggleMode \/ \E c \in Conversation : Open(c)
  <2>1. PICK c, m : Render(c, m, active, conn, closing, stored) BY <1>2 DEF ToggleMode, Open
  <2>2. streaming' = streaming BY <1>2 DEF ToggleMode, Open
  <2>3. CASE active' = None BY <2>3 DEF Backed
  <2>4. CASE active' = active /\ conn' = conn /\ closing' = closing BY <2>2, <2>4, BackedStays
  <2> QED BY <2>1, <2>3, <2>4, Rendered
<1>3. CASE Stop \/ Reload
  BY <1>3 DEF Stop, Reload, Backed
<1>4. ASSUME NEW x \in creating, CreateAnswered(x) PROVE Backed'
  <2>1. x.conv \in Conversation /\ x.run \in Run /\ x.mode \in Modes BY DEF PageTyped
  <2>2. JoinRun(x.conv, x.run, x.mode, 0, x.mode) BY <1>4 DEF CreateAnswered
  <2> QED BY <2>1, <2>2, BackedByStream
<1>5. ASSUME NEW p \in probes, ProbeAnswered(p) PROVE Backed'
  <2>1. p.conv \in Conversation /\ p.run \in Run /\ p.after \in Nat /\ p.composer \in Modes
    BY DEF PageTyped
  <2>2. Created(p.run) /\ Heard(p.run, p.after) BY DEF Cursors
  <2>3. run[p.run].mode \in Modes
    BY <2>1, <2>2 DEF Created, BackendTyped, RunRow
  <2>4. JoinRun(p.conv, p.run, run[p.run].mode, p.after, p.composer) BY <1>5 DEF ProbeAnswered
  <2>5. p.after = 0 \/ (p.after \in 1..Len(log'[p.run]) /\ log'[p.run][p.after] \notin Done)
    BY <2>1, <2>2, HeardStays
  <2> QED BY <2>1, <2>3, <2>4, <2>5, BackedByStream
<1>6. ASSUME NEW x \in closing, CloseAnswered(x) PROVE Backed'
  <2>1. CASE ~Ended(x.run)
    BY <1>6, <2>1, BackedAway DEF CloseAnswered, hook
  <2>2. CASE Ended(x.run)
    <3>1. PICK c, m :
            Render(c, m, ClearActive(x.conv, x.run), conn, closing \ {x}, ClearStored(x.conv, x.run))
      BY <1>6, <2>2 DEF CloseAnswered, Settle
    <3>2. streaming' = MarkReady(streaming, x.conv) BY <1>6, <2>2 DEF CloseAnswered
    <3>3. CASE active' = None BY <3>3 DEF Backed
    <3>4. CASE active' = ClearActive(x.conv, x.run) /\ conn' = conn /\ closing' = closing \ {x}
      BY <3>2, <3>4, BackedAway DEF ClearActive
    <3> QED BY <3>1, <3>3, <3>4, Rendered
  <2> QED BY <2>1, <2>2
<1>7. ASSUME NEW x \in closing, CloseFailed(x) PROVE Backed'
  <2>1. /\ closing' = closing \ {x} /\ conn' = conn /\ active' = active
        /\ streaming' = MarkReady(streaming, x.conv) \/ (streaming' = streaming /\ x.aborted)
    BY <1>7 DEF CloseFailed, PageTyped, Call
  <2> QED BY <2>1, BackedAway
<1>8. CASE ReceiveMessages \/ ReceiveValues \/ ReceiveProgress
  <2>1. /\ HasEvent /\ NextEvent \notin Done /\ conn' = Advanced
        /\ UNCHANGED <<run, log, active, streaming, closing>>
    BY <1>8 DEF ReceiveMessages, ReceiveValues, ReceiveProgress, Done, pending, backend
  <2>2. /\ conn \in JoinedStream /\ Advanced \in JoinedStream
        /\ Advanced.conv = conn.conv /\ Advanced.run = conn.run /\ Advanced.pos = conn.pos + 1
    BY <2>1, ReceiveTyped DEF Advanced, JoinedStream
  <2>3. conn.pos + 1 \in 1..Len(log[conn.run])
    BY <2>1, <2>2 DEF HasEvent, JoinedStream, BackendTyped
  <2>4. Heard(conn.run, conn.pos + 1) BY <2>1, <2>3 DEF Heard, NextEvent
  <2>5. conn' # None BY <2>1, <2>2, NoRecordIsNone
  <2> QED BY <2>1, <2>2, <2>4, <2>5 DEF Backed, Heard, Ended, Created
<1>9. CASE ReceiveEnd
  <2>1. PICK c, m, s : Render(c, m, ClearActive(conn.conv, conn.run), Advanced, closing, s)
    BY <1>9 DEF ReceiveEnd, Settle
  <2>2. conn # None /\ streaming' = MarkReady(streaming, conn.conv)
    BY <1>9 DEF ReceiveEnd, HasEvent
  <2>3. CASE active' = None BY <2>3 DEF Backed
  <2>4. CASE active' = ClearActive(conn.conv, conn.run) /\ closing' = closing
    BY <2>2, <2>4, BackedByCall DEF ClearActive
  <2> QED BY <2>1, <2>3, <2>4, Rendered
<1>10. CASE StreamCloses
  <2> DEFINE call == [conv |-> conn.conv, run |-> conn.run, composer |-> conn.composer, aborted |-> FALSE]
  <2>1. /\ conn # None /\ closing' = closing \cup {call}
        /\ UNCHANGED <<run, log, active, streaming>>
        /\ \/ conn.pos > 0 /\ log[conn.run][conn.pos] \in Done
           \/ Ended(conn.run)
    BY <1>10 DEF StreamCloses, backend
  <2>2. call.conv = conn.conv /\ call.run = conn.run /\ call.aborted = FALSE OBVIOUS
  <2>3. conn.pos \in Nat BY <2>1 DEF PageTyped, JoinedStream
  <2>4. CASE conn.conv = streaming /\ Heard(conn.run, conn.pos)
    <3>1. Ended(conn.run) BY <2>1, <2>3, <2>4 DEF Heard
    <3> QED BY <2>1, <2>2, <2>4, <3>1 DEF Backed, Ended, Created
  <2>5. CASE ~(conn.conv = streaming /\ Heard(conn.run, conn.pos))
    BY <2>1, <2>5 DEF Backed, Ended, Created
  <2> QED BY <2>4, <2>5
<1>11. CASE StreamBreaks
  <2>1. /\ conn # None /\ streaming' = MarkReady(streaming, conn.conv)
        /\ UNCHANGED <<active, closing>>
    BY <1>11 DEF StreamBreaks, pending
  <2> QED BY <2>1, BackedByCall
<1> QED BY <1>1, <1>2, <1>3, <1>4, <1>5, <1>6, <1>7, <1>8, <1>9, <1>10, <1>11
        DEF Next, User, Answer, Stream

LEMMA InitInv == Init => IInv
<1> SUFFICES ASSUME Init PROVE IInv OBVIOUS
<1>1. BackendTyped BY DEF Init, BackendTyped
<1>2. PageTyped BY ConstantsAssumption DEF Init, PageTyped, Modes
<1>3. Logs BY DEF Init, Logs, Follows
<1>4. Creations /\ Cursors /\ Backed BY DEF Init, Creations, Cursors, Backed
<1> QED BY <1>1, <1>2, <1>3, <1>4 DEF IInv

(* The inductive invariant. *)
THEOREM Invariance == Spec => []IInv
<1>1. IInv /\ [Next]_vars => IInv'
  BY BackendStep, PageTypedStep, LogsStep, CreationsStep, CursorsStep, BackedStep DEF IInv
<1> QED BY <1>1, InitInv, PTL DEF Spec

(* A page that is loading, with a run that is active, has a stream or a look-up that ends it, *)
(* however answers of other runs and conversations fall between the user's moves.             *)
THEOREM LoadingBacked == Spec => []SpinnerBacked
<1>1. IInv => SpinnerBacked
  <2> SUFFICES ASSUME IInv, IsLoading, active # None
               PROVE  \/ conn # None /\ conn.conv = view
                      \/ \E x \in closing : x.conv = view
    BY DEF SpinnerBacked
  <2>1. streaming = view /\ streaming # None
    BY NoRecordIsNone DEF IInv, PageTyped, IsLoading
  <2> QED BY <2>1 DEF IInv, Backed
<1> QED BY <1>1, Invariance, PTL

(***************************************************************************)
(* The cursor of the open stream is kept.                                  *)
(***************************************************************************)
LiveNext(r) == run'[r] # None /\ run'[r].status = "ACTIVE"
ClosedNext(r) == log'[r] # <<>> /\ Last(log'[r]) \in Done \cup {"error"}

(* A stream that stays open while its run goes on was resumable before. *)
LEMMA StreamStays ==
  ASSUME IInv, [Next]_vars, Resumable, ~Resumable', conn' \in {conn, None}
  PROVE  /\ conn' = conn /\ conn.conv \in Conversation /\ conn.run \in Run
         /\ IsLive(conn.run) /\ ~Closed(conn.run) /\ LiveNext(conn.run)
         /\ stored[conn.conv].run = conn.run
         /\ stored[conn.conv] # None
         /\ stored'[conn.conv] # stored[conn.conv]
<1>1. /\ conn' # None /\ conn'.from < conn'.pos /\ LiveNext(conn'.run) /\ ~ClosedNext(conn'.run)
      /\ stored'[conn'.conv] # [run |-> conn'.run, last |-> conn'.pos]
  BY DEF Resumable, IsLive, Created, Closed, LiveNext, ClosedNext
<1>2. conn' = conn /\ conn \in JoinedStream BY <1>1 DEF IInv, PageTyped
<1>3. conn.conv \in Conversation /\ conn.run \in Run /\ conn.pos \in Nat BY <1>2 DEF JoinedStream
<1>4. Created(conn.run) BY <1>1, <1>2 DEF IInv, Cursors
<1>5. LiveNext(conn.run) /\ ~ClosedNext(conn.run) BY <1>1, <1>2
<1>6. IsLive(conn.run) /\ ~Closed(conn.run)
  BY <1>3, <1>4, <1>5, LogsGrow DEF Grown, IsLive, Created, Closed, LiveNext, ClosedNext
<1>7. stored[conn.conv] = [run |-> conn.run, last |-> conn.pos]
  BY <1>1, <1>2, <1>6 DEF Resumable
<1>8. stored[conn.conv] \in Cursor BY <1>3, <1>7 DEF Cursor
<1> QED BY <1>1, <1>2, <1>3, <1>5, <1>6, <1>7, <1>8, NoRecordIsNone

LEMMA CursorKept ==
  ASSUME IInv, [Next]_vars, Resumable, ~Resumable'
  PROVE  \E p \in probes : probes' = probes \ {p} /\ p.conv = conn.conv /\ p.run = conn.run
<1> USE DEF IInv
<1>1. CASE \/ Backend \/ Stop \/ Reload \/ ToggleMode
           \/ \E c \in Conversation : Open(c)
           \/ \E r \in Run : Submit(r) \/ Regenerate(r)
           \/ \E x \in creating : CreateRefused(x)
           \/ \E x \in cancelling : CancelFailed(x)
           \/ \E x \in closing : CloseFailed(x) \/ (CloseAnswered(x) /\ ~Ended(x.run))
           \/ StreamCloses \/ StreamBreaks \/ UNCHANGED vars
  <2>1. stored' = stored /\ (conn' = conn \/ conn' = None)
    BY <1>1 DEF Backend, Produce, Finish, FailRun, Stop, Reload, ToggleMode, Open, Render, Submit,
                Regenerate, CreateRefused, CancelFailed, CloseFailed, CloseAnswered, StreamCloses,
                StreamBreaks, vars, hook, pending
  <2> QED BY <2>1, StreamStays
<1>2. ASSUME NEW c, NEW r, NEW m, NEW after, NEW composer, JoinRun(c, r, m, after, composer)
      PROVE  FALSE
  <2>1. conn' = [conv |-> c, run |-> r, from |-> after, pos |-> after, composer |-> composer]
    BY <1>2 DEF JoinRun
  <2>2. conn'.from = conn'.pos BY <2>1
  <2>3. conn' # None => conn' \in JoinedStream BY PageTypedStep DEF PageTyped
  <2> QED BY <2>2, <2>3 DEF Resumable, JoinedStream
<1>3. CASE \/ \E x \in creating : CreateAnswered(x)
           \/ \E p \in probes : ProbeAnswered(p)
  BY <1>2, <1>3 DEF CreateAnswered, ProbeAnswered
<1>4. ASSUME NEW p \in probes, ProbeFailed(p)
      PROVE  probes' = probes \ {p} /\ p.conv = conn.conv /\ p.run = conn.run
  <2>1. /\ probes' = probes \ {p} /\ stored' = ClearStored(p.conv, p.run) /\ conn' = conn
    BY <1>4 DEF ProbeFailed, ClearActiveRun
  <2>2. stored[conn.conv].run = conn.run /\ stored'[conn.conv] # stored[conn.conv]
        /\ conn.conv \in Conversation
    BY <2>1, StreamStays
  <2> QED BY <2>1, <2>2 DEF ClearStored, PageTyped
<1>5. ASSUME NEW c, NEW r \in Run, stored' = ClearStored(c, r), conn' \in {conn, None}, ~LiveNext(r)
      PROVE  FALSE
  <2>1. /\ stored[conn.conv].run = conn.run /\ stored'[conn.conv] # stored[conn.conv]
        /\ conn.conv \in Conversation /\ LiveNext(conn.run)
    BY <1>5, StreamStays
  <2>2. conn.run = r BY <1>5, <2>1 DEF ClearStored, PageTyped
  <2> QED BY <1>5, <2>1, <2>2
<1>6. ASSUME NEW x \in cancelling, CancelAnswered(x) PROVE FALSE
  <2>1. x.run \in Run BY DEF PageTyped
  <2>2. ~LiveNext(x.run)
    <3>1. CASE IsLive(x.run)
      <4>1. run[x.run] \in RunRow BY <2>1, <3>1 DEF IsLive, Created, BackendTyped
      <4>2. run' = [run EXCEPT ![x.run].status = "CANCELLED"] BY <1>6, <3>1 DEF CancelAnswered
      <4>3. run'[x.run].status = "CANCELLED" BY <2>1, <4>1, <4>2 DEF BackendTyped, RunRow
      <4> QED BY <4>3 DEF LiveNext
    <3>2. CASE ~IsLive(x.run)
      BY <1>6, <3>2 DEF CancelAnswered, backend, IsLive, Created, LiveNext
    <3> QED BY <3>1, <3>2
  <2>3. stored' = ClearStored(x.conv, x.run) /\ conn' = conn
    BY <1>6 DEF CancelAnswered, ClearActiveRun
  <2> QED BY <1>5, <2>1, <2>2, <2>3
<1>7. ASSUME NEW x \in closing, CloseAnswered(x), Ended(x.run) PROVE FALSE
  <2>1. x.run \in Run BY DEF PageTyped, Call
  <2>2. ~LiveNext(x.run)
    BY <1>7, <2>1, LogsGrow DEF Grown, Ended, LiveNext, Created, TerminalStatus
  <2>3. PICK c, m :
          Render(c, m, ClearActive(x.conv, x.run), conn, closing \ {x}, ClearStored(x.conv, x.run))
    BY <1>7 DEF CloseAnswered, Settle
  <2>4. stored' = ClearStored(x.conv, x.run) /\ conn' \in {conn, None} BY <2>3, Rendered
  <2> QED BY <1>5, <2>1, <2>2, <2>4
<1>8. CASE ReceiveMessages \/ ReceiveValues \/ ReceiveProgress
  <2>1. HasEvent /\ stored' = StoreCursor /\ conn' = Advanced
    BY <1>8 DEF ReceiveMessages, ReceiveValues, ReceiveProgress
  <2>2. /\ conn \in JoinedStream /\ conn.conv \in Conversation
        /\ Advanced.conv = conn.conv /\ Advanced.run = conn.run /\ Advanced.pos = conn.pos + 1
    BY <2>1, ReceiveTyped DEF Advanced, JoinedStream
  <2>3. stored'[conn'.conv] = [run |-> conn'.run, last |-> conn'.pos]
    BY <2>1, <2>2 DEF StoreCursor, PageTyped
  <2> QED BY <2>3 DEF Resumable
<1>9. CASE ReceiveEnd
  <2>1. HasEvent /\ NextEvent \in Ending /\ conn # None /\ UNCHANGED <<run, log>>
    BY <1>9 DEF ReceiveEnd, Ending, HasEvent, backend
  <2>2. conn \in JoinedStream /\ Advanced.run = conn.run
    BY <2>1, ReceiveTyped DEF Advanced, JoinedStream
  <2>3. conn.run \in Run /\ conn.pos + 1 \in 1..Len(log[conn.run])
    BY <2>1, <2>2 DEF HasEvent, JoinedStream, BackendTyped
  <2>4. Closed(conn.run) BY <2>1, <2>3 DEF Logs, NextEvent
  <2>5. PICK c, m, s : Render(c, m, ClearActive(conn.conv, conn.run), Advanced, closing, s)
    BY <1>9 DEF ReceiveEnd, Settle
  <2>6. conn' = None \/ conn' = Advanced BY <2>5, Rendered
  <2> QED BY <2>1, <2>2, <2>4, <2>6 DEF Resumable, Closed
<1> QED BY <1>1, <1>3, <1>4, <1>6, <1>7, <1>8, <1>9 DEF Next, User, Answer, Stream

(* A stream that can be resumed stays so until its run ends or it closes, but for an older    *)
(* look-up of this run that fails: no answer about another run takes the cursor away.         *)
THEOREM CursorStays == Spec => CursorStored
<1>1. IInv /\ [Next]_vars =>
        [Resumable /\ ~Resumable' =>
           \E p \in probes : probes' = probes \ {p} /\ p.conv = conn.conv /\ p.run = conn.run]_vars
  BY CursorKept
<1> QED BY <1>1, Invariance, PTL DEF Spec, CursorStored

(***************************************************************************)
(* Type correctness: the look-ups under way are few, so there is a number  *)
(* that tells the next one apart.                                          *)
(***************************************************************************)
Lookup == [conv : Conversation, run : Run, after : Nat, composer : Modes, nr : 1..(MaxProbes + 1)]

Numbered ==
  /\ IsFiniteSet(probes) /\ Cardinality(probes) <= MaxProbes
  /\ \A p \in probes : /\ p = [conv |-> p.conv, run |-> p.run, after |-> p.after,
                               composer |-> p.composer, nr |-> p.nr]
                       /\ p.nr \in 1..(MaxProbes + 1)

LEMMA FreeNumber ==
  ASSUME NEW others, IsFiniteSet(others), Cardinality(others) <= MaxProbes
  PROVE  \E n \in 1..(MaxProbes + 1) : \A p \in others : p.nr # n
<1> DEFINE f == [p \in others |-> p.nr]
           used == {p.nr : p \in others}
           all == 1..(MaxProbes + 1)
<1>1. f \in Surjection(others, used) BY DEF Surjection
<1>2. IsFiniteSet(used) /\ Cardinality(used) <= Cardinality(others) BY <1>1, FS_Surjection
<1>3. MaxProbes \in Nat BY ConstantsAssumption
<1>4. IsFiniteSet(all) /\ Cardinality(all) = MaxProbes + 1 BY <1>3, FS_Interval
<1>5. ASSUME all \subseteq used PROVE FALSE
  <2>1. Cardinality(all) <= Cardinality(used) BY <1>2, <1>5, FS_Subset
  <2>2. Cardinality(used) \in Nat /\ Cardinality(others) \in Nat BY <1>2, FS_CardinalityType
  <2> QED BY <1>2, <1>3, <1>4, <2>1, <2>2
<1> QED BY <1>5

LEMMA RejoinNumbered ==
  ASSUME NEW c, NEW m, NEW a, NEW s, NEW others, IsFiniteSet(others), Cardinality(others) <= MaxProbes
  PROVE  /\ IsFiniteSet(Rejoin(c, m, a, s, others)) /\ Cardinality(Rejoin(c, m, a, s, others)) <= 1
         /\ \A p \in Rejoin(c, m, a, s, others) :
              /\ p = [conv |-> p.conv, run |-> p.run, after |-> p.after,
                      composer |-> p.composer, nr |-> p.nr]
              /\ p.nr \in 1..(MaxProbes + 1)
<1> DEFINE n == CHOOSE k \in 1..(MaxProbes + 1) : \A p \in others : p.nr # k
           q == Probe(c, s[c].run, s[c].last, m, others)
<1>1. n \in 1..(MaxProbes + 1) BY FreeNumber
<1>2. q = [conv |-> c, run |-> s[c].run, after |-> s[c].last, composer |-> m, nr |-> n] BY DEF Probe
<1> HIDE DEF n, q
<1>3. Rejoin(c, m, a, s, others) = {} \/ Rejoin(c, m, a, s, others) = {q} BY DEF Rejoin, q
<1>4. /\ IsFiniteSet({}) /\ Cardinality({}) = 0 /\ IsFiniteSet({q}) /\ Cardinality({q}) = 1
  BY FS_EmptySet, FS_Singleton
<1> QED BY <1>1, <1>2, <1>3, <1>4

LEMMA RenderNumbered ==
  ASSUME Numbered, NEW c, NEW m, NEW a, NEW k, NEW calls, NEW s, Render(c, m, a, k, calls, s)
  PROVE  Numbered'
<1> DEFINE kept == IF c # view /\ a # None /\ a.conv # c THEN None ELSE a
           more == Rejoin(c, m, kept, s, probes)
<1>1. /\ IsFiniteSet(more)
      /\ \A p \in more : /\ p = [conv |-> p.conv, run |-> p.run, after |-> p.after,
                                 composer |-> p.composer, nr |-> p.nr]
                         /\ p.nr \in 1..(MaxProbes + 1)
  BY RejoinNumbered DEF Numbered
<1>2. probes' = probes \/ probes' = probes \cup more BY DEF Render
<1>3. Cardinality(probes') <= MaxProbes BY DEF Render
<1> HIDE DEF more
<1>4. IsFiniteSet(probes \cup more) BY <1>1, FS_Union DEF Numbered
<1> QED BY <1>1, <1>2, <1>3, <1>4 DEF Numbered

LEMMA NumberedStep ==
  ASSUME IInv, Numbered, [Next]_vars
  PROVE  Numbered'
<1>1. CASE probes' = probes BY <1>1 DEF Numbered
<1>2. ASSUME NEW p \in probes, probes' = probes \ {p} PROVE Numbered'
  <2>1. IsFiniteSet(probes') /\ Cardinality(probes') <= Cardinality(probes)
    BY <1>2, FS_Subset DEF Numbered
  <2>2. Cardinality(probes) \in Nat /\ Cardinality(probes') \in Nat /\ MaxProbes \in Nat
    BY <2>1, FS_CardinalityType, ConstantsAssumption DEF Numbered
  <2> QED BY <1>2, <2>1, <2>2 DEF Numbered
<1>3. CASE Reload
  <2>1. IsFiniteSet({}) /\ Cardinality({}) = 0 /\ MaxProbes \in Nat /\ MaxProbes > 0
    BY FS_EmptySet, ConstantsAssumption
  <2>2. probes' = Rejoin(view, mode, None, stored, {}) BY <1>3 DEF Reload
  <2>3. /\ IsFiniteSet(probes') /\ Cardinality(probes') <= 1
        /\ \A p \in probes' : /\ p = [conv |-> p.conv, run |-> p.run, after |-> p.after,
                                      composer |-> p.composer, nr |-> p.nr]
                              /\ p.nr \in 1..(MaxProbes + 1)
    BY <2>1, <2>2, RejoinNumbered
  <2>4. Cardinality(probes') \in Nat BY <2>3, FS_CardinalityType
  <2> QED BY <2>1, <2>3, <2>4 DEF Numbered
<1>4. CASE \/ ToggleMode \/ ReceiveEnd
           \/ \E c \in Conversation : Open(c)
           \/ \E x \in closing : CloseAnswered(x) /\ Ended(x.run)
  BY <1>4, RenderNumbered DEF ToggleMode, ReceiveEnd, Open, CloseAnswered, Settle
<1>5. CASE \/ Backend \/ Stop
           \/ \E r \in Run : Submit(r) \/ Regenerate(r)
           \/ \E x \in creating : CreateAnswered(x) \/ CreateRefused(x)
           \/ \E x \in cancelling : CancelAnswered(x) \/ CancelFailed(x)
           \/ \E x \in closing : CloseFailed(x) \/ (CloseAnswered(x) /\ ~Ended(x.run))
           \/ ReceiveMessages \/ ReceiveValues \/ ReceiveProgress
           \/ StreamCloses \/ StreamBreaks \/ UNCHANGED vars
  <2>1. probes' = probes
    BY <1>5 DEF Backend, Produce, Finish, FailRun, Stop, Submit, Regenerate, CreateAnswered,
                CreateRefused, CancelAnswered, CancelFailed, CloseFailed, CloseAnswered,
                ReceiveMessages, ReceiveValues, ReceiveProgress, StreamCloses, StreamBreaks, vars,
                pending
  <2> QED BY <1>1, <2>1
<1>6. ASSUME NEW p \in probes, ProbeAnswered(p) \/ ProbeFailed(p) PROVE Numbered'
  BY <1>2, <1>6 DEF ProbeAnswered, ProbeFailed
<1> QED BY <1>3, <1>4, <1>5, <1>6 DEF Next, User, Answer, Stream

(* The state of the page and of the backend has its types, and look-ups    *)
(* that overlap can be told apart, in every behaviour.                     *)
THEOREM TypeCorrect == Spec => []TypeOK
<1> DEFINE TypeInv == IInv /\ Numbered
<1>1. Init => TypeInv
  <2>1. Init => Numbered BY FS_EmptySet, ConstantsAssumption DEF Init, Numbered
  <2> QED BY <2>1, InitInv
<1>2. TypeInv /\ [Next]_vars => TypeInv'
  BY BackendStep, PageTypedStep, LogsStep, CreationsStep, CursorsStep, BackedStep, NumberedStep DEF IInv
<1>3. TypeInv => TypeOK
  <2> SUFFICES ASSUME TypeInv PROVE TypeOK OBVIOUS
  <2>1. ASSUME NEW p \in probes PROVE p \in Lookup
    <3>1. p.conv \in Conversation /\ p.run \in Run /\ p.after \in Nat /\ p.composer \in Modes
      BY DEF IInv, PageTyped
    <3>2. /\ p = [conv |-> p.conv, run |-> p.run, after |-> p.after, composer |-> p.composer, nr |-> p.nr]
          /\ p.nr \in 1..(MaxProbes + 1)
      BY DEF Numbered
    <3> QED BY <3>1, <3>2 DEF Lookup
  <2> QED BY <2>1 DEF IInv, BackendTyped, PageTyped, TypeOK, Lookup
<1> QED BY <1>1, <1>2, <1>3, PTL DEF Spec

(***************************************************************************)
(* The answer of a run that completes.                                     *)
(***************************************************************************)
(* Until an error or a cancellation, the events are those of the script. *)
Scripted(r) ==
  run[r] # None =>
    \A i \in 1..Len(log[r]) : log[r][i] \notin {"error", "cancelled"} =>
      /\ i \in 1..Len(Script[run[r].mode])
      /\ \A j \in 1..i : log[r][j] = Script[run[r].mode][j]

(* What is shown when the last event of the stream was a state: nothing, what a submission left *)
(* of nothing, or the pieces so far.                                                             *)
Whole ==
  conn # None /\ conn.from < conn.pos /\ log[conn.run][conn.pos] = "values" =>
    \/ values[conn.conv] = None
    \/ values[conn.conv].text \in {<<>>, Pieces(conn.run, conn.pos)}

AnswerInv ==
  /\ IInv
  /\ \A r \in Run : Scripted(r)
  /\ values = [c \in Conversation |-> values[c]]
  /\ Whole

LEMMA ScriptedStep ==
  ASSUME IInv, \A r \in Run : Scripted(r), [Next]_vars, NEW r \in Run
  PROVE  Scripted(r)'
<1>1. Keeps(r) \/ Starts(r) \/ Emits(r) \/ Ends(r) BY BackendStep
<1>2. log[r] \in Seq(Events \cup Done) BY DEF IInv, BackendTyped
<1>3. Scripted(r) /\ Follows(r) /\ (run[r] = None => log[r] = <<>>) BY DEF IInv, Logs
<1>4. CASE Keeps(r) BY <1>3, <1>4 DEF Keeps, Scripted
<1>5. CASE Starts(r) BY <1>3, <1>5 DEF Starts, Scripted
<1>6. ASSUME NEW e, log'[r] = Append(log[r], e), run[r] # None, run'[r] # None, run'[r].mode = run[r].mode,
             \/ e \in {"error", "cancelled"}
             \/ /\ Len(log[r]) + 1 \in 1..Len(Script[run[r].mode]) /\ ~Closed(r)
                /\ e = Script[run[r].mode][Len(log[r]) + 1]
      PROVE  Scripted(r)'
  <2>1. /\ Len(log'[r]) = Len(log[r]) + 1 /\ log'[r][Len(log[r]) + 1] = e
        /\ \A i \in 1..Len(log[r]) : log'[r][i] = log[r][i]
        /\ Len(log[r]) \in Nat
    BY <1>2, <1>6, AppendKeeps
  <2> SUFFICES ASSUME NEW i \in 1..Len(log'[r]), log'[r][i] \notin {"error", "cancelled"}
               PROVE  /\ i \in 1..Len(Script[run[r].mode])
                      /\ \A j \in 1..i : log'[r][j] = Script[run[r].mode][j]
    BY <1>6 DEF Scripted
  <2>2. CASE i \in 1..Len(log[r])
    <3>1. \A j \in 1..i : j \in 1..Len(log[r]) BY <2>1, <2>2
    <3> QED BY <1>3, <1>6, <2>1, <2>2, <3>1 DEF Scripted
  <2>3. CASE i = Len(log[r]) + 1
    <3>1. \A j \in 1..i : j \in 1..Len(log[r]) \/ j = i BY <2>1, <2>3
    <3> QED BY <1>3, <1>6, <2>1, <2>3, <3>1 DEF Follows
  <2> QED BY <2>1, <2>2, <2>3
<1>7. CASE Emits(r) BY <1>6, <1>7 DEF Emits, IsLive, Created
<1>8. CASE Ends(r)
  <2>1. run[r] # None /\ run'[r] # None /\ run'[r].mode = run[r].mode
    BY <1>8, RowIsNotNone DEF Ends, IsLive, Created
  <2>2. CASE log'[r] = log[r] BY <1>3, <2>1, <2>2 DEF Scripted
  <2> QED BY <1>6, <1>8, <2>1, <2>2 DEF Ends
<1> QED BY <1>1, <1>4, <1>5, <1>7, <1>8

(* A step that shows nothing new, on a stream that stays as it is or ends. *)
LEMMA WholeStays ==
  ASSUME AnswerInv, [Next]_vars, conn' \in {conn, None},
         \A c \in Conversation : \/ values'[c] = values[c] \/ values'[c] = None
                                 \/ values'[c].text = <<>>
  PROVE  Whole'
<1> SUFFICES ASSUME conn' = conn, conn # None, conn.from < conn.pos, log'[conn.run][conn.pos] = "values"
             PROVE  \/ values'[conn.conv] = None
                    \/ values'[conn.conv].text \in {<<>>, Pieces(conn.run, conn.pos)'}
  BY DEF Whole, Pieces
<1>1. conn \in JoinedStream /\ conn.pos <= Len(log[conn.run]) BY DEF AnswerInv, IInv, PageTyped, Cursors
<1>2. conn.run \in Run /\ conn.conv \in Conversation /\ conn.pos \in Nat /\ conn.from \in Nat
  BY <1>1 DEF JoinedStream
<1>3. log[conn.run] \in Seq(Events \cup Done) BY <1>2 DEF AnswerInv, IInv, BackendTyped
<1>4. conn.pos \in 0..Len(log[conn.run]) /\ conn.pos \in 1..Len(log[conn.run]) BY <1>1, <1>2, <1>3
<1>5. Pieces(conn.run, conn.pos)' = Pieces(conn.run, conn.pos)
  <2> DEFINE r == conn.run
             k == conn.pos
  <2>1. Pieces(r, k)' = Pieces(r, k)
    <3>1. \A j \in 1..k : log'[r][j] = log[r][j] BY <1>2, <1>4, LogsGrow DEF AnswerInv, Grown
    <3>2. {j \in 1..k : log'[r][j] = "messages"} = {j \in 1..k : log[r][j] = "messages"} BY <3>1
    <3> QED BY <3>2 DEF Pieces
  <2> QED BY <2>1
<1>6. log[conn.run][conn.pos] = "values" BY <1>2, <1>4, LogsGrow DEF AnswerInv, Grown
<1>7. values[conn.conv] = None \/ values[conn.conv].text \in {<<>>, Pieces(conn.run, conn.pos)}
  BY <1>6 DEF AnswerInv, Whole
<1> QED BY <1>2, <1>5, <1>7

(* A step of the stream: only a state can be the last event, and it is shown whole. *)
LEMMA WholeReceived ==
  ASSUME AnswerInv, HasEvent, conn' \in {Advanced, None}, log' = log,
         \/ NextEvent # "values"
         \/ values' = MergeValues(conn.conv, conn.run, conn.pos + 1)
  PROVE  Whole'
<1>1. conn \in JoinedStream BY ReceiveTyped DEF AnswerInv, IInv
<1>2. conn.run \in Run /\ conn.conv \in Conversation /\ conn.pos \in Nat BY <1>1 DEF JoinedStream
<1>3. /\ Advanced.conv = conn.conv /\ Advanced.run = conn.run /\ Advanced.pos = conn.pos + 1
  BY <1>1 DEF Advanced, JoinedStream
<1>4. CASE conn' = None BY <1>4 DEF Whole
<1>5. CASE conn' = Advanced /\ log[conn.run][conn.pos + 1] # "values"
  BY <1>3, <1>5 DEF Whole
<1>6. CASE conn' = Advanced /\ log[conn.run][conn.pos + 1] = "values"
  <2>1. values' = [values EXCEPT ![conn.conv] = [history |-> TRUE, text |-> Pieces(conn.run, conn.pos + 1)]]
    BY <1>6 DEF NextEvent, MergeValues
  <2>2. values'[conn.conv].text = Pieces(conn.run, conn.pos + 1) BY <1>2, <2>1 DEF AnswerInv
  <2>3. Pieces(conn.run, conn.pos)' = Pieces(conn.run, conn.pos + 1)
    BY <1>3, <1>6 DEF Pieces
  <2>4. (values[conn.conv].text)' = Pieces(conn.run, conn.pos)' BY <1>3, <1>6, <2>2, <2>3
  <2>5. (values[conn.conv].text \in {<<>>, Pieces(conn.run, conn.pos)})' BY <2>4
  <2> QED BY <2>5 DEF Whole
<1> QED BY <1>4, <1>5, <1>6

LEMMA WholeStep ==
  ASSUME AnswerInv, [Next]_vars
  PROVE  Whole' /\ values' = [c \in Conversation |-> values'[c]]
<1>0. IInv /\ PageTyped /\ values = [c \in Conversation |-> values[c]] BY DEF AnswerInv, IInv
<1> DEFINE Fn == values' = [c \in Conversation |-> values'[c]]
<1>1. ASSUME NEW c, NEW v, values' = [values EXCEPT ![c] = v] PROVE Fn
  BY <1>0, <1>1
<1>2. values' = values => Fn BY <1>0
<1>3. ASSUME NEW c, NEW m, ClearShown(c, m)
      PROVE  Fn /\ \A d \in Conversation : values'[d] = values[d] \/ values'[d] = None
  BY <1>0, <1>3 DEF ClearShown
<1>4. ASSUME NEW c, NEW r, NEW m, NEW after, NEW composer, JoinRun(c, r, m, after, composer)
      PROVE  Whole'
  <2>1. conn' = [conv |-> c, run |-> r, from |-> after, pos |-> after, composer |-> composer]
    BY <1>4 DEF JoinRun
  <2>2. conn'.from = conn'.pos BY <2>1
  <2>3. conn' # None => conn' \in JoinedStream BY <1>0, PageTypedStep DEF PageTyped
  <2> QED BY <2>2, <2>3 DEF Whole, JoinedStream
<1>5. CASE \E x \in creating : CreateAnswered(x)
  BY <1>1, <1>2, <1>4, <1>5 DEF CreateAnswered
<1>6. CASE \E p \in probes : ProbeAnswered(p)
  BY <1>2, <1>4, <1>6 DEF ProbeAnswered, shown
<1>7. CASE \/ Backend \/ ToggleMode
           \/ \E c \in Conversation : Open(c)
           \/ \E r \in Run : Regenerate(r)
           \/ \E x \in creating : CreateRefused(x)
           \/ \E p \in probes : ProbeFailed(p)
           \/ \E x \in cancelling : CancelAnswered(x) \/ CancelFailed(x)
           \/ \E x \in closing : CloseFailed(x) \/ (CloseAnswered(x) /\ ~Ended(x.run))
           \/ StreamCloses \/ StreamBreaks \/ UNCHANGED vars
  <2>1. values' = values /\ conn' \in {conn, None}
    BY <1>7 DEF Backend, Produce, Finish, FailRun, ToggleMode, Open, Render, Regenerate, CreateRefused,
                ProbeFailed, CancelAnswered, CancelFailed, CloseFailed, CloseAnswered, StreamCloses,
                StreamBreaks, vars, hook, shown
  <2> QED BY <1>2, <2>1, WholeStays
<1>8. CASE Stop
  <2>1. conn' = None /\ (values' = values \/ ClearShown(active.conv, "research"))
    BY <1>8 DEF Stop, shown
  <2> QED BY <1>2, <1>3, <2>1, WholeStays
<1>9. CASE Reload
  BY <1>9, WholeStays DEF Reload
<1>10. ASSUME NEW r \in Run, Submit(r) PROVE Whole' /\ Fn
  <2>1. values' = [values EXCEPT ![view] = Optimistic(view)] /\ conn' = conn BY <1>10 DEF Submit, hook
  <2>2. \A c \in Conversation : \/ values'[c] = values[c] \/ values'[c].text = <<>>
    BY <1>0, <2>1 DEF Optimistic
  <2> QED BY <1>1, <2>1, <2>2, WholeStays
<1>11. ASSUME NEW x \in closing, CloseAnswered(x), Ended(x.run) PROVE Whole' /\ Fn
  <2>1. PICK c, m :
          Render(c, m, ClearActive(x.conv, x.run), conn, closing \ {x}, ClearStored(x.conv, x.run))
    BY <1>11 DEF CloseAnswered, Settle
  <2>2. conn' \in {conn, None} BY <2>1, Rendered
  <2>3. ClearShown(x.conv, run[x.run].mode) BY <1>11 DEF CloseAnswered
  <2> QED BY <1>3, <2>2, <2>3, WholeStays
<1>12. CASE ReceiveMessages \/ ReceiveProgress
  <2>1. HasEvent /\ conn' = Advanced /\ log' = log /\ NextEvent # "values"
    BY <1>12 DEF ReceiveMessages, ReceiveProgress, backend
  <2>2. Fn BY <1>1, <1>2, <1>12 DEF ReceiveMessages, ReceiveProgress, ApplyMessage
  <2> QED BY <2>1, <2>2, WholeReceived
<1>13. CASE ReceiveValues
  <2>1. HasEvent /\ conn' = Advanced /\ log' = log /\ values' = MergeValues(conn.conv, conn.run, conn.pos + 1)
    BY <1>13 DEF ReceiveValues, backend
  <2>2. Fn BY <1>1, <2>1 DEF MergeValues
  <2> QED BY <2>1, <2>2, WholeReceived
<1>14. CASE ReceiveEnd
  <2>1. HasEvent /\ log' = log /\ NextEvent # "values" BY <1>14 DEF ReceiveEnd, backend, Done
  <2>2. PICK c, m, s : Render(c, m, ClearActive(conn.conv, conn.run), Advanced, closing, s)
    BY <1>14 DEF ReceiveEnd, Settle
  <2>3. conn' = None \/ conn' = Advanced BY <2>2, Rendered
  <2>4. Fn BY <1>3, <1>14 DEF ReceiveEnd
  <2> QED BY <2>1, <2>3, <2>4, WholeReceived
<1> QED BY <1>5, <1>6, <1>7, <1>8, <1>9, <1>10, <1>11, <1>12, <1>13, <1>14
        DEF Next, User, Answer, Stream

(* What ends a chat is "done", after the state of its last step. *)
LEMMA DoneAfterState ==
  ASSUME AnswerInv, ReceiveEnd, NextEvent = "done", run[conn.run].mode = "chat", conn.from < conn.pos
  PROVE  log[conn.run][conn.pos] = "values"
<1> DEFINE r == conn.run
           k == conn.pos
           script == Script["chat"]
<1>1. conn \in JoinedStream /\ HasEvent BY ReceiveTyped DEF AnswerInv, IInv, ReceiveEnd
<1>2. r \in Run /\ k \in Nat /\ conn.from \in Nat BY <1>1 DEF JoinedStream
<1>3. log[r] \in Seq(Events \cup Done) BY <1>2 DEF AnswerInv, IInv, BackendTyped
<1>4. k + 1 \in 1..Len(log[r]) /\ log[r][k + 1] = "done" /\ k >= 1
  BY <1>1, <1>2, <1>3 DEF HasEvent, NextEvent
<1>5. run[r] # None BY <1>1 DEF AnswerInv, IInv, Cursors, Created, HasEvent
<1>6. k + 1 \in 1..Len(script) /\ \A j \in 1..(k + 1) : log[r][j] = script[j]
  BY <1>2, <1>4, <1>5 DEF AnswerInv, Scripted
<1>7. script[k + 1] = "done" /\ log[r][k] = script[k] BY <1>2, <1>4, <1>6
<1>8. \A i \in 2..Len(script) : script[i] = "done" => script[i - 1] = "values"
  BY ConstantsAssumption
<1>9. k + 1 \in 2..Len(script) /\ (k + 1) - 1 = k BY <1>2, <1>4, <1>6
<1> QED BY <1>7, <1>8, <1>9

(* A chat that completes on a stream that carried something leaves the     *)
(* whole of its answer on the page, once and in order, or nothing of any:  *)
(* for any scripts, and however often runs were rejoined, cancelled,       *)
(* cleared by late look-ups or followed by other submissions.              *)
THEOREM AnswerIsWhole == Spec => CompletedAnswerShown
<1>1. Init => AnswerInv
  <2> SUFFICES ASSUME Init PROVE AnswerInv OBVIOUS
  <2>1. /\ \A r \in Run : Scripted(r)
        /\ values = [c \in Conversation |-> values[c]] /\ Whole
    BY DEF Init, Scripted, Whole
  <2> QED BY <2>1, InitInv DEF AnswerInv
<1>2. AnswerInv /\ [Next]_vars => AnswerInv'
  <2> SUFFICES ASSUME AnswerInv, [Next]_vars PROVE AnswerInv' OBVIOUS
  <2>1. IInv'
    BY BackendStep, PageTypedStep, LogsStep, CreationsStep, CursorsStep, BackedStep DEF AnswerInv, IInv
  <2>2. \A r \in Run : Scripted(r)' BY ScriptedStep DEF AnswerInv
  <2>3. Whole' /\ values' = [c \in Conversation |-> values'[c]] BY WholeStep
  <2> QED BY <2>1, <2>2, <2>3 DEF AnswerInv
<1>3. AnswerInv => (ReceiveEnd /\ NextEvent = "done" /\ run[conn.run].mode = "chat" /\ conn.from < conn.pos
                      => \/ values[conn.conv] = None
                         \/ values[conn.conv].text \in {<<>>, Pieces(conn.run, conn.pos)})
  <2> SUFFICES ASSUME AnswerInv, ReceiveEnd, NextEvent = "done", run[conn.run].mode = "chat",
                      conn.from < conn.pos
               PROVE  \/ values[conn.conv] = None
                      \/ values[conn.conv].text \in {<<>>, Pieces(conn.run, conn.pos)}
    OBVIOUS
  <2>1. log[conn.run][conn.pos] = "values" BY DoneAfterState
  <2> QED BY <2>1 DEF AnswerInv, Whole, ReceiveEnd, HasEvent
<1>4. AnswerInv /\ [Next]_vars =>
        [ReceiveEnd /\ NextEvent = "done" /\ run[conn.run].mode = "chat" /\ conn.from < conn.pos =>
           \/ values[conn.conv] = None
           \/ values[conn.conv].text \in {<<>>, Pieces(conn.run, conn.pos)}]_vars
  BY <1>3
<1> QED BY <1>1, <1>2, <1>4, PTL DEF Spec, CompletedAnswerShown
=============================================================================
