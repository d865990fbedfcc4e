--------------------------- MODULE ChatRun_proofs ---------------------------
(***************************************************************************)
(* Safety of ChatRun for any number of requests, processes and readers.    *)
(***************************************************************************)
EXTENDS ChatRun, TLAPS

(* What a stream contains stays where it is. *)
Grows(r) ==
  \A i \in DOMAIN stream[r] : i \in DOMAIN stream'[r] /\ stream'[r][i] = stream[r][i]

LEMMA AppendKeeps ==
  ASSUME NEW S, NEW s \in Seq(S), NEW e \in S
  PROVE  /\ Append(s, e) \in Seq(S)
         /\ Len(Append(s, e)) = Len(s) + 1
         /\ Append(s, e)[Len(s) + 1] = e
         /\ \A i \in DOMAIN s : i \in DOMAIN Append(s, e) /\ Append(s, e)[i] = s[i]
  OBVIOUS

LEMMA EmitGrows ==
  ASSUME TypeOK, NEW r \in Run, NEW event \in Events, Emit(r, event)
  PROVE  /\ stream' \in [Run -> Seq(Events)]
         /\ \A q \in Run : Grows(q)
         /\ Seen(r, Len(stream[r]), event)'
<1>1. stream \in [Run -> Seq(Events)] BY DEF TypeOK
<1>2. stream' = [stream EXCEPT ![r] = Append(@, event)] BY DEF Emit
<1>3. stream[r] \in Seq(Events) BY <1>1
<1>4. /\ Append(stream[r], event) \in Seq(Events)
      /\ Len(Append(stream[r], event)) = Len(stream[r]) + 1
      /\ Append(stream[r], event)[Len(stream[r]) + 1] = event
      /\ \A i \in DOMAIN stream[r] :
           i \in DOMAIN Append(stream[r], event) /\ Append(stream[r], event)[i] = stream[r][i]
  BY <1>3, AppendKeeps
<1>5. stream'[r] = Append(stream[r], event) /\ \A q \in Run \ {r} : stream'[q] = stream[q]
  BY <1>1, <1>2
<1>6. stream' \in [Run -> Seq(Events)] BY <1>1, <1>2, <1>4
<1>7. \A q \in Run : Grows(q) BY <1>4, <1>5 DEF Grows
<1>8. Len(stream[r]) \in Nat /\ DOMAIN stream'[r] = 1..(Len(stream[r]) + 1)
  BY <1>3, <1>4, <1>5
<1>9. Seen(r, Len(stream[r]), event)' BY <1>4, <1>5, <1>8 DEF Seen
<1> QED BY <1>6, <1>7, <1>9

LEMMA MineIsRun ==
  ASSUME TypeOK, NEW b \in Runner, ~At(b, "idle")
  PROVE  Mine(b) \in Run
  BY DEF TypeOK, RunnersTyped, Working, At, Mine

(* How the loop of a runner changes: it goes on with its run, leaves it,   *)
(* takes a part, stops beating, or claims a run.                           *)
LEMMA GoToTyped ==
  ASSUME RunnersTyped, NEW b \in Runner, Working(b), NEW pc \in Body \cup Handler, GoTo(b, pc)
  PROVE  RunnersTyped'
<1>1. runner' = [runner EXCEPT ![b].pc = pc] BY DEF GoTo
<1>2. \A a \in Runner : runner'[a].run = runner[a].run /\ (a # b => runner'[a] = runner[a])
  BY <1>1 DEF RunnersTyped
<1>3. runner' \in [Runner -> [pc : {"idle"} \cup Body \cup Handler, run : Run \cup {None},
                              parts : 0..MaxParts, beating : BOOLEAN]]
  BY <1>1 DEF RunnersTyped
<1> QED BY <1>2, <1>3 DEF RunnersTyped, Working

LEMMA LeaveTyped ==
  ASSUME RunnersTyped, NEW b \in Runner, Leave(b)
  PROVE  RunnersTyped'
<1>1. Idle \in [pc : {"idle"} \cup Body \cup Handler, run : Run \cup {None},
                parts : 0..MaxParts, beating : BOOLEAN]
  BY BoundsAssumption DEF Idle
<1>2. runner' = [runner EXCEPT ![b] = Idle] BY DEF Leave
<1>3. runner'[b].pc = "idle" /\ \A a \in Runner \ {b} : runner'[a] = runner[a]
  BY <1>2 DEF RunnersTyped, Idle
<1> QED BY <1>1, <1>2, <1>3 DEF RunnersTyped, Working

LEMMA ReaderMoves ==
  ASSUME ReadersTyped, NEW c \in Reader, ~ReaderAt(c, "off"),
         NEW pc \in {"replay", "tail", "poll", "ended"}, NEW n \in Nat,
         NEW saw \in {None, "ABSENT"} \cup Active \cup Terminal,
         \/ reader' = [reader EXCEPT ![c].cursor = n, ![c].pc = pc]
         \/ reader' = [reader EXCEPT ![c].saw = saw, ![c].pc = pc]
         \/ reader' = [reader EXCEPT ![c].pc = pc]
  PROVE  ReadersTyped'
<1>1. reader' \in [Reader -> [pc : {"off", "replay", "tail", "poll", "ended"},
                              run : Run \cup {None}, cursor : Nat,
                              saw : {None, "ABSENT"} \cup Active \cup Terminal]]
  BY DEF ReadersTyped
<1>2. \A d \in Reader : reader'[d].run = reader[d].run /\ (d # c => reader'[d] = reader[d])
  BY DEF ReadersTyped
<1>3. reader[c].run \in Run BY DEF ReadersTyped
<1> QED BY <1>1, <1>2, <1>3 DEF ReadersTyped, ReaderAt

-----------------------------------------------------------------------------
LEMMA TypeInit == Init => TypeOK
<1> SUFFICES ASSUME Init PROVE TypeOK OBVIOUS
<1>1. RowsTyped BY BoundsAssumption DEF Init, RowsTyped, Active, Terminal
<1>2. RequestsTyped BY DEF Init, RequestsTyped
<1>3. RunnersTyped BY BoundsAssumption DEF Init, RunnersTyped, Idle, Working
<1>4. ReadersTyped BY DEF Init, ReadersTyped, ReaderAt
<1>5. stream \in [Run -> Seq(Events)] BY DEF Init
<1> QED BY <1>1, <1>2, <1>3, <1>4, <1>5 DEF TypeOK

(* The rows, by the fields each action writes. *)
LEMMA RowsTypedStep ==
  ASSUME TypeOK, Next
  PROVE  RowsTyped'
<1>1. ASSUME NEW r \in Run, Submit(r) PROVE RowsTyped'
  BY <1>1
  DEF Submit, rows, SetReport, Asked, TypeOK, RowsTyped, Active, Terminal
<1>2. ASSUME NEW r \in Run, Check(r) PROVE RowsTyped'
  <2>1. status' = status /\ report' \in [Run -> {"ABSENT"} \cup Active \cup Terminal]
    BY <1>2 DEF Check, rows, SetReport, Asked, TypeOK, RowsTyped
  <2> QED BY <1>2, <2>1 DEF Check, rows, TypeOK, RowsTyped
<1>3. ASSUME NEW r \in Run, Insert(r) PROVE RowsTyped'
  <2>1. CASE AddRow(r)
    <3>1. order' \in Seq(Run) BY <2>1 DEF AddRow, TypeOK, RowsTyped
    <3>2. status' = [status EXCEPT ![r] = "PENDING"] BY <2>1 DEF AddRow, SetStatus
    <3> QED BY <2>1, <3>1, <3>2 DEF AddRow, reports, TypeOK, RowsTyped, Active
  <2>2. CASE UNCHANGED <<rows, reports, faults>>
    BY <2>2 DEF rows, reports, TypeOK, RowsTyped
  <2> QED BY <1>3, <2>1, <2>2 DEF Insert
<1>4. ASSUME NEW r \in Run, Persist(r) PROVE RowsTyped'
  BY <1>4
  DEF Persist, reports, SetStatus, Asked, TypeOK, RowsTyped, Active, Terminal
<1>5. ASSUME NEW r \in Run, FailSubmission(r) PROVE RowsTyped'
  BY <1>5
  DEF FailSubmission, rows, SetReport, Asked, TypeOK, RowsTyped, Active,
      Terminal
<1>6. ASSUME NEW r \in Run, CancelBegin(r) PROVE RowsTyped'
  BY <1>6
  DEF CancelBegin, rows, reports, CancelAt, TypeOK, RowsTyped, Active, Terminal
<1>7. ASSUME NEW r \in Run, CancelEvent(r) PROVE RowsTyped'
  BY <1>7
  DEF CancelEvent, rows, reports, CancelAt, TypeOK, RowsTyped, Active, Terminal
<1>8. ASSUME NEW r \in Run, CancelRead(r) PROVE RowsTyped'
  BY <1>8
  DEF CancelRead, rows, reports, CancelAt, CancelNext, TypeOK, RowsTyped,
      Active, Terminal
<1>9. ASSUME NEW r \in Run, CancelWrite(r) PROVE RowsTyped'
  BY <1>9
  DEF CancelWrite, reports, SetStatus, CancelAt, CancelNext, TypeOK, RowsTyped,
      Active, Terminal
<1>10. ASSUME NEW r \in Run, CancelReport(r) PROVE RowsTyped'
  BY <1>10
  DEF CancelReport, rows, SetReport, CancelAt, TypeOK, RowsTyped, Active,
      Terminal
<1>11. ASSUME NEW r \in Run, RequestLost(r) PROVE RowsTyped'
  BY <1>11, BoundsAssumption
  DEF RequestLost, rows, reports, Fault, Asked, CancelAt, TypeOK, RowsTyped,
      Active, Terminal
<1>12. ASSUME NEW r \in Run, Lapse(r) PROVE RowsTyped'
  BY <1>12
  DEF Lapse, reports, requests, Working, TimesOut, TypeOK, RowsTyped, Active,
      Terminal
<1>13. ASSUME NEW r \in Run, Stall(r) PROVE RowsTyped'
  BY <1>13, BoundsAssumption
  DEF Stall, reports, requests, Working, Fault, TimesOut, TypeOK, RowsTyped,
      Active, Terminal
<1>14. ASSUME NEW b \in Runner, StartReport(b) PROVE RowsTyped'
  BY <1>14
  DEF StartReport, rows, requests, SetReport, At, Mine, TypeOK, RowsTyped,
      Active, Terminal
<1>15. ASSUME NEW b \in Runner, StatusEvent(b) PROVE RowsTyped'
  BY <1>15
  DEF StatusEvent, rows, reports, requests, At, Mine, TypeOK, RowsTyped,
      Active, Terminal
<1>16. ASSUME NEW b \in Runner, NextPart(b) PROVE RowsTyped'
  BY <1>16
  DEF NextPart, rows, reports, requests, At, Mine, TypeOK, RowsTyped, Active,
      Terminal
<1>17. ASSUME NEW b \in Runner, AppendPart(b) PROVE RowsTyped'
  BY <1>17
  DEF AppendPart, rows, reports, requests, At, Mine, TypeOK, RowsTyped, Active,
      Terminal
<1>18. ASSUME NEW b \in Runner, EndOfGraph(b) PROVE RowsTyped'
  BY <1>18
  DEF EndOfGraph, rows, reports, requests, At, Mine, TypeOK, RowsTyped, Active,
      Terminal
<1>19. ASSUME NEW b \in Runner, CompleteReport(b) PROVE RowsTyped'
  BY <1>19
  DEF CompleteReport, rows, requests, SetReport, At, Mine, TypeOK, RowsTyped,
      Active, Terminal
<1>20. ASSUME NEW b \in Runner, AppendAnswer(b) PROVE RowsTyped'
  <2>1. answered' \subseteq Run
    BY <1>20, MineIsRun DEF AppendAnswer, At, TypeOK, RowsTyped
  <2> QED BY <1>20, <2>1 DEF AppendAnswer, rows, TypeOK, RowsTyped
<1>21. ASSUME NEW b \in Runner, DoneEvent(b) PROVE RowsTyped'
  BY <1>21
  DEF DoneEvent, rows, reports, requests, At, Mine, TypeOK, RowsTyped, Active,
      Terminal
<1>22. ASSUME NEW b \in Runner, Complete(b) PROVE RowsTyped'
  BY <1>22
  DEF Complete, reports, requests, SetStatus, At, Mine, TypeOK, RowsTyped,
      Active, Terminal
<1>23. ASSUME NEW b \in Runner, HandleError(b) PROVE RowsTyped'
  BY <1>23
  DEF HandleError, rows, reports, requests, At, Mine, TypeOK, RowsTyped,
      Active, Terminal
<1>24. ASSUME NEW b \in Runner, ErrorEvent(b) PROVE RowsTyped'
  BY <1>24
  DEF ErrorEvent, rows, reports, requests, At, Mine, TypeOK, RowsTyped, Active,
      Terminal
<1>25. ASSUME NEW b \in Runner, Fail(b) PROVE RowsTyped'
  BY <1>25
  DEF Fail, reports, requests, SetStatus, At, Mine, TypeOK, RowsTyped, Active,
      Terminal
<1>26. ASSUME NEW b \in Runner, FailReport(b) PROVE RowsTyped'
  BY <1>26
  DEF FailReport, rows, requests, SetReport, At, Mine, TypeOK, RowsTyped,
      Active, Terminal
<1>27. ASSUME NEW b \in Runner, StopRead(b) PROVE RowsTyped'
  BY <1>27
  DEF StopRead, rows, reports, requests, At, Mine, TypeOK, RowsTyped, Active,
      Terminal
<1>28. ASSUME NEW b \in Runner, StopWrite(b) PROVE RowsTyped'
  BY <1>28
  DEF StopWrite, reports, requests, SetStatus, At, Mine, TypeOK, RowsTyped,
      Active, Terminal
<1>29. ASSUME NEW b \in Runner, StopReport(b) PROVE RowsTyped'
  BY <1>29
  DEF StopReport, rows, requests, SetReport, At, Mine, TypeOK, RowsTyped,
      Active, Terminal
<1>30. ASSUME NEW b \in Runner, Raise(b) PROVE RowsTyped'
  BY <1>30
  DEF Raise, rows, reports, requests, TypeOK, RowsTyped, Active, Terminal
<1>31. ASSUME NEW b \in Runner, Heartbeat(b) PROVE RowsTyped'
  BY <1>31
  DEF Heartbeat, reports, requests, Working, TypeOK, RowsTyped, Active,
      Terminal
<1>32. ASSUME NEW b \in Runner, Shutdown(b) PROVE RowsTyped'
  BY <1>32, BoundsAssumption
  DEF Shutdown, rows, reports, requests, Fault, TypeOK, RowsTyped, Active,
      Terminal
<1>33. ASSUME NEW b \in Runner, Crash(b) PROVE RowsTyped'
  BY <1>33, BoundsAssumption
  DEF Crash, rows, reports, requests, Working, Fault, TypeOK, RowsTyped,
      Active, Terminal
<1>34. ASSUME NEW b \in Runner, NEW r \in Run, Claim(b, r) PROVE RowsTyped'
  BY <1>34, NoneAssumption
  DEF Claim, reports, requests, Working, SetStatus, Take, TypeOK, RowsTyped,
      Active, Terminal
<1>35. ASSUME NEW r \in Run, NEW b \in Runner, CancelSignal(r, b) PROVE RowsTyped'
  BY <1>35
  DEF CancelSignal, rows, reports, Working, CancelAt, TypeOK, RowsTyped,
      Active, Terminal
<1>36. ASSUME NEW c \in Reader, Replay(c) PROVE RowsTyped'
  BY <1>36
  DEF Replay, rows, reports, requests, ReadTo, TypeOK, RowsTyped, Active,
      Terminal
<1>37. ASSUME NEW c \in Reader, Follow(c) PROVE RowsTyped'
  BY <1>37
  DEF Follow, rows, reports, requests, ReadTo, TypeOK, RowsTyped, Active,
      Terminal
<1>38. ASSUME NEW c \in Reader, TailEmpty(c) PROVE RowsTyped'
  BY <1>38
  DEF TailEmpty, rows, reports, requests, TypeOK, RowsTyped, Active, Terminal
<1>39. ASSUME NEW c \in Reader, Poll(c) PROVE RowsTyped'
  BY <1>39
  DEF Poll, rows, reports, requests, PollTo, TypeOK, RowsTyped, Active,
      Terminal
<1>40. ASSUME NEW c \in Reader, NEW r \in Run, Join(c, r) PROVE RowsTyped'
  BY <1>40
  DEF Join, rows, reports, requests, TypeOK, RowsTyped, Active, Terminal
<1>41. ASSUME NEW b \in Runner, Announce(b) PROVE RowsTyped'
  BY <1>41
  DEF Announce, rows, reports, requests, At, Mine, TypeOK, RowsTyped,
      Active, Terminal
<1> QED
  BY <1>1, <1>2, <1>3, <1>4, <1>5, <1>6, <1>7, <1>8, <1>9, <1>10, <1>11, <1>12,
      <1>13, <1>14, <1>15, <1>16, <1>17, <1>18, <1>19, <1>20, <1>21, <1>22,
      <1>23, <1>24, <1>25, <1>26, <1>27, <1>28, <1>29, <1>30, <1>31, <1>32,
      <1>33, <1>34, <1>35, <1>36, <1>37, <1>38, <1>39, <1>40, <1>41
  DEF Next, Submission, Cancellation, Execution, Following

LEMMA RequestsTypedStep ==
  ASSUME TypeOK, Next
  PROVE  RequestsTyped'
<1>1. ASSUME NEW r \in Run, Submit(r) PROVE RequestsTyped'
  BY <1>1
  DEF Submit, rows, SetReport, Asked, TypeOK, RequestsTyped
<1>2. ASSUME NEW r \in Run, Check(r) PROVE RequestsTyped'
  BY <1>2
  DEF Check, rows, SetReport, Asked, TypeOK, RequestsTyped
<1>3. ASSUME NEW r \in Run, Insert(r) PROVE RequestsTyped'
  BY <1>3
  DEF Insert, rows, reports, SetStatus, Asked, AddRow, TypeOK, RequestsTyped
<1>4. ASSUME NEW r \in Run, Persist(r) PROVE RequestsTyped'
  BY <1>4
  DEF Persist, reports, SetStatus, Asked, TypeOK, RequestsTyped
<1>5. ASSUME NEW r \in Run, FailSubmission(r) PROVE RequestsTyped'
  BY <1>5
  DEF FailSubmission, rows, SetReport, Asked, TypeOK, RequestsTyped
<1>6. ASSUME NEW r \in Run, CancelBegin(r) PROVE RequestsTyped'
  BY <1>6
  DEF CancelBegin, rows, reports, CancelAt, TypeOK, RequestsTyped
<1>7. ASSUME NEW r \in Run, CancelEvent(r) PROVE RequestsTyped'
  BY <1>7
  DEF CancelEvent, rows, reports, CancelAt, TypeOK, RequestsTyped
<1>8. ASSUME NEW r \in Run, CancelRead(r) PROVE RequestsTyped'
  BY <1>8
  DEF CancelRead, rows, reports, CancelAt, CancelNext, TypeOK, RequestsTyped
<1>9. ASSUME NEW r \in Run, CancelWrite(r) PROVE RequestsTyped'
  BY <1>9
  DEF CancelWrite, reports, SetStatus, CancelAt, CancelNext, TypeOK,
      RequestsTyped
<1>10. ASSUME NEW r \in Run, CancelReport(r) PROVE RequestsTyped'
  BY <1>10
  DEF CancelReport, rows, SetReport, CancelAt, TypeOK, RequestsTyped
<1>11. ASSUME NEW r \in Run, RequestLost(r) PROVE RequestsTyped'
  BY <1>11
  DEF RequestLost, rows, reports, Fault, Asked, CancelAt, TypeOK, RequestsTyped
<1>12. ASSUME NEW r \in Run, Lapse(r) PROVE RequestsTyped'
  BY <1>12
  DEF Lapse, reports, requests, TimesOut, TypeOK, RequestsTyped
<1>13. ASSUME NEW r \in Run, Stall(r) PROVE RequestsTyped'
  BY <1>13
  DEF Stall, reports, requests, Fault, TimesOut, TypeOK, RequestsTyped
<1>14. ASSUME NEW b \in Runner, StartReport(b) PROVE RequestsTyped'
  BY <1>14
  DEF StartReport, rows, requests, SetReport, TypeOK, RequestsTyped
<1>15. ASSUME NEW b \in Runner, StatusEvent(b) PROVE RequestsTyped'
  BY <1>15
  DEF StatusEvent, rows, reports, requests, TypeOK, RequestsTyped
<1>16. ASSUME NEW b \in Runner, NextPart(b) PROVE RequestsTyped'
  BY <1>16
  DEF NextPart, rows, reports, requests, TypeOK, RequestsTyped
<1>17. ASSUME NEW b \in Runner, AppendPart(b) PROVE RequestsTyped'
  BY <1>17
  DEF AppendPart, rows, reports, requests, TypeOK, RequestsTyped
<1>18. ASSUME NEW b \in Runner, EndOfGraph(b) PROVE RequestsTyped'
  BY <1>18
  DEF EndOfGraph, rows, reports, requests, TypeOK, RequestsTyped
<1>19. ASSUME NEW b \in Runner, CompleteReport(b) PROVE RequestsTyped'
  BY <1>19
  DEF CompleteReport, rows, requests, SetReport, TypeOK, RequestsTyped
<1>20. ASSUME NEW b \in Runner, AppendAnswer(b) PROVE RequestsTyped'
  BY <1>20
  DEF AppendAnswer, rows, requests, TypeOK, RequestsTyped
<1>21. ASSUME NEW b \in Runner, DoneEvent(b) PROVE RequestsTyped'
  BY <1>21
  DEF DoneEvent, rows, reports, requests, TypeOK, RequestsTyped
<1>22. ASSUME NEW b \in Runner, Complete(b) PROVE RequestsTyped'
  BY <1>22
  DEF Complete, reports, requests, SetStatus, TypeOK, RequestsTyped
<1>23. ASSUME NEW b \in Runner, HandleError(b) PROVE RequestsTyped'
  BY <1>23
  DEF HandleError, rows, reports, requests, TypeOK, RequestsTyped
<1>24. ASSUME NEW b \in Runner, ErrorEvent(b) PROVE RequestsTyped'
  BY <1>24
  DEF ErrorEvent, rows, reports, requests, TypeOK, RequestsTyped
<1>25. ASSUME NEW b \in Runner, Fail(b) PROVE RequestsTyped'
  BY <1>25
  DEF Fail, reports, requests, SetStatus, TypeOK, RequestsTyped
<1>26. ASSUME NEW b \in Runner, FailReport(b) PROVE RequestsTyped'
  BY <1>26
  DEF FailReport, rows, requests, SetReport, TypeOK, RequestsTyped
<1>27. ASSUME NEW b \in Runner, StopRead(b) PROVE RequestsTyped'
  BY <1>27
  DEF StopRead, rows, reports, requests, TypeOK, RequestsTyped
<1>28. ASSUME NEW b \in Runner, StopWrite(b) PROVE RequestsTyped'
  BY <1>28
  DEF StopWrite, reports, requests, SetStatus, TypeOK, RequestsTyped
<1>29. ASSUME NEW b \in Runner, StopReport(b) PROVE RequestsTyped'
  BY <1>29
  DEF StopReport, rows, requests, SetReport, TypeOK, RequestsTyped
<1>30. ASSUME NEW b \in Runner, Raise(b) PROVE RequestsTyped'
  BY <1>30
  DEF Raise, rows, reports, requests, TypeOK, RequestsTyped
<1>31. ASSUME NEW b \in Runner, Heartbeat(b) PROVE RequestsTyped'
  BY <1>31
  DEF Heartbeat, reports, requests, TypeOK, RequestsTyped
<1>32. ASSUME NEW b \in Runner, Shutdown(b) PROVE RequestsTyped'
  BY <1>32
  DEF Shutdown, rows, reports, requests, Fault, TypeOK, RequestsTyped
<1>33. ASSUME NEW b \in Runner, Crash(b) PROVE RequestsTyped'
  BY <1>33
  DEF Crash, rows, reports, requests, Fault, TypeOK, RequestsTyped
<1>34. ASSUME NEW b \in Runner, NEW r \in Run, Claim(b, r) PROVE RequestsTyped'
  BY <1>34
  DEF Claim, reports, requests, SetStatus, Take, TypeOK, RequestsTyped
<1>35. ASSUME NEW r \in Run, NEW b \in Runner, CancelSignal(r, b) PROVE RequestsTyped'
  BY <1>35
  DEF CancelSignal, rows, reports, CancelAt, TypeOK, RequestsTyped
<1>36. ASSUME NEW c \in Reader, Replay(c) PROVE RequestsTyped'
  BY <1>36
  DEF Replay, rows, reports, requests, ReadTo, TypeOK, RequestsTyped
<1>37. ASSUME NEW c \in Reader, Follow(c) PROVE RequestsTyped'
  BY <1>37
  DEF Follow, rows, reports, requests, ReadTo, TypeOK, RequestsTyped
<1>38. ASSUME NEW c \in Reader, TailEmpty(c) PROVE RequestsTyped'
  BY <1>38
  DEF TailEmpty, rows, reports, requests, TypeOK, RequestsTyped
<1>39. ASSUME NEW c \in Reader, Poll(c) PROVE RequestsTyped'
  BY <1>39
  DEF Poll, rows, reports, requests, PollTo, TypeOK, RequestsTyped
<1>40. ASSUME NEW c \in Reader, NEW r \in Run, Join(c, r) PROVE RequestsTyped'
  BY <1>40
  DEF Join, rows, reports, requests, TypeOK, RequestsTyped
<1>41. ASSUME NEW b \in Runner, Announce(b) PROVE RequestsTyped'
  BY <1>41
  DEF Announce, rows, reports, requests, TypeOK, RequestsTyped
<1> QED
  BY <1>1, <1>2, <1>3, <1>4, <1>5, <1>6, <1>7, <1>8, <1>9, <1>10, <1>11, <1>12,
      <1>13, <1>14, <1>15, <1>16, <1>17, <1>18, <1>19, <1>20, <1>21, <1>22,
      <1>23, <1>24, <1>25, <1>26, <1>27, <1>28, <1>29, <1>30, <1>31, <1>32,
      <1>33, <1>34, <1>35, <1>36, <1>37, <1>38, <1>39, <1>40, <1>41
  DEF Next, Submission, Cancellation, Execution, Following

LEMMA RunnersTypedStep ==
  ASSUME TypeOK, Next
  PROVE  RunnersTyped'
<1>1. ASSUME NEW r \in Run, Submit(r) PROVE RunnersTyped'
  BY <1>1
  DEF Submit, Asked, TypeOK, RunnersTyped, Working
<1>2. ASSUME NEW r \in Run, Check(r) PROVE RunnersTyped'
  BY <1>2
  DEF Check, Asked, TypeOK, RunnersTyped, Working
<1>3. ASSUME NEW r \in Run, Insert(r) PROVE RunnersTyped'
  BY <1>3
  DEF Insert, Asked, AddRow, TypeOK, RunnersTyped, Working
<1>4. ASSUME NEW r \in Run, Persist(r) PROVE RunnersTyped'
  BY <1>4
  DEF Persist, Asked, TypeOK, RunnersTyped, Working
<1>5. ASSUME NEW r \in Run, FailSubmission(r) PROVE RunnersTyped'
  BY <1>5
  DEF FailSubmission, Asked, TypeOK, RunnersTyped, Working
<1>6. ASSUME NEW r \in Run, CancelBegin(r) PROVE RunnersTyped'
  BY <1>6
  DEF CancelBegin, CancelAt, TypeOK, RunnersTyped, Working
<1>7. ASSUME NEW r \in Run, CancelEvent(r) PROVE RunnersTyped'
  BY <1>7
  DEF CancelEvent, CancelAt, TypeOK, RunnersTyped, Working
<1>8. ASSUME NEW r \in Run, CancelRead(r) PROVE RunnersTyped'
  BY <1>8
  DEF CancelRead, CancelAt, TypeOK, RunnersTyped, Working
<1>9. ASSUME NEW r \in Run, CancelWrite(r) PROVE RunnersTyped'
  BY <1>9
  DEF CancelWrite, CancelAt, TypeOK, RunnersTyped, Working
<1>10. ASSUME NEW r \in Run, CancelReport(r) PROVE RunnersTyped'
  BY <1>10
  DEF CancelReport, CancelAt, TypeOK, RunnersTyped, Working
<1>11. ASSUME NEW r \in Run, RequestLost(r) PROVE RunnersTyped'
  BY <1>11
  DEF RequestLost, Asked, CancelAt, TypeOK, RunnersTyped, Working
<1>12. ASSUME NEW r \in Run, Lapse(r) PROVE RunnersTyped'
  BY <1>12
  DEF Lapse, requests, Executes, TimesOut, TypeOK, RunnersTyped, Working
<1>13. ASSUME NEW r \in Run, Stall(r) PROVE RunnersTyped'
  BY <1>13
  DEF Stall, requests, Executes, TimesOut, TypeOK, RunnersTyped, Working
<1>14. ASSUME NEW b \in Runner, StartReport(b) PROVE RunnersTyped'
  BY <1>14, GoToTyped
  DEF StartReport, Body, Handler, requests, At, TypeOK, RunnersTyped, Working
<1>15. ASSUME NEW b \in Runner, StatusEvent(b) PROVE RunnersTyped'
  BY <1>15, GoToTyped
  DEF StatusEvent, Body, Handler, requests, At, TypeOK, RunnersTyped, Working
<1>16. ASSUME NEW b \in Runner, NextPart(b) PROVE RunnersTyped'
  BY <1>16, LeaveTyped
  DEF NextPart, requests, At, TypeOK, RunnersTyped, Working
<1>17. ASSUME NEW b \in Runner, AppendPart(b) PROVE RunnersTyped'
  BY <1>17, GoToTyped
  DEF AppendPart, Body, Handler, requests, At, TypeOK, RunnersTyped, Working
<1>18. ASSUME NEW b \in Runner, EndOfGraph(b) PROVE RunnersTyped'
  BY <1>18, GoToTyped, LeaveTyped
  DEF EndOfGraph, Body, Handler, requests, At, TypeOK, RunnersTyped, Working
<1>19. ASSUME NEW b \in Runner, CompleteReport(b) PROVE RunnersTyped'
  BY <1>19, GoToTyped
  DEF CompleteReport, Body, Handler, requests, At, TypeOK, RunnersTyped,
      Working
<1>20. ASSUME NEW b \in Runner, AppendAnswer(b) PROVE RunnersTyped'
  BY <1>20, GoToTyped
  DEF AppendAnswer, Body, Handler, requests, At, TypeOK, RunnersTyped, Working
<1>21. ASSUME NEW b \in Runner, DoneEvent(b) PROVE RunnersTyped'
  BY <1>21, GoToTyped
  DEF DoneEvent, Body, Handler, requests, At, TypeOK, RunnersTyped, Working
<1>22. ASSUME NEW b \in Runner, Complete(b) PROVE RunnersTyped'
  BY <1>22, GoToTyped
  DEF Complete, Body, Handler, requests, At, TypeOK, RunnersTyped, Working
<1>23. ASSUME NEW b \in Runner, HandleError(b) PROVE RunnersTyped'
  BY <1>23, GoToTyped, LeaveTyped
  DEF HandleError, Body, Handler, requests, At, TypeOK, RunnersTyped, Working
<1>24. ASSUME NEW b \in Runner, ErrorEvent(b) PROVE RunnersTyped'
  BY <1>24, GoToTyped
  DEF ErrorEvent, Body, Handler, requests, At, TypeOK, RunnersTyped, Working
<1>25. ASSUME NEW b \in Runner, Fail(b) PROVE RunnersTyped'
  BY <1>25, GoToTyped, LeaveTyped
  DEF Fail, Body, Handler, requests, At, TypeOK, RunnersTyped, Working
<1>26. ASSUME NEW b \in Runner, FailReport(b) PROVE RunnersTyped'
  BY <1>26, LeaveTyped
  DEF FailReport, requests, At, TypeOK, RunnersTyped, Working
<1>27. ASSUME NEW b \in Runner, StopRead(b) PROVE RunnersTyped'
  BY <1>27, GoToTyped, LeaveTyped
  DEF StopRead, Body, Handler, requests, At, StopNext, TypeOK, RunnersTyped,
      Working
<1>28. ASSUME NEW b \in Runner, StopWrite(b) PROVE RunnersTyped'
  BY <1>28, GoToTyped, LeaveTyped
  DEF StopWrite, Body, Handler, requests, At, StopNext, TypeOK, RunnersTyped,
      Working
<1>29. ASSUME NEW b \in Runner, StopReport(b) PROVE RunnersTyped'
  BY <1>29, LeaveTyped
  DEF StopReport, requests, At, TypeOK, RunnersTyped, Working
<1>30. ASSUME NEW b \in Runner, Raise(b) PROVE RunnersTyped'
  BY <1>30, GoToTyped
  DEF Raise, Handler, requests, Body, TypeOK, RunnersTyped, Working
<1>31. ASSUME NEW b \in Runner, Heartbeat(b) PROVE RunnersTyped'
  <2>1. runner' = runner \/ runner' = [runner EXCEPT ![b].beating = FALSE]
    BY <1>31 DEF Heartbeat
  <2> QED BY <2>1 DEF TypeOK, RunnersTyped, Working
<1>32. ASSUME NEW b \in Runner, Shutdown(b) PROVE RunnersTyped'
  BY <1>32, GoToTyped, LeaveTyped
  DEF Shutdown, requests, Body, Handler, Interrupt, TypeOK, RunnersTyped,
      Working
<1>33. ASSUME NEW b \in Runner, Crash(b) PROVE RunnersTyped'
  BY <1>33, LeaveTyped
  DEF Crash, requests, TypeOK, RunnersTyped, Working
<1>34. ASSUME NEW b \in Runner, NEW r \in Run, Claim(b, r) PROVE RunnersTyped'
  <2> DEFINE claimed == [pc |-> IF r \in Research THEN "start" ELSE "status",
                         run |-> r, parts |-> 0, beating |-> TRUE]
  <2>1. runner' = [runner EXCEPT ![b] = claimed] BY <1>34 DEF Claim, Take
  <2>2. claimed \in [pc : {"idle"} \cup Body \cup Handler, run : Run \cup {None},
                     parts : 0..MaxParts, beating : BOOLEAN]
    BY BoundsAssumption DEF Body
  <2>3. claimed.run \in Run OBVIOUS
  <2> QED BY <2>1, <2>2, <2>3 DEF TypeOK, RunnersTyped, Working
<1>35. ASSUME NEW r \in Run, NEW b \in Runner, CancelSignal(r, b) PROVE RunnersTyped'
  BY <1>35, GoToTyped, LeaveTyped
  DEF CancelSignal, Executes, Body, Handler, Interrupt, CancelAt, TypeOK,
      RunnersTyped, Working
<1>36. ASSUME NEW c \in Reader, Replay(c) PROVE RunnersTyped'
  BY <1>36
  DEF Replay, requests, ReadTo, TypeOK, RunnersTyped, Working
<1>37. ASSUME NEW c \in Reader, Follow(c) PROVE RunnersTyped'
  BY <1>37
  DEF Follow, requests, ReadTo, TypeOK, RunnersTyped, Working
<1>38. ASSUME NEW c \in Reader, TailEmpty(c) PROVE RunnersTyped'
  BY <1>38
  DEF TailEmpty, requests, TypeOK, RunnersTyped, Working
<1>39. ASSUME NEW c \in Reader, Poll(c) PROVE RunnersTyped'
  BY <1>39
  DEF Poll, requests, PollTo, TypeOK, RunnersTyped, Working
<1>40. ASSUME NEW c \in Reader, NEW r \in Run, Join(c, r) PROVE RunnersTyped'
  BY <1>40
  DEF Join, requests, TypeOK, RunnersTyped, Working
<1>41. ASSUME NEW b \in Runner, Announce(b) PROVE RunnersTyped'
  BY <1>41, LeaveTyped
  DEF Announce, requests, At, TypeOK, RunnersTyped, Working
<1> QED
  BY <1>1, <1>2, <1>3, <1>4, <1>5, <1>6, <1>7, <1>8, <1>9, <1>10, <1>11, <1>12,
      <1>13, <1>14, <1>15, <1>16, <1>17, <1>18, <1>19, <1>20, <1>21, <1>22,
      <1>23, <1>24, <1>25, <1>26, <1>27, <1>28, <1>29, <1>30, <1>31, <1>32,
      <1>33, <1>34, <1>35, <1>36, <1>37, <1>38, <1>39, <1>40, <1>41
  DEF Next, Submission, Cancellation, Execution, Following

LEMMA ReadersTypedStep ==
  ASSUME TypeOK, Next
  PROVE  ReadersTyped'
<1>1. ASSUME NEW r \in Run, Submit(r) PROVE ReadersTyped'
  BY <1>1
  DEF Submit, rows, SetReport, Asked, TypeOK, ReadersTyped, ReaderAt
<1>2. ASSUME NEW r \in Run, Check(r) PROVE ReadersTyped'
  BY <1>2
  DEF Check, rows, SetReport, Asked, TypeOK, ReadersTyped, ReaderAt
<1>3. ASSUME NEW r \in Run, Insert(r) PROVE ReadersTyped'
  BY <1>3
  DEF Insert, rows, reports, SetStatus, Asked, AddRow, TypeOK, ReadersTyped,
      ReaderAt
<1>4. ASSUME NEW r \in Run, Persist(r) PROVE ReadersTyped'
  BY <1>4
  DEF Persist, reports, SetStatus, Asked, TypeOK, ReadersTyped, ReaderAt
<1>5. ASSUME NEW r \in Run, FailSubmission(r) PROVE ReadersTyped'
  BY <1>5
  DEF FailSubmission, rows, SetReport, Asked, TypeOK, ReadersTyped, ReaderAt
<1>6. ASSUME NEW r \in Run, CancelBegin(r) PROVE ReadersTyped'
  BY <1>6
  DEF CancelBegin, rows, reports, CancelAt, TypeOK, ReadersTyped, ReaderAt
<1>7. ASSUME NEW r \in Run, CancelEvent(r) PROVE ReadersTyped'
  BY <1>7
  DEF CancelEvent, rows, reports, CancelAt, TypeOK, ReadersTyped, ReaderAt
<1>8. ASSUME NEW r \in Run, CancelRead(r) PROVE ReadersTyped'
  BY <1>8
  DEF CancelRead, rows, reports, CancelAt, CancelNext, TypeOK, ReadersTyped,
      ReaderAt
<1>9. ASSUME NEW r \in Run, CancelWrite(r) PROVE ReadersTyped'
  BY <1>9
  DEF CancelWrite, reports, SetStatus, CancelAt, CancelNext, TypeOK,
      ReadersTyped, ReaderAt
<1>10. ASSUME NEW r \in Run, CancelReport(r) PROVE ReadersTyped'
  BY <1>10
  DEF CancelReport, rows, SetReport, CancelAt, TypeOK, ReadersTyped, ReaderAt
<1>11. ASSUME NEW r \in Run, RequestLost(r) PROVE ReadersTyped'
  BY <1>11
  DEF RequestLost, rows, reports, Fault, Asked, CancelAt, TypeOK, ReadersTyped,
      ReaderAt
<1>12. ASSUME NEW r \in Run, Lapse(r) PROVE ReadersTyped'
  BY <1>12
  DEF Lapse, reports, requests, TimesOut, TypeOK, ReadersTyped, ReaderAt
<1>13. ASSUME NEW r \in Run, Stall(r) PROVE ReadersTyped'
  BY <1>13
  DEF Stall, reports, requests, Fault, TimesOut, TypeOK, ReadersTyped, ReaderAt
<1>14. ASSUME NEW b \in Runner, StartReport(b) PROVE ReadersTyped'
  BY <1>14
  DEF StartReport, rows, requests, SetReport, TypeOK, ReadersTyped, ReaderAt
<1>15. ASSUME NEW b \in Runner, StatusEvent(b) PROVE ReadersTyped'
  BY <1>15
  DEF StatusEvent, rows, reports, requests, TypeOK, ReadersTyped, ReaderAt
<1>16. ASSUME NEW b \in Runner, NextPart(b) PROVE ReadersTyped'
  BY <1>16
  DEF NextPart, rows, reports, requests, TypeOK, ReadersTyped, ReaderAt
<1>17. ASSUME NEW b \in Runner, AppendPart(b) PROVE ReadersTyped'
  BY <1>17
  DEF AppendPart, rows, reports, requests, TypeOK, ReadersTyped, ReaderAt
<1>18. ASSUME NEW b \in Runner, EndOfGraph(b) PROVE ReadersTyped'
  BY <1>18
  DEF EndOfGraph, rows, reports, requests, TypeOK, ReadersTyped, ReaderAt
<1>19. ASSUME NEW b \in Runner, CompleteReport(b) PROVE ReadersTyped'
  BY <1>19
  DEF CompleteReport, rows, requests, SetReport, TypeOK, ReadersTyped, ReaderAt
<1>20. ASSUME NEW b \in Runner, AppendAnswer(b) PROVE ReadersTyped'
  BY <1>20
  DEF AppendAnswer, rows, requests, TypeOK, ReadersTyped, ReaderAt
<1>21. ASSUME NEW b \in Runner, DoneEvent(b) PROVE ReadersTyped'
  BY <1>21
  DEF DoneEvent, rows, reports, requests, TypeOK, ReadersTyped, ReaderAt
<1>22. ASSUME NEW b \in Runner, Complete(b) PROVE ReadersTyped'
  BY <1>22
  DEF Complete, reports, requests, SetStatus, TypeOK, ReadersTyped, ReaderAt
<1>23. ASSUME NEW b \in Runner, HandleError(b) PROVE ReadersTyped'
  BY <1>23
  DEF HandleError, rows, reports, requests, TypeOK, ReadersTyped, ReaderAt
<1>24. ASSUME NEW b \in Runner, ErrorEvent(b) PROVE ReadersTyped'
  BY <1>24
  DEF ErrorEvent, rows, reports, requests, TypeOK, ReadersTyped, ReaderAt
<1>25. ASSUME NEW b \in Runner, Fail(b) PROVE ReadersTyped'
  BY <1>25
  DEF Fail, reports, requests, SetStatus, TypeOK, ReadersTyped, ReaderAt
<1>26. ASSUME NEW b \in Runner, FailReport(b) PROVE ReadersTyped'
  BY <1>26
  DEF FailReport, rows, requests, SetReport, TypeOK, ReadersTyped, ReaderAt
<1>27. ASSUME NEW b \in Runner, StopRead(b) PROVE ReadersTyped'
  BY <1>27
  DEF StopRead, rows, reports, requests, TypeOK, ReadersTyped, ReaderAt
<1>28. ASSUME NEW b \in Runner, StopWrite(b) PROVE ReadersTyped'
  BY <1>28
  DEF StopWrite, reports, requests, SetStatus, TypeOK, ReadersTyped, ReaderAt
<1>29. ASSUME NEW b \in Runner, StopReport(b) PROVE ReadersTyped'
  BY <1>29
  DEF StopReport, rows, requests, SetReport, TypeOK, ReadersTyped, ReaderAt
<1>30. ASSUME NEW b \in Runner, Raise(b) PROVE ReadersTyped'
  BY <1>30
  DEF Raise, rows, reports, requests, TypeOK, ReadersTyped, ReaderAt
<1>31. ASSUME NEW b \in Runner, Heartbeat(b) PROVE ReadersTyped'
  BY <1>31
  DEF Heartbeat, reports, requests, TypeOK, ReadersTyped, ReaderAt
<1>32. ASSUME NEW b \in Runner, Shutdown(b) PROVE ReadersTyped'
  BY <1>32
  DEF Shutdown, rows, reports, requests, Fault, TypeOK, ReadersTyped, ReaderAt
<1>33. ASSUME NEW b \in Runner, Crash(b) PROVE ReadersTyped'
  BY <1>33
  DEF Crash, rows, reports, requests, Fault, TypeOK, ReadersTyped, ReaderAt
<1>34. ASSUME NEW b \in Runner, NEW r \in Run, Claim(b, r) PROVE ReadersTyped'
  BY <1>34
  DEF Claim, reports, requests, SetStatus, Take, TypeOK, ReadersTyped, ReaderAt
<1>35. ASSUME NEW r \in Run, NEW b \in Runner, CancelSignal(r, b) PROVE ReadersTyped'
  BY <1>35
  DEF CancelSignal, rows, reports, CancelAt, TypeOK, ReadersTyped, ReaderAt
<1>36. ASSUME NEW c \in Reader, Replay(c) PROVE ReadersTyped'
  <2>1. PICK pc \in {"tail", "ended"} : ReadTo(c, pc) BY <1>36 DEF Replay
  <2>2. Len(stream[reader[c].run]) \in Nat
    BY <1>36 DEF Replay, TypeOK, ReadersTyped, ReaderAt
  <2>3. reader[c].saw \in {None, "ABSENT"} \cup Active \cup Terminal
    BY DEF TypeOK, ReadersTyped
  <2>4. ReadersTyped /\ ~ReaderAt(c, "off") BY <1>36 DEF Replay, TypeOK, ReaderAt
  <2> QED BY <2>1, <2>2, <2>3, <2>4, ReaderMoves DEF ReadTo
<1>37. ASSUME NEW c \in Reader, Follow(c) PROVE ReadersTyped'
  <2>1. PICK pc \in {"tail", "ended"} : ReadTo(c, pc) BY <1>37 DEF Follow
  <2>2. Len(stream[reader[c].run]) \in Nat
    BY <1>37 DEF Follow, TypeOK, ReadersTyped, ReaderAt
  <2>3. reader[c].saw \in {None, "ABSENT"} \cup Active \cup Terminal
    BY DEF TypeOK, ReadersTyped
  <2>4. ReadersTyped /\ ~ReaderAt(c, "off") BY <1>37 DEF Follow, TypeOK, ReaderAt
  <2> QED BY <2>1, <2>2, <2>3, <2>4, ReaderMoves DEF ReadTo
<1>38. ASSUME NEW c \in Reader, TailEmpty(c) PROVE ReadersTyped'
  <2>1. reader' = [reader EXCEPT ![c].pc = "poll"] BY <1>38 DEF TailEmpty
  <2>2. reader[c].saw \in {None, "ABSENT"} \cup Active \cup Terminal
    BY DEF TypeOK, ReadersTyped
  <2>3. ReadersTyped /\ ~ReaderAt(c, "off") BY <1>38 DEF TailEmpty, TypeOK, ReaderAt
  <2> QED BY <2>1, <2>2, <2>3, ReaderMoves
<1>39. ASSUME NEW c \in Reader, Poll(c) PROVE ReadersTyped'
  <2>1. PICK pc \in {"replay", "tail"} : PollTo(c, pc) BY <1>39 DEF Poll
  <2>2. status[reader[c].run] \in {None, "ABSENT"} \cup Active \cup Terminal
    BY <2>1 DEF PollTo, TypeOK, RowsTyped, ReadersTyped, ReaderAt
  <2>3. ReadersTyped /\ ~ReaderAt(c, "off") BY <2>1 DEF PollTo, TypeOK, ReaderAt
  <2> QED BY <2>1, <2>2, <2>3, ReaderMoves DEF PollTo
<1>40. ASSUME NEW c \in Reader, NEW r \in Run, Join(c, r) PROVE ReadersTyped'
  <2>1. PICK after \in 0..Len(stream[r]) :
          reader' = [reader EXCEPT ![c] =
            [pc |-> "replay", run |-> r, cursor |-> after, saw |-> status[r]]]
    BY <1>40 DEF Join
  <2>2. after \in Nat /\ status[r] \in {"ABSENT"} \cup Active \cup Terminal
    BY DEF TypeOK, RowsTyped
  <2> QED BY <2>1, <2>2 DEF TypeOK, ReadersTyped, ReaderAt
<1>41. ASSUME NEW b \in Runner, Announce(b) PROVE ReadersTyped'
  BY <1>41
  DEF Announce, rows, reports, requests, TypeOK, ReadersTyped, ReaderAt
<1> QED
  BY <1>1, <1>2, <1>3, <1>4, <1>5, <1>6, <1>7, <1>8, <1>9, <1>10, <1>11, <1>12,
      <1>13, <1>14, <1>15, <1>16, <1>17, <1>18, <1>19, <1>20, <1>21, <1>22,
      <1>23, <1>24, <1>25, <1>26, <1>27, <1>28, <1>29, <1>30, <1>31, <1>32,
      <1>33, <1>34, <1>35, <1>36, <1>37, <1>38, <1>39, <1>40, <1>41
  DEF Next, Submission, Cancellation, Execution, Following

(* No event is ever removed. *)
LEMMA StreamStep ==
  ASSUME TypeOK, Next
  PROVE  stream' \in [Run -> Seq(Events)] /\ \A q \in Run : Grows(q)
<1>1. ASSUME NEW r \in Run, Submit(r) PROVE stream' \in [Run -> Seq(Events)] /\ \A q \in Run : Grows(q)
  BY <1>1
  DEF Submit, TypeOK, Grows
<1>2. ASSUME NEW r \in Run, Check(r) PROVE stream' \in [Run -> Seq(Events)] /\ \A q \in Run : Grows(q)
  BY <1>2
  DEF Check, TypeOK, Grows
<1>3. ASSUME NEW r \in Run, Insert(r) PROVE stream' \in [Run -> Seq(Events)] /\ \A q \in Run : Grows(q)
  BY <1>3
  DEF Insert, AddRow, TypeOK, Grows
<1>4. ASSUME NEW r \in Run, Persist(r) PROVE stream' \in [Run -> Seq(Events)] /\ \A q \in Run : Grows(q)
  BY <1>4
  DEF Persist, TypeOK, Grows
<1>5. ASSUME NEW r \in Run, FailSubmission(r) PROVE stream' \in [Run -> Seq(Events)] /\ \A q \in Run : Grows(q)
  BY <1>5
  DEF FailSubmission, TypeOK, Grows
<1>6. ASSUME NEW r \in Run, CancelBegin(r) PROVE stream' \in [Run -> Seq(Events)] /\ \A q \in Run : Grows(q)
  BY <1>6
  DEF CancelBegin, TypeOK, Grows
<1>7. ASSUME NEW r \in Run, CancelEvent(r) PROVE stream' \in [Run -> Seq(Events)] /\ \A q \in Run : Grows(q)
  <2>1. "cancelled" \in Events BY DEF Events, Done
  <2>2. CASE Emit(r, "cancelled") BY <2>1, <2>2, EmitGrows
  <2>3. CASE UNCHANGED stream BY <2>3 DEF TypeOK, Grows
  <2> QED BY <1>7, <2>2, <2>3 DEF CancelEvent
<1>8. ASSUME NEW r \in Run, CancelRead(r) PROVE stream' \in [Run -> Seq(Events)] /\ \A q \in Run : Grows(q)
  BY <1>8
  DEF CancelRead, TypeOK, Grows
<1>9. ASSUME NEW r \in Run, CancelWrite(r) PROVE stream' \in [Run -> Seq(Events)] /\ \A q \in Run : Grows(q)
  BY <1>9
  DEF CancelWrite, TypeOK, Grows
<1>10. ASSUME NEW r \in Run, CancelReport(r) PROVE stream' \in [Run -> Seq(Events)] /\ \A q \in Run : Grows(q)
  BY <1>10
  DEF CancelReport, TypeOK, Grows
<1>11. ASSUME NEW r \in Run, RequestLost(r) PROVE stream' \in [Run -> Seq(Events)] /\ \A q \in Run : Grows(q)
  BY <1>11
  DEF RequestLost, TypeOK, Grows
<1>12. ASSUME NEW r \in Run, Lapse(r) PROVE stream' \in [Run -> Seq(Events)] /\ \A q \in Run : Grows(q)
  BY <1>12
  DEF Lapse, TimesOut, TypeOK, Grows
<1>13. ASSUME NEW r \in Run, Stall(r) PROVE stream' \in [Run -> Seq(Events)] /\ \A q \in Run : Grows(q)
  BY <1>13
  DEF Stall, TimesOut, TypeOK, Grows
<1>14. ASSUME NEW b \in Runner, StartReport(b) PROVE stream' \in [Run -> Seq(Events)] /\ \A q \in Run : Grows(q)
  BY <1>14
  DEF StartReport, TypeOK, Grows
<1>15. ASSUME NEW b \in Runner, StatusEvent(b) PROVE stream' \in [Run -> Seq(Events)] /\ \A q \in Run : Grows(q)
  <2>1. Mine(b) \in Run BY <1>15, MineIsRun DEF StatusEvent, At
  <2>2. "status" \in Events BY DEF Events, Done
  <2>3. CASE Emit(Mine(b), "status") BY <2>1, <2>2, <2>3, EmitGrows
  <2>4. CASE UNCHANGED stream BY <2>4 DEF TypeOK, Grows
  <2> QED BY <1>15, <2>3, <2>4 DEF StatusEvent
<1>16. ASSUME NEW b \in Runner, NextPart(b) PROVE stream' \in [Run -> Seq(Events)] /\ \A q \in Run : Grows(q)
  BY <1>16
  DEF NextPart, TypeOK, Grows
<1>17. ASSUME NEW b \in Runner, AppendPart(b) PROVE stream' \in [Run -> Seq(Events)] /\ \A q \in Run : Grows(q)
  <2>1. Mine(b) \in Run BY <1>17, MineIsRun DEF AppendPart, At
  <2>2. "part" \in Events BY DEF Events, Done
  <2>3. CASE Emit(Mine(b), "part") BY <2>1, <2>2, <2>3, EmitGrows
  <2>4. CASE UNCHANGED stream BY <2>4 DEF TypeOK, Grows
  <2> QED BY <1>17, <2>3, <2>4 DEF AppendPart
<1>18. ASSUME NEW b \in Runner, EndOfGraph(b) PROVE stream' \in [Run -> Seq(Events)] /\ \A q \in Run : Grows(q)
  BY <1>18
  DEF EndOfGraph, TypeOK, Grows
<1>19. ASSUME NEW b \in Runner, CompleteReport(b) PROVE stream' \in [Run -> Seq(Events)] /\ \A q \in Run : Grows(q)
  BY <1>19
  DEF CompleteReport, TypeOK, Grows
<1>20. ASSUME NEW b \in Runner, AppendAnswer(b) PROVE stream' \in [Run -> Seq(Events)] /\ \A q \in Run : Grows(q)
  BY <1>20
  DEF AppendAnswer, TypeOK, Grows
<1>21. ASSUME NEW b \in Runner, DoneEvent(b) PROVE stream' \in [Run -> Seq(Events)] /\ \A q \in Run : Grows(q)
  <2>1. Mine(b) \in Run BY <1>21, MineIsRun DEF DoneEvent, At
  <2>2. "done" \in Events BY DEF Events, Done
  <2>3. CASE Emit(Mine(b), "done") BY <2>1, <2>2, <2>3, EmitGrows
  <2>4. CASE UNCHANGED stream BY <2>4 DEF TypeOK, Grows
  <2> QED BY <1>21, <2>3, <2>4 DEF DoneEvent
<1>22. ASSUME NEW b \in Runner, Complete(b) PROVE stream' \in [Run -> Seq(Events)] /\ \A q \in Run : Grows(q)
  BY <1>22
  DEF Complete, TypeOK, Grows
<1>23. ASSUME NEW b \in Runner, HandleError(b) PROVE stream' \in [Run -> Seq(Events)] /\ \A q \in Run : Grows(q)
  BY <1>23
  DEF HandleError, TypeOK, Grows
<1>24. ASSUME NEW b \in Runner, ErrorEvent(b) PROVE stream' \in [Run -> Seq(Events)] /\ \A q \in Run : Grows(q)
  <2>1. Mine(b) \in Run BY <1>24, MineIsRun DEF ErrorEvent, At
  <2>2. "error" \in Events BY DEF Events, Done
  <2>3. CASE Emit(Mine(b), "error") BY <2>1, <2>2, <2>3, EmitGrows
  <2>4. CASE UNCHANGED stream BY <2>4 DEF TypeOK, Grows
  <2> QED BY <1>24, <2>3, <2>4 DEF ErrorEvent
<1>25. ASSUME NEW b \in Runner, Fail(b) PROVE stream' \in [Run -> Seq(Events)] /\ \A q \in Run : Grows(q)
  BY <1>25
  DEF Fail, TypeOK, Grows
<1>26. ASSUME NEW b \in Runner, FailReport(b) PROVE stream' \in [Run -> Seq(Events)] /\ \A q \in Run : Grows(q)
  BY <1>26
  DEF FailReport, TypeOK, Grows
<1>27. ASSUME NEW b \in Runner, StopRead(b) PROVE stream' \in [Run -> Seq(Events)] /\ \A q \in Run : Grows(q)
  BY <1>27
  DEF StopRead, TypeOK, Grows
<1>28. ASSUME NEW b \in Runner, StopWrite(b) PROVE stream' \in [Run -> Seq(Events)] /\ \A q \in Run : Grows(q)
  BY <1>28
  DEF StopWrite, TypeOK, Grows
<1>29. ASSUME NEW b \in Runner, StopReport(b) PROVE stream' \in [Run -> Seq(Events)] /\ \A q \in Run : Grows(q)
  BY <1>29
  DEF StopReport, TypeOK, Grows
<1>30. ASSUME NEW b \in Runner, Raise(b) PROVE stream' \in [Run -> Seq(Events)] /\ \A q \in Run : Grows(q)
  BY <1>30
  DEF Raise, TypeOK, Grows
<1>31. ASSUME NEW b \in Runner, Heartbeat(b) PROVE stream' \in [Run -> Seq(Events)] /\ \A q \in Run : Grows(q)
  BY <1>31
  DEF Heartbeat, TypeOK, Grows
<1>32. ASSUME NEW b \in Runner, Shutdown(b) PROVE stream' \in [Run -> Seq(Events)] /\ \A q \in Run : Grows(q)
  BY <1>32
  DEF Shutdown, TypeOK, Grows
<1>33. ASSUME NEW b \in Runner, Crash(b) PROVE stream' \in [Run -> Seq(Events)] /\ \A q \in Run : Grows(q)
  BY <1>33
  DEF Crash, TypeOK, Grows
<1>34. ASSUME NEW b \in Runner, NEW r \in Run, Claim(b, r) PROVE stream' \in [Run -> Seq(Events)] /\ \A q \in Run : Grows(q)
  BY <1>34
  DEF Claim, Take, TypeOK, Grows
<1>35. ASSUME NEW r \in Run, NEW b \in Runner, CancelSignal(r, b) PROVE stream' \in [Run -> Seq(Events)] /\ \A q \in Run : Grows(q)
  BY <1>35
  DEF CancelSignal, TypeOK, Grows
<1>36. ASSUME NEW c \in Reader, Replay(c) PROVE stream' \in [Run -> Seq(Events)] /\ \A q \in Run : Grows(q)
  BY <1>36
  DEF Replay, TypeOK, Grows
<1>37. ASSUME NEW c \in Reader, Follow(c) PROVE stream' \in [Run -> Seq(Events)] /\ \A q \in Run : Grows(q)
  BY <1>37
  DEF Follow, TypeOK, Grows
<1>38. ASSUME NEW c \in Reader, TailEmpty(c) PROVE stream' \in [Run -> Seq(Events)] /\ \A q \in Run : Grows(q)
  BY <1>38
  DEF TailEmpty, TypeOK, Grows
<1>39. ASSUME NEW c \in Reader, Poll(c) PROVE stream' \in [Run -> Seq(Events)] /\ \A q \in Run : Grows(q)
  BY <1>39
  DEF Poll, PollTo, TypeOK, Grows
<1>40. ASSUME NEW c \in Reader, NEW r \in Run, Join(c, r) PROVE stream' \in [Run -> Seq(Events)] /\ \A q \in Run : Grows(q)
  BY <1>40
  DEF Join, TypeOK, Grows
<1>41. ASSUME NEW b \in Runner, Announce(b) PROVE stream' \in [Run -> Seq(Events)] /\ \A q \in Run : Grows(q)
  BY <1>41
  DEF Announce, TypeOK, Grows
<1> QED
  BY <1>1, <1>2, <1>3, <1>4, <1>5, <1>6, <1>7, <1>8, <1>9, <1>10, <1>11, <1>12,
      <1>13, <1>14, <1>15, <1>16, <1>17, <1>18, <1>19, <1>20, <1>21, <1>22,
      <1>23, <1>24, <1>25, <1>26, <1>27, <1>28, <1>29, <1>30, <1>31, <1>32,
      <1>33, <1>34, <1>35, <1>36, <1>37, <1>38, <1>39, <1>40, <1>41
  DEF Next, Submission, Cancellation, Execution, Following

-----------------------------------------------------------------------------
Fresh == {"new", "check", "insert"}

(* The only writes of a status. *)
StatusStep ==
  \/ status' = status
  \/ \E r \in Run : /\ SetStatus(r, "PENDING") /\ request[r] = "insert"
                    /\ ActiveIn(ConversationOf[r]) = {} /\ request'[r] \notin Fresh
  \/ \E r \in Run : SetStatus(r, "RUNNING") /\ status[r] \in Active
  \/ \E r \in Run, s \in Terminal :
       SetStatus(r, s) /\ (status[r] # "ABSENT" \/ request'[r] = "undo")

(* Who submits or cancels a run, and what it has found. *)
RequestStep ==
  \A r \in Run :
    /\ request'[r] \in Fresh => request[r] \in Fresh
    /\ cancel'[r] # "new" => cancel[r] # "new" \/ status[r] # "ABSENT"

(* Who executes a run. *)
ExecutionStep ==
  \A b \in Runner, r \in Run : Executes(b, r)' => Executes(b, r) \/ status[r] # "ABSENT"

LEMMA GoToExecutes ==
  ASSUME RunnersTyped, NEW b \in Runner, Working(b), NEW pc, GoTo(b, pc)
  PROVE  ExecutionStep
<1>1. \A a \in Runner : runner'[a].run = runner[a].run /\ (a # b => runner'[a] = runner[a])
  BY DEF GoTo, RunnersTyped
<1> QED BY <1>1 DEF ExecutionStep, Executes, Working

LEMMA LeaveExecutes ==
  ASSUME RunnersTyped, NEW b \in Runner, Leave(b)
  PROVE  ExecutionStep
<1>1. runner'[b].pc = "idle" /\ \A a \in Runner \ {b} : runner'[a] = runner[a]
  BY DEF Leave, Idle, RunnersTyped
<1> QED BY <1>1 DEF ExecutionStep, Executes, Working

LEMMA StatusChanges ==
  ASSUME TypeOK, RowsInserted, Next
  PROVE  StatusStep
<1>1. ASSUME NEW r \in Run, Submit(r) PROVE StatusStep
  BY <1>1
  DEF Submit, rows, StatusStep, Fresh
<1>2. ASSUME NEW r \in Run, Check(r) PROVE StatusStep
  BY <1>2
  DEF Check, rows, Active, StatusStep, Fresh
<1>3. ASSUME NEW r \in Run, Insert(r) PROVE StatusStep
  <2>1. CASE ActiveIn(ConversationOf[r]) = {} /\ AddRow(r)
    <3>1. request'[r] \notin Fresh
      BY <2>1 DEF AddRow, Asked, Fresh, TypeOK, RequestsTyped
    <3> QED BY <1>3, <2>1, <3>1 DEF Insert, AddRow, StatusStep
  <2>2. CASE UNCHANGED rows BY <2>2 DEF rows, StatusStep
  <2> QED BY <1>3, <2>1, <2>2 DEF Insert
<1>4. ASSUME NEW r \in Run, Persist(r) PROVE StatusStep
  <2>1. CASE Asked(r, "undo") /\ SetStatus(r, "FAILED")
    <3>1. request'[r] = "undo" BY <2>1 DEF Asked, TypeOK, RequestsTyped
    <3> QED BY <2>1, <3>1 DEF Terminal, StatusStep
  <2>2. CASE UNCHANGED status BY <2>2 DEF StatusStep
  <2> QED BY <1>4, <2>1, <2>2 DEF Persist
<1>5. ASSUME NEW r \in Run, FailSubmission(r) PROVE StatusStep
  BY <1>5
  DEF FailSubmission, rows, StatusStep, Fresh
<1>6. ASSUME NEW r \in Run, CancelBegin(r) PROVE StatusStep
  BY <1>6
  DEF CancelBegin, rows, Active, StatusStep, Fresh
<1>7. ASSUME NEW r \in Run, CancelEvent(r) PROVE StatusStep
  BY <1>7
  DEF CancelEvent, rows, StatusStep, Fresh
<1>8. ASSUME NEW r \in Run, CancelRead(r) PROVE StatusStep
  BY <1>8
  DEF CancelRead, rows, Active, StatusStep, Fresh
<1>9. ASSUME NEW r \in Run, CancelWrite(r) PROVE StatusStep
  <2>1. status[r] # "ABSENT" BY <1>9 DEF CancelWrite, RowsInserted
  <2> QED BY <1>9, <2>1 DEF CancelWrite, Terminal, StatusStep
<1>10. ASSUME NEW r \in Run, CancelReport(r) PROVE StatusStep
  BY <1>10
  DEF CancelReport, rows, StatusStep, Fresh
<1>11. ASSUME NEW r \in Run, RequestLost(r) PROVE StatusStep
  BY <1>11
  DEF RequestLost, rows, StatusStep, Fresh
<1>12. ASSUME NEW r \in Run, Lapse(r) PROVE StatusStep
  BY <1>12
  DEF Lapse, TimesOut, StatusStep, Fresh
<1>13. ASSUME NEW r \in Run, Stall(r) PROVE StatusStep
  BY <1>13
  DEF Stall, TimesOut, StatusStep, Fresh
<1>14. ASSUME NEW b \in Runner, StartReport(b) PROVE StatusStep
  BY <1>14
  DEF StartReport, rows, StatusStep, Fresh
<1>15. ASSUME NEW b \in Runner, StatusEvent(b) PROVE StatusStep
  BY <1>15
  DEF StatusEvent, rows, StatusStep, Fresh
<1>16. ASSUME NEW b \in Runner, NextPart(b) PROVE StatusStep
  BY <1>16
  DEF NextPart, rows, StatusStep, Fresh
<1>17. ASSUME NEW b \in Runner, AppendPart(b) PROVE StatusStep
  BY <1>17
  DEF AppendPart, rows, StatusStep, Fresh
<1>18. ASSUME NEW b \in Runner, EndOfGraph(b) PROVE StatusStep
  BY <1>18
  DEF EndOfGraph, rows, StatusStep, Fresh
<1>19. ASSUME NEW b \in Runner, CompleteReport(b) PROVE StatusStep
  BY <1>19
  DEF CompleteReport, rows, StatusStep, Fresh
<1>20. ASSUME NEW b \in Runner, AppendAnswer(b) PROVE StatusStep
  BY <1>20
  DEF AppendAnswer, rows, StatusStep, Fresh
<1>21. ASSUME NEW b \in Runner, DoneEvent(b) PROVE StatusStep
  BY <1>21
  DEF DoneEvent, rows, StatusStep, Fresh
<1>22. ASSUME NEW b \in Runner, Complete(b) PROVE StatusStep
  <2>1. Mine(b) \in Run BY <1>22, MineIsRun DEF Complete, At
  <2>2. status[Mine(b)] # "ABSENT"
    BY <1>22, <2>1 DEF Complete, RowsInserted, Executes, Working, At, Mine
  <2> QED BY <1>22, <2>1, <2>2 DEF Complete, Terminal, StatusStep
<1>23. ASSUME NEW b \in Runner, HandleError(b) PROVE StatusStep
  BY <1>23
  DEF HandleError, rows, StatusStep, Fresh
<1>24. ASSUME NEW b \in Runner, ErrorEvent(b) PROVE StatusStep
  BY <1>24
  DEF ErrorEvent, rows, StatusStep, Fresh
<1>25. ASSUME NEW b \in Runner, Fail(b) PROVE StatusStep
  <2>1. Mine(b) \in Run BY <1>25, MineIsRun DEF Fail, At
  <2>2. status[Mine(b)] # "ABSENT"
    BY <1>25, <2>1 DEF Fail, RowsInserted, Executes, Working, At, Mine
  <2> QED BY <1>25, <2>1, <2>2 DEF Fail, Terminal, StatusStep
<1>26. ASSUME NEW b \in Runner, FailReport(b) PROVE StatusStep
  BY <1>26
  DEF FailReport, rows, StatusStep, Fresh
<1>27. ASSUME NEW b \in Runner, StopRead(b) PROVE StatusStep
  BY <1>27
  DEF StopRead, rows, Active, StatusStep, Fresh
<1>28. ASSUME NEW b \in Runner, StopWrite(b) PROVE StatusStep
  <2>1. Mine(b) \in Run BY <1>28, MineIsRun DEF StopWrite, At
  <2>2. status[Mine(b)] # "ABSENT"
    BY <1>28, <2>1 DEF StopWrite, RowsInserted, Executes, Working, At, Mine
  <2> QED BY <1>28, <2>1, <2>2 DEF StopWrite, Terminal, StatusStep
<1>29. ASSUME NEW b \in Runner, StopReport(b) PROVE StatusStep
  BY <1>29
  DEF StopReport, rows, StatusStep, Fresh
<1>30. ASSUME NEW b \in Runner, Raise(b) PROVE StatusStep
  BY <1>30
  DEF Raise, rows, StatusStep, Fresh
<1>31. ASSUME NEW b \in Runner, Heartbeat(b) PROVE StatusStep
  BY <1>31
  DEF Heartbeat, StatusStep, Fresh
<1>32. ASSUME NEW b \in Runner, Shutdown(b) PROVE StatusStep
  BY <1>32
  DEF Shutdown, rows, StatusStep, Fresh
<1>33. ASSUME NEW b \in Runner, Crash(b) PROVE StatusStep
  BY <1>33
  DEF Crash, rows, StatusStep, Fresh
<1>34. ASSUME NEW b \in Runner, NEW r \in Run, Claim(b, r) PROVE StatusStep
  <2>1. status[r] \in Active BY <1>34 DEF Claim, Take, Oldest, Claimable, Active
  <2> QED BY <1>34, <2>1 DEF Claim, Take, StatusStep
<1>35. ASSUME NEW r \in Run, NEW b \in Runner, CancelSignal(r, b) PROVE StatusStep
  BY <1>35
  DEF CancelSignal, rows, StatusStep, Fresh
<1>36. ASSUME NEW c \in Reader, Replay(c) PROVE StatusStep
  BY <1>36
  DEF Replay, rows, StatusStep, Fresh
<1>37. ASSUME NEW c \in Reader, Follow(c) PROVE StatusStep
  BY <1>37
  DEF Follow, rows, StatusStep, Fresh
<1>38. ASSUME NEW c \in Reader, TailEmpty(c) PROVE StatusStep
  BY <1>38
  DEF TailEmpty, rows, StatusStep, Fresh
<1>39. ASSUME NEW c \in Reader, Poll(c) PROVE StatusStep
  BY <1>39
  DEF Poll, rows, PollTo, StatusStep, Fresh
<1>40. ASSUME NEW c \in Reader, NEW r \in Run, Join(c, r) PROVE StatusStep
  BY <1>40
  DEF Join, rows, StatusStep, Fresh
<1>41. ASSUME NEW b \in Runner, Announce(b) PROVE StatusStep
  BY <1>41
  DEF Announce, rows, StatusStep, Fresh
<1> QED
  BY <1>1, <1>2, <1>3, <1>4, <1>5, <1>6, <1>7, <1>8, <1>9, <1>10, <1>11, <1>12,
      <1>13, <1>14, <1>15, <1>16, <1>17, <1>18, <1>19, <1>20, <1>21, <1>22,
      <1>23, <1>24, <1>25, <1>26, <1>27, <1>28, <1>29, <1>30, <1>31, <1>32,
      <1>33, <1>34, <1>35, <1>36, <1>37, <1>38, <1>39, <1>40, <1>41
  DEF Next, Submission, Cancellation, Execution, Following

LEMMA RequestChanges ==
  ASSUME TypeOK, Next
  PROVE  RequestStep
<1>1. ASSUME NEW r \in Run, Submit(r) PROVE RequestStep
  BY <1>1
  DEF Submit, rows, SetReport, Asked, RequestStep, Fresh, TypeOK, RequestsTyped
<1>2. ASSUME NEW r \in Run, Check(r) PROVE RequestStep
  BY <1>2
  DEF Check, rows, Active, SetReport, Asked, RequestStep, Fresh, TypeOK,
      RequestsTyped
<1>3. ASSUME NEW r \in Run, Insert(r) PROVE RequestStep
  BY <1>3
  DEF Insert, rows, reports, Active, SetStatus, Asked, AddRow, RequestStep,
      Fresh, TypeOK, RequestsTyped
<1>4. ASSUME NEW r \in Run, Persist(r) PROVE RequestStep
  BY <1>4
  DEF Persist, reports, SetStatus, Asked, RequestStep, Fresh, TypeOK,
      RequestsTyped
<1>5. ASSUME NEW r \in Run, FailSubmission(r) PROVE RequestStep
  BY <1>5
  DEF FailSubmission, rows, SetReport, Asked, RequestStep, Fresh, TypeOK,
      RequestsTyped
<1>6. ASSUME NEW r \in Run, CancelBegin(r) PROVE RequestStep
  BY <1>6
  DEF CancelBegin, rows, reports, Active, CancelAt, RequestStep, Fresh, TypeOK,
      RequestsTyped
<1>7. ASSUME NEW r \in Run, CancelEvent(r) PROVE RequestStep
  BY <1>7
  DEF CancelEvent, rows, reports, CancelAt, RequestStep, Fresh, TypeOK,
      RequestsTyped
<1>8. ASSUME NEW r \in Run, CancelRead(r) PROVE RequestStep
  BY <1>8
  DEF CancelRead, rows, reports, Active, CancelAt, CancelNext, RequestStep,
      Fresh, TypeOK, RequestsTyped
<1>9. ASSUME NEW r \in Run, CancelWrite(r) PROVE RequestStep
  BY <1>9
  DEF CancelWrite, reports, SetStatus, CancelAt, CancelNext, RequestStep,
      Fresh, TypeOK, RequestsTyped
<1>10. ASSUME NEW r \in Run, CancelReport(r) PROVE RequestStep
  BY <1>10
  DEF CancelReport, rows, SetReport, CancelAt, RequestStep, Fresh, TypeOK,
      RequestsTyped
<1>11. ASSUME NEW r \in Run, RequestLost(r) PROVE RequestStep
  BY <1>11
  DEF RequestLost, rows, reports, Fault, Asked, CancelAt, RequestStep, Fresh,
      TypeOK, RequestsTyped
<1>12. ASSUME NEW r \in Run, Lapse(r) PROVE RequestStep
  BY <1>12
  DEF Lapse, reports, requests, TimesOut, RequestStep, Fresh, TypeOK,
      RequestsTyped
<1>13. ASSUME NEW r \in Run, Stall(r) PROVE RequestStep
  BY <1>13
  DEF Stall, reports, requests, Fault, TimesOut, RequestStep, Fresh, TypeOK,
      RequestsTyped
<1>14. ASSUME NEW b \in Runner, StartReport(b) PROVE RequestStep
  BY <1>14
  DEF StartReport, rows, requests, SetReport, RequestStep, Fresh, TypeOK,
      RequestsTyped
<1>15. ASSUME NEW b \in Runner, StatusEvent(b) PROVE RequestStep
  BY <1>15
  DEF StatusEvent, rows, reports, requests, RequestStep, Fresh, TypeOK,
      RequestsTyped
<1>16. ASSUME NEW b \in Runner, NextPart(b) PROVE RequestStep
  BY <1>16
  DEF NextPart, rows, reports, requests, RequestStep, Fresh, TypeOK,
      RequestsTyped
<1>17. ASSUME NEW b \in Runner, AppendPart(b) PROVE RequestStep
  BY <1>17
  DEF AppendPart, rows, reports, requests, RequestStep, Fresh, TypeOK,
      RequestsTyped
<1>18. ASSUME NEW b \in Runner, EndOfGraph(b) PROVE RequestStep
  BY <1>18
  DEF EndOfGraph, rows, reports, requests, RequestStep, Fresh, TypeOK,
      RequestsTyped
<1>19. ASSUME NEW b \in Runner, CompleteReport(b) PROVE RequestStep
  BY <1>19
  DEF CompleteReport, rows, requests, SetReport, RequestStep, Fresh, TypeOK,
      RequestsTyped
<1>20. ASSUME NEW b \in Runner, AppendAnswer(b) PROVE RequestStep
  BY <1>20
  DEF AppendAnswer, rows, requests, RequestStep, Fresh, TypeOK, RequestsTyped
<1>21. ASSUME NEW b \in Runner, DoneEvent(b) PROVE RequestStep
  BY <1>21
  DEF DoneEvent, rows, reports, requests, RequestStep, Fresh, TypeOK,
      RequestsTyped
<1>22. ASSUME NEW b \in Runner, Complete(b) PROVE RequestStep
  BY <1>22
  DEF Complete, reports, requests, SetStatus, RequestStep, Fresh, TypeOK,
      RequestsTyped
<1>23. ASSUME NEW b \in Runner, HandleError(b) PROVE RequestStep
  BY <1>23
  DEF HandleError, rows, reports, requests, RequestStep, Fresh, TypeOK,
      RequestsTyped
<1>24. ASSUME NEW b \in Runner, ErrorEvent(b) PROVE RequestStep
  BY <1>24
  DEF ErrorEvent, rows, reports, requests, RequestStep, Fresh, TypeOK,
      RequestsTyped
<1>25. ASSUME NEW b \in Runner, Fail(b) PROVE RequestStep
  BY <1>25
  DEF Fail, reports, requests, SetStatus, RequestStep, Fresh, TypeOK,
      RequestsTyped
<1>26. ASSUME NEW b \in Runner, FailReport(b) PROVE RequestStep
  BY <1>26
  DEF FailReport, rows, requests, SetReport, RequestStep, Fresh, TypeOK,
      RequestsTyped
<1>27. ASSUME NEW b \in Runner, StopRead(b) PROVE RequestStep
  BY <1>27
  DEF StopRead, rows, reports, requests, Active, RequestStep, Fresh, TypeOK,
      RequestsTyped
<1>28. ASSUME NEW b \in Runner, StopWrite(b) PROVE RequestStep
  BY <1>28
  DEF StopWrite, reports, requests, SetStatus, RequestStep, Fresh, TypeOK,
      RequestsTyped
<1>29. ASSUME NEW b \in Runner, StopReport(b) PROVE RequestStep
  BY <1>29
  DEF StopReport, rows, requests, SetReport, RequestStep, Fresh, TypeOK,
      RequestsTyped
<1>30. ASSUME NEW b \in Runner, Raise(b) PROVE RequestStep
  BY <1>30
  DEF Raise, rows, reports, requests, RequestStep, Fresh, TypeOK, RequestsTyped
<1>31. ASSUME NEW b \in Runner, Heartbeat(b) PROVE RequestStep
  BY <1>31
  DEF Heartbeat, reports, requests, RequestStep, Fresh, TypeOK, RequestsTyped
<1>32. ASSUME NEW b \in Runner, Shutdown(b) PROVE RequestStep
  BY <1>32
  DEF Shutdown, rows, reports, requests, Fault, RequestStep, Fresh, TypeOK,
      RequestsTyped
<1>33. ASSUME NEW b \in Runner, Crash(b) PROVE RequestStep
  BY <1>33
  DEF Crash, rows, reports, requests, Fault, RequestStep, Fresh, TypeOK,
      RequestsTyped
<1>34. ASSUME NEW b \in Runner, NEW r \in Run, Claim(b, r) PROVE RequestStep
  BY <1>34
  DEF Claim, reports, requests, SetStatus, Take, RequestStep, Fresh, TypeOK,
      RequestsTyped
<1>35. ASSUME NEW r \in Run, NEW b \in Runner, CancelSignal(r, b) PROVE RequestStep
  BY <1>35
  DEF CancelSignal, rows, reports, CancelAt, RequestStep, Fresh, TypeOK,
      RequestsTyped
<1>36. ASSUME NEW c \in Reader, Replay(c) PROVE RequestStep
  BY <1>36
  DEF Replay, rows, reports, requests, ReadTo, RequestStep, Fresh, TypeOK,
      RequestsTyped
<1>37. ASSUME NEW c \in Reader, Follow(c) PROVE RequestStep
  BY <1>37
  DEF Follow, rows, reports, requests, ReadTo, RequestStep, Fresh, TypeOK,
      RequestsTyped
<1>38. ASSUME NEW c \in Reader, TailEmpty(c) PROVE RequestStep
  BY <1>38
  DEF TailEmpty, rows, reports, requests, RequestStep, Fresh, TypeOK,
      RequestsTyped
<1>39. ASSUME NEW c \in Reader, Poll(c) PROVE RequestStep
  BY <1>39
  DEF Poll, rows, reports, requests, PollTo, RequestStep, Fresh, TypeOK,
      RequestsTyped
<1>40. ASSUME NEW c \in Reader, NEW r \in Run, Join(c, r) PROVE RequestStep
  BY <1>40
  DEF Join, rows, reports, requests, RequestStep, Fresh, TypeOK, RequestsTyped
<1>41. ASSUME NEW b \in Runner, Announce(b) PROVE RequestStep
  BY <1>41
  DEF Announce, rows, reports, requests, RequestStep, Fresh, TypeOK,
      RequestsTyped
<1> QED
  BY <1>1, <1>2, <1>3, <1>4, <1>5, <1>6, <1>7, <1>8, <1>9, <1>10, <1>11, <1>12,
      <1>13, <1>14, <1>15, <1>16, <1>17, <1>18, <1>19, <1>20, <1>21, <1>22,
      <1>23, <1>24, <1>25, <1>26, <1>27, <1>28, <1>29, <1>30, <1>31, <1>32,
      <1>33, <1>34, <1>35, <1>36, <1>37, <1>38, <1>39, <1>40, <1>41
  DEF Next, Submission, Cancellation, Execution, Following

LEMMA ExecutionChanges ==
  ASSUME TypeOK, Next
  PROVE  ExecutionStep
<1>1. ASSUME NEW r \in Run, Submit(r) PROVE ExecutionStep
  BY <1>1
  DEF Submit, Asked, TypeOK, ExecutionStep, Executes, Working
<1>2. ASSUME NEW r \in Run, Check(r) PROVE ExecutionStep
  BY <1>2
  DEF Check, Asked, TypeOK, ExecutionStep, Executes, Working
<1>3. ASSUME NEW r \in Run, Insert(r) PROVE ExecutionStep
  BY <1>3
  DEF Insert, Asked, AddRow, TypeOK, ExecutionStep, Executes, Working
<1>4. ASSUME NEW r \in Run, Persist(r) PROVE ExecutionStep
  BY <1>4
  DEF Persist, Asked, TypeOK, ExecutionStep, Executes, Working
<1>5. ASSUME NEW r \in Run, FailSubmission(r) PROVE ExecutionStep
  BY <1>5
  DEF FailSubmission, Asked, TypeOK, ExecutionStep, Executes, Working
<1>6. ASSUME NEW r \in Run, CancelBegin(r) PROVE ExecutionStep
  BY <1>6
  DEF CancelBegin, CancelAt, TypeOK, ExecutionStep, Executes, Working
<1>7. ASSUME NEW r \in Run, CancelEvent(r) PROVE ExecutionStep
  BY <1>7
  DEF CancelEvent, CancelAt, TypeOK, ExecutionStep, Executes, Working
<1>8. ASSUME NEW r \in Run, CancelRead(r) PROVE ExecutionStep
  BY <1>8
  DEF CancelRead, CancelAt, TypeOK, ExecutionStep, Executes, Working
<1>9. ASSUME NEW r \in Run, CancelWrite(r) PROVE ExecutionStep
  BY <1>9
  DEF CancelWrite, CancelAt, TypeOK, ExecutionStep, Executes, Working
<1>10. ASSUME NEW r \in Run, CancelReport(r) PROVE ExecutionStep
  BY <1>10
  DEF CancelReport, CancelAt, TypeOK, ExecutionStep, Executes, Working
<1>11. ASSUME NEW r \in Run, RequestLost(r) PROVE ExecutionStep
  BY <1>11
  DEF RequestLost, Asked, CancelAt, TypeOK, ExecutionStep, Executes, Working
<1>12. ASSUME NEW r \in Run, Lapse(r) PROVE ExecutionStep
  BY <1>12
  DEF Lapse, requests, TimesOut, TypeOK, ExecutionStep, Executes, Working
<1>13. ASSUME NEW r \in Run, Stall(r) PROVE ExecutionStep
  BY <1>13
  DEF Stall, requests, TimesOut, TypeOK, ExecutionStep, Executes, Working
<1>14. ASSUME NEW b \in Runner, StartReport(b) PROVE ExecutionStep
  BY <1>14, GoToExecutes
  DEF StartReport, requests, At, TypeOK, ExecutionStep, Executes, Working
<1>15. ASSUME NEW b \in Runner, StatusEvent(b) PROVE ExecutionStep
  BY <1>15, GoToExecutes
  DEF StatusEvent, requests, At, TypeOK, ExecutionStep, Executes, Working
<1>16. ASSUME NEW b \in Runner, NextPart(b) PROVE ExecutionStep
  <2>1. Working(b) BY <1>16 DEF NextPart, At, Working
  <2>2. CASE Leave(b) BY <2>2, LeaveExecutes DEF TypeOK
  <2>3. CASE runner' = [runner EXCEPT ![b].pc = "append", ![b].parts = @ + 1]
    <3>1. \A a \in Runner : runner'[a].run = runner[a].run /\ (a # b => runner'[a] = runner[a])
      BY <2>3 DEF TypeOK, RunnersTyped
    <3> QED BY <2>1, <3>1 DEF ExecutionStep, Executes, Working
  <2> QED BY <1>16, <2>2, <2>3 DEF NextPart
<1>17. ASSUME NEW b \in Runner, AppendPart(b) PROVE ExecutionStep
  BY <1>17, GoToExecutes
  DEF AppendPart, requests, At, TypeOK, ExecutionStep, Executes, Working
<1>18. ASSUME NEW b \in Runner, EndOfGraph(b) PROVE ExecutionStep
  BY <1>18, GoToExecutes, LeaveExecutes
  DEF EndOfGraph, requests, At, TypeOK, ExecutionStep, Executes, Working
<1>19. ASSUME NEW b \in Runner, CompleteReport(b) PROVE ExecutionStep
  BY <1>19, GoToExecutes
  DEF CompleteReport, requests, At, TypeOK, ExecutionStep, Executes, Working
<1>20. ASSUME NEW b \in Runner, AppendAnswer(b) PROVE ExecutionStep
  BY <1>20, GoToExecutes
  DEF AppendAnswer, requests, At, TypeOK, ExecutionStep, Executes, Working
<1>21. ASSUME NEW b \in Runner, DoneEvent(b) PROVE ExecutionStep
  BY <1>21, GoToExecutes
  DEF DoneEvent, requests, At, TypeOK, ExecutionStep, Executes, Working
<1>22. ASSUME NEW b \in Runner, Complete(b) PROVE ExecutionStep
  BY <1>22, GoToExecutes
  DEF Complete, requests, At, TypeOK, ExecutionStep, Executes, Working
<1>23. ASSUME NEW b \in Runner, HandleError(b) PROVE ExecutionStep
  BY <1>23, GoToExecutes, LeaveExecutes
  DEF HandleError, requests, At, TypeOK, ExecutionStep, Executes, Working
<1>24. ASSUME NEW b \in Runner, ErrorEvent(b) PROVE ExecutionStep
  BY <1>24, GoToExecutes
  DEF ErrorEvent, requests, At, TypeOK, ExecutionStep, Executes, Working
<1>25. ASSUME NEW b \in Runner, Fail(b) PROVE ExecutionStep
  BY <1>25, GoToExecutes, LeaveExecutes
  DEF Fail, requests, At, TypeOK, ExecutionStep, Executes, Working
<1>26. ASSUME NEW b \in Runner, FailReport(b) PROVE ExecutionStep
  BY <1>26, LeaveExecutes
  DEF FailReport, requests, At, TypeOK, ExecutionStep, Executes, Working
<1>27. ASSUME NEW b \in Runner, StopRead(b) PROVE ExecutionStep
  BY <1>27, GoToExecutes, LeaveExecutes
  DEF StopRead, requests, At, StopNext, TypeOK, ExecutionStep, Executes,
      Working
<1>28. ASSUME NEW b \in Runner, StopWrite(b) PROVE ExecutionStep
  BY <1>28, GoToExecutes, LeaveExecutes
  DEF StopWrite, requests, At, StopNext, TypeOK, ExecutionStep, Executes,
      Working
<1>29. ASSUME NEW b \in Runner, StopReport(b) PROVE ExecutionStep
  BY <1>29, LeaveExecutes
  DEF StopReport, requests, At, TypeOK, ExecutionStep, Executes, Working
<1>30. ASSUME NEW b \in Runner, Raise(b) PROVE ExecutionStep
  BY <1>30, GoToExecutes
  DEF Raise, requests, Body, TypeOK, ExecutionStep, Executes, Working
<1>31. ASSUME NEW b \in Runner, Heartbeat(b) PROVE ExecutionStep
  <2>1. runner' = runner \/ runner' = [runner EXCEPT ![b].beating = FALSE]
    BY <1>31 DEF Heartbeat
  <2>2. \A a \in Runner : runner'[a].run = runner[a].run /\ runner'[a].pc = runner[a].pc
    BY <2>1 DEF TypeOK, RunnersTyped
  <2> QED BY <2>2 DEF ExecutionStep, Executes, Working
<1>32. ASSUME NEW b \in Runner, Shutdown(b) PROVE ExecutionStep
  BY <1>32, GoToExecutes, LeaveExecutes
  DEF Shutdown, requests, Body, Handler, Interrupt, TypeOK, ExecutionStep,
      Executes, Working
<1>33. ASSUME NEW b \in Runner, Crash(b) PROVE ExecutionStep
  BY <1>33, LeaveExecutes
  DEF Crash, requests, TypeOK, ExecutionStep, Executes, Working
<1>34. ASSUME NEW b \in Runner, NEW r \in Run, Claim(b, r) PROVE ExecutionStep
  <2>1. status[r] # "ABSENT" BY <1>34 DEF Claim, Take, Oldest, Claimable
  <2>2. \A a \in Runner \ {b} : runner'[a] = runner[a]
    BY <1>34 DEF Claim, Take, TypeOK, RunnersTyped
  <2>3. runner'[b].run = r BY <1>34 DEF Claim, Take, TypeOK, RunnersTyped
  <2> QED BY <2>1, <2>2, <2>3 DEF ExecutionStep, Executes, Working
<1>35. ASSUME NEW r \in Run, NEW b \in Runner, CancelSignal(r, b) PROVE ExecutionStep
  BY <1>35, GoToExecutes, LeaveExecutes
  DEF CancelSignal, Body, Handler, Interrupt, CancelAt, TypeOK, ExecutionStep,
      Executes, Working
<1>36. ASSUME NEW c \in Reader, Replay(c) PROVE ExecutionStep
  BY <1>36
  DEF Replay, requests, ReadTo, TypeOK, ExecutionStep, Executes, Working
<1>37. ASSUME NEW c \in Reader, Follow(c) PROVE ExecutionStep
  BY <1>37
  DEF Follow, requests, ReadTo, TypeOK, ExecutionStep, Executes, Working
<1>38. ASSUME NEW c \in Reader, TailEmpty(c) PROVE ExecutionStep
  BY <1>38
  DEF TailEmpty, requests, TypeOK, ExecutionStep, Executes, Working
<1>39. ASSUME NEW c \in Reader, Poll(c) PROVE ExecutionStep
  BY <1>39
  DEF Poll, requests, PollTo, TypeOK, ExecutionStep, Executes, Working
<1>40. ASSUME NEW c \in Reader, NEW r \in Run, Join(c, r) PROVE ExecutionStep
  BY <1>40
  DEF Join, requests, TypeOK, ExecutionStep, Executes, Working
<1>41. ASSUME NEW b \in Runner, Announce(b) PROVE ExecutionStep
  BY <1>41, LeaveExecutes
  DEF Announce, requests, At, TypeOK, ExecutionStep, Executes, Working
<1> QED
  BY <1>1, <1>2, <1>3, <1>4, <1>5, <1>6, <1>7, <1>8, <1>9, <1>10, <1>11, <1>12,
      <1>13, <1>14, <1>15, <1>16, <1>17, <1>18, <1>19, <1>20, <1>21, <1>22,
      <1>23, <1>24, <1>25, <1>26, <1>27, <1>28, <1>29, <1>30, <1>31, <1>32,
      <1>33, <1>34, <1>35, <1>36, <1>37, <1>38, <1>39, <1>40, <1>41
  DEF Next, Submission, Cancellation, Execution, Following

-----------------------------------------------------------------------------
(* What a step does to what RunnerDelivered and CompletedRunDelivered say. *)
AnswerStep == answered \subseteq answered'

CompletionStep ==
  \A r \in Run :
    status'[r] = "COMPLETED" =>
      status[r] = "COMPLETED" \/ \E b \in Runner : At(b, "complete") /\ Mine(b) = r

Same(b) == runner'[b].pc = runner[b].pc /\ runner'[b].run = runner[b].run

(* A runner comes to its last writes only through the ones before them. *)
DeliveryStep ==
  \A b \in Runner :
    /\ runner'[b].pc = "done" =>
         Same(b) \/ (Mine(b)' \in Research => Mine(b)' \in answered')
    /\ runner'[b].pc = "complete" =>
         \/ Same(b)
         \/ /\ Mine(b)' = Mine(b) /\ At(b, "done")
            /\ Seen(Mine(b), Len(stream[Mine(b)]), "done")'

LEMMA GoToDelivers ==
  ASSUME RunnersTyped, NEW b \in Runner, NEW pc, pc \notin {"done", "complete"}, GoTo(b, pc)
  PROVE  DeliveryStep
<1>1. runner'[b].pc = pc /\ \A a \in Runner \ {b} : runner'[a] = runner[a]
  BY DEF GoTo, RunnersTyped
<1> QED BY <1>1 DEF DeliveryStep, Same

LEMMA LeaveDelivers ==
  ASSUME RunnersTyped, NEW b \in Runner, Leave(b)
  PROVE  DeliveryStep
<1>1. runner'[b].pc = "idle" /\ \A a \in Runner \ {b} : runner'[a] = runner[a]
  BY DEF Leave, Idle, RunnersTyped
<1> QED BY <1>1 DEF DeliveryStep, Same

LEMMA AnswerChanges ==
  ASSUME TypeOK, Next
  PROVE  AnswerStep
<1>1. ASSUME NEW r \in Run, Submit(r) PROVE AnswerStep
  BY <1>1
  DEF Submit, rows, SetReport, Asked, AnswerStep
<1>2. ASSUME NEW r \in Run, Check(r) PROVE AnswerStep
  BY <1>2
  DEF Check, rows, SetReport, Asked, AnswerStep
<1>3. ASSUME NEW r \in Run, Insert(r) PROVE AnswerStep
  BY <1>3
  DEF Insert, rows, reports, SetStatus, Asked, AddRow, AnswerStep
<1>4. ASSUME NEW r \in Run, Persist(r) PROVE AnswerStep
  BY <1>4
  DEF Persist, reports, SetStatus, Asked, AnswerStep
<1>5. ASSUME NEW r \in Run, FailSubmission(r) PROVE AnswerStep
  BY <1>5
  DEF FailSubmission, rows, SetReport, Asked, AnswerStep
<1>6. ASSUME NEW r \in Run, CancelBegin(r) PROVE AnswerStep
  BY <1>6
  DEF CancelBegin, rows, reports, CancelAt, AnswerStep
<1>7. ASSUME NEW r \in Run, CancelEvent(r) PROVE AnswerStep
  BY <1>7
  DEF CancelEvent, rows, reports, CancelAt, AnswerStep
<1>8. ASSUME NEW r \in Run, CancelRead(r) PROVE AnswerStep
  BY <1>8
  DEF CancelRead, rows, reports, CancelAt, CancelNext, AnswerStep
<1>9. ASSUME NEW r \in Run, CancelWrite(r) PROVE AnswerStep
  BY <1>9
  DEF CancelWrite, reports, SetStatus, CancelAt, CancelNext, AnswerStep
<1>10. ASSUME NEW r \in Run, CancelReport(r) PROVE AnswerStep
  BY <1>10
  DEF CancelReport, rows, SetReport, CancelAt, AnswerStep
<1>11. ASSUME NEW r \in Run, RequestLost(r) PROVE AnswerStep
  BY <1>11
  DEF RequestLost, rows, reports, Fault, Asked, CancelAt, AnswerStep
<1>12. ASSUME NEW r \in Run, Lapse(r) PROVE AnswerStep
  BY <1>12
  DEF Lapse, reports, requests, TimesOut, AnswerStep
<1>13. ASSUME NEW r \in Run, Stall(r) PROVE AnswerStep
  BY <1>13
  DEF Stall, reports, requests, Fault, TimesOut, AnswerStep
<1>14. ASSUME NEW b \in Runner, StartReport(b) PROVE AnswerStep
  BY <1>14
  DEF StartReport, rows, requests, SetReport, AnswerStep
<1>15. ASSUME NEW b \in Runner, StatusEvent(b) PROVE AnswerStep
  BY <1>15
  DEF StatusEvent, rows, reports, requests, AnswerStep
<1>16. ASSUME NEW b \in Runner, NextPart(b) PROVE AnswerStep
  BY <1>16
  DEF NextPart, rows, reports, requests, AnswerStep
<1>17. ASSUME NEW b \in Runner, AppendPart(b) PROVE AnswerStep
  BY <1>17
  DEF AppendPart, rows, reports, requests, AnswerStep
<1>18. ASSUME NEW b \in Runner, EndOfGraph(b) PROVE AnswerStep
  BY <1>18
  DEF EndOfGraph, rows, reports, requests, AnswerStep
<1>19. ASSUME NEW b \in Runner, CompleteReport(b) PROVE AnswerStep
  BY <1>19
  DEF CompleteReport, rows, requests, SetReport, AnswerStep
<1>20. ASSUME NEW b \in Runner, AppendAnswer(b) PROVE AnswerStep
  BY <1>20
  DEF AppendAnswer, rows, requests, AnswerStep
<1>21. ASSUME NEW b \in Runner, DoneEvent(b) PROVE AnswerStep
  BY <1>21
  DEF DoneEvent, rows, reports, requests, AnswerStep
<1>22. ASSUME NEW b \in Runner, Complete(b) PROVE AnswerStep
  BY <1>22
  DEF Complete, reports, requests, SetStatus, AnswerStep
<1>23. ASSUME NEW b \in Runner, HandleError(b) PROVE AnswerStep
  BY <1>23
  DEF HandleError, rows, reports, requests, AnswerStep
<1>24. ASSUME NEW b \in Runner, ErrorEvent(b) PROVE AnswerStep
  BY <1>24
  DEF ErrorEvent, rows, reports, requests, AnswerStep
<1>25. ASSUME NEW b \in Runner, Fail(b) PROVE AnswerStep
  BY <1>25
  DEF Fail, reports, requests, SetStatus, AnswerStep
<1>26. ASSUME NEW b \in Runner, FailReport(b) PROVE AnswerStep
  BY <1>26
  DEF FailReport, rows, requests, SetReport, AnswerStep
<1>27. ASSUME NEW b \in Runner, StopRead(b) PROVE AnswerStep
  BY <1>27
  DEF StopRead, rows, reports, requests, AnswerStep
<1>28. ASSUME NEW b \in Runner, StopWrite(b) PROVE AnswerStep
  BY <1>28
  DEF StopWrite, reports, requests, SetStatus, AnswerStep
<1>29. ASSUME NEW b \in Runner, StopReport(b) PROVE AnswerStep
  BY <1>29
  DEF StopReport, rows, requests, SetReport, AnswerStep
<1>30. ASSUME NEW b \in Runner, Raise(b) PROVE AnswerStep
  BY <1>30
  DEF Raise, rows, reports, requests, AnswerStep
<1>31. ASSUME NEW b \in Runner, Heartbeat(b) PROVE AnswerStep
  BY <1>31
  DEF Heartbeat, reports, requests, AnswerStep
<1>32. ASSUME NEW b \in Runner, Shutdown(b) PROVE AnswerStep
  BY <1>32
  DEF Shutdown, rows, reports, requests, Fault, AnswerStep
<1>33. ASSUME NEW b \in Runner, Crash(b) PROVE AnswerStep
  BY <1>33
  DEF Crash, rows, reports, requests, Fault, AnswerStep
<1>34. ASSUME NEW b \in Runner, NEW r \in Run, Claim(b, r) PROVE AnswerStep
  BY <1>34
  DEF Claim, reports, requests, SetStatus, Take, AnswerStep
<1>35. ASSUME NEW r \in Run, NEW b \in Runner, CancelSignal(r, b) PROVE AnswerStep
  BY <1>35
  DEF CancelSignal, rows, reports, CancelAt, AnswerStep
<1>36. ASSUME NEW c \in Reader, Replay(c) PROVE AnswerStep
  BY <1>36
  DEF Replay, rows, reports, requests, ReadTo, AnswerStep
<1>37. ASSUME NEW c \in Reader, Follow(c) PROVE AnswerStep
  BY <1>37
  DEF Follow, rows, reports, requests, ReadTo, AnswerStep
<1>38. ASSUME NEW c \in Reader, TailEmpty(c) PROVE AnswerStep
  BY <1>38
  DEF TailEmpty, rows, reports, requests, AnswerStep
<1>39. ASSUME NEW c \in Reader, Poll(c) PROVE AnswerStep
  BY <1>39
  DEF Poll, rows, reports, requests, PollTo, AnswerStep
<1>40. ASSUME NEW c \in Reader, NEW r \in Run, Join(c, r) PROVE AnswerStep
  BY <1>40
  DEF Join, rows, reports, requests, AnswerStep
<1>41. ASSUME NEW b \in Runner, Announce(b) PROVE AnswerStep
  BY <1>41
  DEF Announce, rows, reports, requests, AnswerStep
<1> QED
  BY <1>1, <1>2, <1>3, <1>4, <1>5, <1>6, <1>7, <1>8, <1>9, <1>10, <1>11, <1>12,
      <1>13, <1>14, <1>15, <1>16, <1>17, <1>18, <1>19, <1>20, <1>21, <1>22,
      <1>23, <1>24, <1>25, <1>26, <1>27, <1>28, <1>29, <1>30, <1>31, <1>32,
      <1>33, <1>34, <1>35, <1>36, <1>37, <1>38, <1>39, <1>40, <1>41
  DEF Next, Submission, Cancellation, Execution, Following

LEMMA CompletionChanges ==
  ASSUME TypeOK, Next
  PROVE  CompletionStep
<1>1. ASSUME NEW r \in Run, Submit(r) PROVE CompletionStep
  BY <1>1
  DEF Submit, rows, SetReport, Asked, TypeOK, RowsTyped, CompletionStep
<1>2. ASSUME NEW r \in Run, Check(r) PROVE CompletionStep
  BY <1>2
  DEF Check, rows, Active, SetReport, Asked, TypeOK, RowsTyped, CompletionStep
<1>3. ASSUME NEW r \in Run, Insert(r) PROVE CompletionStep
  BY <1>3
  DEF Insert, rows, reports, Active, SetStatus, Asked, AddRow, TypeOK,
      RowsTyped, CompletionStep
<1>4. ASSUME NEW r \in Run, Persist(r) PROVE CompletionStep
  BY <1>4
  DEF Persist, reports, SetStatus, Asked, TypeOK, RowsTyped, CompletionStep
<1>5. ASSUME NEW r \in Run, FailSubmission(r) PROVE CompletionStep
  BY <1>5
  DEF FailSubmission, rows, SetReport, Asked, TypeOK, RowsTyped, CompletionStep
<1>6. ASSUME NEW r \in Run, CancelBegin(r) PROVE CompletionStep
  BY <1>6
  DEF CancelBegin, rows, reports, Active, CancelAt, TypeOK, RowsTyped,
      CompletionStep
<1>7. ASSUME NEW r \in Run, CancelEvent(r) PROVE CompletionStep
  BY <1>7
  DEF CancelEvent, rows, reports, CancelAt, TypeOK, RowsTyped, CompletionStep
<1>8. ASSUME NEW r \in Run, CancelRead(r) PROVE CompletionStep
  BY <1>8
  DEF CancelRead, rows, reports, Active, CancelAt, CancelNext, TypeOK,
      RowsTyped, CompletionStep
<1>9. ASSUME NEW r \in Run, CancelWrite(r) PROVE CompletionStep
  BY <1>9
  DEF CancelWrite, reports, SetStatus, CancelAt, CancelNext, TypeOK, RowsTyped,
      CompletionStep
<1>10. ASSUME NEW r \in Run, CancelReport(r) PROVE CompletionStep
  BY <1>10
  DEF CancelReport, rows, SetReport, CancelAt, TypeOK, RowsTyped,
      CompletionStep
<1>11. ASSUME NEW r \in Run, RequestLost(r) PROVE CompletionStep
  BY <1>11
  DEF RequestLost, rows, reports, Fault, Asked, CancelAt, TypeOK, RowsTyped,
      CompletionStep
<1>12. ASSUME NEW r \in Run, Lapse(r) PROVE CompletionStep
  BY <1>12
  DEF Lapse, reports, requests, TimesOut, TypeOK, RowsTyped, CompletionStep
<1>13. ASSUME NEW r \in Run, Stall(r) PROVE CompletionStep
  BY <1>13
  DEF Stall, reports, requests, Fault, TimesOut, TypeOK, RowsTyped,
      CompletionStep
<1>14. ASSUME NEW b \in Runner, StartReport(b) PROVE CompletionStep
  BY <1>14
  DEF StartReport, rows, requests, SetReport, At, Mine, TypeOK, RowsTyped,
      CompletionStep
<1>15. ASSUME NEW b \in Runner, StatusEvent(b) PROVE CompletionStep
  BY <1>15
  DEF StatusEvent, rows, reports, requests, At, Mine, TypeOK, RowsTyped,
      CompletionStep
<1>16. ASSUME NEW b \in Runner, NextPart(b) PROVE CompletionStep
  BY <1>16
  DEF NextPart, rows, reports, requests, At, Mine, TypeOK, RowsTyped,
      CompletionStep
<1>17. ASSUME NEW b \in Runner, AppendPart(b) PROVE CompletionStep
  BY <1>17
  DEF AppendPart, rows, reports, requests, At, Mine, TypeOK, RowsTyped,
      CompletionStep
<1>18. ASSUME NEW b \in Runner, EndOfGraph(b) PROVE CompletionStep
  BY <1>18
  DEF EndOfGraph, rows, reports, requests, At, Mine, TypeOK, RowsTyped,
      CompletionStep
<1>19. ASSUME NEW b \in Runner, CompleteReport(b) PROVE CompletionStep
  BY <1>19
  DEF CompleteReport, rows, requests, SetReport, At, Mine, TypeOK, RowsTyped,
      CompletionStep
<1>20. ASSUME NEW b \in Runner, AppendAnswer(b) PROVE CompletionStep
  BY <1>20
  DEF AppendAnswer, rows, requests, At, Mine, TypeOK, RowsTyped, CompletionStep
<1>21. ASSUME NEW b \in Runner, DoneEvent(b) PROVE CompletionStep
  BY <1>21
  DEF DoneEvent, rows, reports, requests, At, Mine, TypeOK, RowsTyped,
      CompletionStep
<1>22. ASSUME NEW b \in Runner, Complete(b) PROVE CompletionStep
  BY <1>22
  DEF Complete, reports, requests, SetStatus, At, Mine, TypeOK, RowsTyped,
      CompletionStep
<1>23. ASSUME NEW b \in Runner, HandleError(b) PROVE CompletionStep
  BY <1>23
  DEF HandleError, rows, reports, requests, At, Mine, TypeOK, RowsTyped,
      CompletionStep
<1>24. ASSUME NEW b \in Runner, ErrorEvent(b) PROVE CompletionStep
  BY <1>24
  DEF ErrorEvent, rows, reports, requests, At, Mine, TypeOK, RowsTyped,
      CompletionStep
<1>25. ASSUME NEW b \in Runner, Fail(b) PROVE CompletionStep
  BY <1>25
  DEF Fail, reports, requests, SetStatus, At, Mine, TypeOK, RowsTyped,
      CompletionStep
<1>26. ASSUME NEW b \in Runner, FailReport(b) PROVE CompletionStep
  BY <1>26
  DEF FailReport, rows, requests, SetReport, At, Mine, TypeOK, RowsTyped,
      CompletionStep
<1>27. ASSUME NEW b \in Runner, StopRead(b) PROVE CompletionStep
  BY <1>27
  DEF StopRead, rows, reports, requests, Active, At, Mine, TypeOK, RowsTyped,
      CompletionStep
<1>28. ASSUME NEW b \in Runner, StopWrite(b) PROVE CompletionStep
  BY <1>28
  DEF StopWrite, reports, requests, SetStatus, At, Mine, TypeOK, RowsTyped,
      CompletionStep
<1>29. ASSUME NEW b \in Runner, StopReport(b) PROVE CompletionStep
  BY <1>29
  DEF StopReport, rows, requests, SetReport, At, Mine, TypeOK, RowsTyped,
      CompletionStep
<1>30. ASSUME NEW b \in Runner, Raise(b) PROVE CompletionStep
  BY <1>30
  DEF Raise, rows, reports, requests, TypeOK, RowsTyped, CompletionStep
<1>31. ASSUME NEW b \in Runner, Heartbeat(b) PROVE CompletionStep
  BY <1>31
  DEF Heartbeat, reports, requests, TypeOK, RowsTyped, CompletionStep
<1>32. ASSUME NEW b \in Runner, Shutdown(b) PROVE CompletionStep
  BY <1>32
  DEF Shutdown, rows, reports, requests, Fault, TypeOK, RowsTyped,
      CompletionStep
<1>33. ASSUME NEW b \in Runner, Crash(b) PROVE CompletionStep
  BY <1>33
  DEF Crash, rows, reports, requests, Fault, TypeOK, RowsTyped, CompletionStep
<1>34. ASSUME NEW b \in Runner, NEW r \in Run, Claim(b, r) PROVE CompletionStep
  BY <1>34
  DEF Claim, reports, requests, SetStatus, Take, TypeOK, RowsTyped,
      CompletionStep
<1>35. ASSUME NEW r \in Run, NEW b \in Runner, CancelSignal(r, b) PROVE CompletionStep
  BY <1>35
  DEF CancelSignal, rows, reports, CancelAt, TypeOK, RowsTyped, CompletionStep
<1>36. ASSUME NEW c \in Reader, Replay(c) PROVE CompletionStep
  BY <1>36
  DEF Replay, rows, reports, requests, Terminal, ReadTo, TypeOK, RowsTyped,
      CompletionStep
<1>37. ASSUME NEW c \in Reader, Follow(c) PROVE CompletionStep
  BY <1>37
  DEF Follow, rows, reports, requests, ReadTo, TypeOK, RowsTyped,
      CompletionStep
<1>38. ASSUME NEW c \in Reader, TailEmpty(c) PROVE CompletionStep
  BY <1>38
  DEF TailEmpty, rows, reports, requests, TypeOK, RowsTyped, CompletionStep
<1>39. ASSUME NEW c \in Reader, Poll(c) PROVE CompletionStep
  BY <1>39
  DEF Poll, rows, reports, requests, Terminal, PollTo, TypeOK, RowsTyped,
      CompletionStep
<1>40. ASSUME NEW c \in Reader, NEW r \in Run, Join(c, r) PROVE CompletionStep
  BY <1>40
  DEF Join, rows, reports, requests, TypeOK, RowsTyped, CompletionStep
<1>41. ASSUME NEW b \in Runner, Announce(b) PROVE CompletionStep
  BY <1>41
  DEF Announce, rows, reports, requests, At, Mine, TypeOK, RowsTyped,
      CompletionStep
<1> QED
  BY <1>1, <1>2, <1>3, <1>4, <1>5, <1>6, <1>7, <1>8, <1>9, <1>10, <1>11, <1>12,
      <1>13, <1>14, <1>15, <1>16, <1>17, <1>18, <1>19, <1>20, <1>21, <1>22,
      <1>23, <1>24, <1>25, <1>26, <1>27, <1>28, <1>29, <1>30, <1>31, <1>32,
      <1>33, <1>34, <1>35, <1>36, <1>37, <1>38, <1>39, <1>40, <1>41
  DEF Next, Submission, Cancellation, Execution, Following

LEMMA DeliveryChanges ==
  ASSUME TypeOK, Next
  PROVE  DeliveryStep
<1>1. ASSUME NEW r \in Run, Submit(r) PROVE DeliveryStep
  BY <1>1
  DEF Submit, Asked, TypeOK, DeliveryStep, Same
<1>2. ASSUME NEW r \in Run, Check(r) PROVE DeliveryStep
  BY <1>2
  DEF Check, Asked, TypeOK, DeliveryStep, Same
<1>3. ASSUME NEW r \in Run, Insert(r) PROVE DeliveryStep
  BY <1>3
  DEF Insert, Asked, AddRow, TypeOK, DeliveryStep, Same
<1>4. ASSUME NEW r \in Run, Persist(r) PROVE DeliveryStep
  BY <1>4
  DEF Persist, Asked, TypeOK, DeliveryStep, Same
<1>5. ASSUME NEW r \in Run, FailSubmission(r) PROVE DeliveryStep
  BY <1>5
  DEF FailSubmission, Asked, TypeOK, DeliveryStep, Same
<1>6. ASSUME NEW r \in Run, CancelBegin(r) PROVE DeliveryStep
  BY <1>6
  DEF CancelBegin, CancelAt, TypeOK, DeliveryStep, Same
<1>7. ASSUME NEW r \in Run, CancelEvent(r) PROVE DeliveryStep
  BY <1>7
  DEF CancelEvent, CancelAt, TypeOK, DeliveryStep, Same
<1>8. ASSUME NEW r \in Run, CancelRead(r) PROVE DeliveryStep
  BY <1>8
  DEF CancelRead, CancelAt, TypeOK, DeliveryStep, Same
<1>9. ASSUME NEW r \in Run, CancelWrite(r) PROVE DeliveryStep
  BY <1>9
  DEF CancelWrite, CancelAt, TypeOK, DeliveryStep, Same
<1>10. ASSUME NEW r \in Run, CancelReport(r) PROVE DeliveryStep
  BY <1>10
  DEF CancelReport, CancelAt, TypeOK, DeliveryStep, Same
<1>11. ASSUME NEW r \in Run, RequestLost(r) PROVE DeliveryStep
  BY <1>11
  DEF RequestLost, Asked, CancelAt, TypeOK, DeliveryStep, Same
<1>12. ASSUME NEW r \in Run, Lapse(r) PROVE DeliveryStep
  BY <1>12
  DEF Lapse, requests, Executes, TimesOut, TypeOK, DeliveryStep, Same
<1>13. ASSUME NEW r \in Run, Stall(r) PROVE DeliveryStep
  BY <1>13
  DEF Stall, requests, Executes, TimesOut, TypeOK, DeliveryStep, Same
<1>14. ASSUME NEW b \in Runner, StartReport(b) PROVE DeliveryStep
  BY <1>14, GoToDelivers
  DEF StartReport, requests, TypeOK, DeliveryStep, Same
<1>15. ASSUME NEW b \in Runner, StatusEvent(b) PROVE DeliveryStep
  BY <1>15, GoToDelivers
  DEF StatusEvent, requests, TypeOK, DeliveryStep, Same
<1>16. ASSUME NEW b \in Runner, NextPart(b) PROVE DeliveryStep
  <2>1. CASE Leave(b) BY <2>1, LeaveDelivers DEF TypeOK
  <2>2. CASE runner' = [runner EXCEPT ![b].pc = "append", ![b].parts = @ + 1]
    <3>1. runner'[b].pc = "append" /\ \A a \in Runner \ {b} : runner'[a] = runner[a]
      BY <2>2 DEF TypeOK, RunnersTyped
    <3> QED BY <3>1 DEF DeliveryStep, Same
  <2> QED BY <1>16, <2>1, <2>2 DEF NextPart
<1>17. ASSUME NEW b \in Runner, AppendPart(b) PROVE DeliveryStep
  BY <1>17, GoToDelivers
  DEF AppendPart, requests, TypeOK, DeliveryStep, Same
<1>18. ASSUME NEW b \in Runner, EndOfGraph(b) PROVE DeliveryStep
  <2>1. CASE Leave(b) BY <2>1, LeaveDelivers DEF TypeOK
  <2>2. CASE IsResearch(b) /\ GoTo(b, "report") BY <2>2, GoToDelivers DEF TypeOK
  <2>3. CASE ~IsResearch(b) /\ GoTo(b, "done")
    <3>1. /\ runner'[b].pc = "done" /\ runner'[b].run = runner[b].run
          /\ \A a \in Runner \ {b} : runner'[a] = runner[a]
      BY <2>3 DEF GoTo, TypeOK, RunnersTyped
    <3> QED BY <2>3, <3>1 DEF DeliveryStep, Same, Mine, IsResearch
  <2> QED BY <1>18, <2>1, <2>2, <2>3 DEF EndOfGraph
<1>19. ASSUME NEW b \in Runner, CompleteReport(b) PROVE DeliveryStep
  BY <1>19, GoToDelivers
  DEF CompleteReport, requests, TypeOK, DeliveryStep, Same
<1>20. ASSUME NEW b \in Runner, AppendAnswer(b) PROVE DeliveryStep
  <2>1. /\ runner'[b].pc = "done" /\ runner'[b].run = runner[b].run
        /\ \A a \in Runner \ {b} : runner'[a] = runner[a]
    BY <1>20 DEF AppendAnswer, GoTo, TypeOK, RunnersTyped
  <2>2. Mine(b)' \in answered' BY <1>20, <2>1 DEF AppendAnswer, Mine
  <2> QED BY <2>1, <2>2 DEF DeliveryStep, Same
<1>21. ASSUME NEW b \in Runner, DoneEvent(b) PROVE DeliveryStep
  <2>1. /\ runner'[b].pc = "complete" /\ runner'[b].run = runner[b].run
        /\ \A a \in Runner \ {b} : runner'[a] = runner[a]
    BY <1>21 DEF DoneEvent, GoTo, TypeOK, RunnersTyped
  <2>2. Mine(b) \in Run BY <1>21, MineIsRun DEF DoneEvent, At
  <2>3. "done" \in Events BY DEF Events, Done
  <2>4. PICK r \in Run : r = Mine(b) BY <2>2
  <2>5. Emit(r, "done") BY <1>21, <2>4 DEF DoneEvent
  <2>6. Seen(r, Len(stream[r]), "done")' BY <2>3, <2>5, EmitGrows
  <2>7. Mine(b)' = r BY <2>1, <2>4 DEF Mine
  <2>8. Seen(Mine(b), Len(stream[Mine(b)]), "done")' BY <2>6, <2>7 DEF Seen
  <2> QED BY <1>21, <2>1, <2>4, <2>7, <2>8 DEF DoneEvent, DeliveryStep, Same
<1>22. ASSUME NEW b \in Runner, Complete(b) PROVE DeliveryStep
  BY <1>22, GoToDelivers
  DEF Complete, requests, TypeOK, DeliveryStep, Same
<1>23. ASSUME NEW b \in Runner, HandleError(b) PROVE DeliveryStep
  BY <1>23, GoToDelivers, LeaveDelivers
  DEF HandleError, requests, TypeOK, DeliveryStep, Same
<1>24. ASSUME NEW b \in Runner, ErrorEvent(b) PROVE DeliveryStep
  BY <1>24, GoToDelivers
  DEF ErrorEvent, requests, TypeOK, DeliveryStep, Same
<1>25. ASSUME NEW b \in Runner, Fail(b) PROVE DeliveryStep
  BY <1>25, GoToDelivers, LeaveDelivers
  DEF Fail, requests, TypeOK, DeliveryStep, Same
<1>26. ASSUME NEW b \in Runner, FailReport(b) PROVE DeliveryStep
  BY <1>26, LeaveDelivers
  DEF FailReport, requests, TypeOK, DeliveryStep, Same
<1>27. ASSUME NEW b \in Runner, StopRead(b) PROVE DeliveryStep
  BY <1>27, GoToDelivers, LeaveDelivers
  DEF StopRead, requests, StopNext, TypeOK, DeliveryStep, Same
<1>28. ASSUME NEW b \in Runner, StopWrite(b) PROVE DeliveryStep
  BY <1>28, GoToDelivers, LeaveDelivers
  DEF StopWrite, requests, StopNext, TypeOK, DeliveryStep, Same
<1>29. ASSUME NEW b \in Runner, StopReport(b) PROVE DeliveryStep
  BY <1>29, LeaveDelivers
  DEF StopReport, requests, TypeOK, DeliveryStep, Same
<1>30. ASSUME NEW b \in Runner, Raise(b) PROVE DeliveryStep
  BY <1>30, GoToDelivers
  DEF Raise, requests, TypeOK, DeliveryStep, Same
<1>31. ASSUME NEW b \in Runner, Heartbeat(b) PROVE DeliveryStep
  <2>1. runner' = runner \/ runner' = [runner EXCEPT ![b].beating = FALSE]
    BY <1>31 DEF Heartbeat
  <2>2. \A a \in Runner : Same(a) BY <2>1 DEF TypeOK, RunnersTyped, Same
  <2> QED BY <2>2 DEF DeliveryStep
<1>32. ASSUME NEW b \in Runner, Shutdown(b) PROVE DeliveryStep
  BY <1>32, GoToDelivers, LeaveDelivers
  DEF Shutdown, requests, Interrupt, TypeOK, DeliveryStep, Same
<1>33. ASSUME NEW b \in Runner, Crash(b) PROVE DeliveryStep
  BY <1>33, LeaveDelivers
  DEF Crash, requests, TypeOK, DeliveryStep, Same
<1>34. ASSUME NEW b \in Runner, NEW r \in Run, Claim(b, r) PROVE DeliveryStep
  <2>1. /\ runner'[b].pc \notin {"done", "complete"}
        /\ \A a \in Runner \ {b} : runner'[a] = runner[a]
    BY <1>34 DEF Claim, Take, TypeOK, RunnersTyped
  <2> QED BY <2>1 DEF DeliveryStep, Same
<1>35. ASSUME NEW r \in Run, NEW b \in Runner, CancelSignal(r, b) PROVE DeliveryStep
  BY <1>35, GoToDelivers, LeaveDelivers
  DEF CancelSignal, Executes, Interrupt, CancelAt, TypeOK, DeliveryStep, Same
<1>36. ASSUME NEW c \in Reader, Replay(c) PROVE DeliveryStep
  BY <1>36
  DEF Replay, requests, ReadTo, TypeOK, DeliveryStep, Same
<1>37. ASSUME NEW c \in Reader, Follow(c) PROVE DeliveryStep
  BY <1>37
  DEF Follow, requests, ReadTo, TypeOK, DeliveryStep, Same
<1>38. ASSUME NEW c \in Reader, TailEmpty(c) PROVE DeliveryStep
  BY <1>38
  DEF TailEmpty, requests, TypeOK, DeliveryStep, Same
<1>39. ASSUME NEW c \in Reader, Poll(c) PROVE DeliveryStep
  BY <1>39
  DEF Poll, requests, PollTo, TypeOK, DeliveryStep, Same
<1>40. ASSUME NEW c \in Reader, NEW r \in Run, Join(c, r) PROVE DeliveryStep
  BY <1>40
  DEF Join, requests, TypeOK, DeliveryStep, Same
<1>41. ASSUME NEW b \in Runner, Announce(b) PROVE DeliveryStep
  BY <1>41, LeaveDelivers
  DEF Announce, requests, TypeOK, DeliveryStep, Same
<1> QED
  BY <1>1, <1>2, <1>3, <1>4, <1>5, <1>6, <1>7, <1>8, <1>9, <1>10, <1>11, <1>12,
      <1>13, <1>14, <1>15, <1>16, <1>17, <1>18, <1>19, <1>20, <1>21, <1>22,
      <1>23, <1>24, <1>25, <1>26, <1>27, <1>28, <1>29, <1>30, <1>31, <1>32,
      <1>33, <1>34, <1>35, <1>36, <1>37, <1>38, <1>39, <1>40, <1>41
  DEF Next, Submission, Cancellation, Execution, Following

-----------------------------------------------------------------------------
(* What a step does to a reader: it keeps its run and the status it saw or *)
(* reads the status of its run, and it ends at the end of the stream.      *)
ReadStep ==
  \A c \in Reader :
    /\ \/ /\ reader'[c].saw = reader[c].saw /\ reader'[c].run = reader[c].run
          /\ reader[c].pc # "off" => reader'[c].pc # "off"
       \/ /\ reader'[c].pc # "off" /\ reader'[c].run \in Run
          /\ reader'[c].saw = status[reader'[c].run]
    /\ reader'[c].pc = "ended" =>
         \/ reader'[c] = reader[c]
         \/ reader'[c].cursor = Len(stream[reader'[c].run]) /\ UNCHANGED stream

LEMMA ReaderChanges ==
  ASSUME TypeOK, Next
  PROVE  ReadStep
<1>1. ASSUME NEW r \in Run, Submit(r) PROVE ReadStep
  BY <1>1
  DEF Submit, TypeOK, ReadersTyped, ReadStep
<1>2. ASSUME NEW r \in Run, Check(r) PROVE ReadStep
  BY <1>2
  DEF Check, TypeOK, ReadersTyped, ReadStep
<1>3. ASSUME NEW r \in Run, Insert(r) PROVE ReadStep
  BY <1>3
  DEF Insert, AddRow, TypeOK, ReadersTyped, ReadStep
<1>4. ASSUME NEW r \in Run, Persist(r) PROVE ReadStep
  BY <1>4
  DEF Persist, TypeOK, ReadersTyped, ReadStep
<1>5. ASSUME NEW r \in Run, FailSubmission(r) PROVE ReadStep
  BY <1>5
  DEF FailSubmission, TypeOK, ReadersTyped, ReadStep
<1>6. ASSUME NEW r \in Run, CancelBegin(r) PROVE ReadStep
  BY <1>6
  DEF CancelBegin, TypeOK, ReadersTyped, ReadStep
<1>7. ASSUME NEW r \in Run, CancelEvent(r) PROVE ReadStep
  BY <1>7
  DEF CancelEvent, TypeOK, ReadersTyped, ReadStep
<1>8. ASSUME NEW r \in Run, CancelRead(r) PROVE ReadStep
  BY <1>8
  DEF CancelRead, TypeOK, ReadersTyped, ReadStep
<1>9. ASSUME NEW r \in Run, CancelWrite(r) PROVE ReadStep
  BY <1>9
  DEF CancelWrite, TypeOK, ReadersTyped, ReadStep
<1>10. ASSUME NEW r \in Run, CancelReport(r) PROVE ReadStep
  BY <1>10
  DEF CancelReport, TypeOK, ReadersTyped, ReadStep
<1>11. ASSUME NEW r \in Run, RequestLost(r) PROVE ReadStep
  BY <1>11
  DEF RequestLost, TypeOK, ReadersTyped, ReadStep
<1>12. ASSUME NEW r \in Run, Lapse(r) PROVE ReadStep
  BY <1>12
  DEF Lapse, TimesOut, TypeOK, ReadersTyped, ReadStep
<1>13. ASSUME NEW r \in Run, Stall(r) PROVE ReadStep
  BY <1>13
  DEF Stall, TimesOut, TypeOK, ReadersTyped, ReadStep
<1>14. ASSUME NEW b \in Runner, StartReport(b) PROVE ReadStep
  BY <1>14
  DEF StartReport, TypeOK, ReadersTyped, ReadStep
<1>15. ASSUME NEW b \in Runner, StatusEvent(b) PROVE ReadStep
  BY <1>15
  DEF StatusEvent, TypeOK, ReadersTyped, ReadStep
<1>16. ASSUME NEW b \in Runner, NextPart(b) PROVE ReadStep
  BY <1>16
  DEF NextPart, TypeOK, ReadersTyped, ReadStep
<1>17. ASSUME NEW b \in Runner, AppendPart(b) PROVE ReadStep
  BY <1>17
  DEF AppendPart, TypeOK, ReadersTyped, ReadStep
<1>18. ASSUME NEW b \in Runner, EndOfGraph(b) PROVE ReadStep
  BY <1>18
  DEF EndOfGraph, TypeOK, ReadersTyped, ReadStep
<1>19. ASSUME NEW b \in Runner, CompleteReport(b) PROVE ReadStep
  BY <1>19
  DEF CompleteReport, TypeOK, ReadersTyped, ReadStep
<1>20. ASSUME NEW b \in Runner, AppendAnswer(b) PROVE ReadStep
  BY <1>20
  DEF AppendAnswer, TypeOK, ReadersTyped, ReadStep
<1>21. ASSUME NEW b \in Runner, DoneEvent(b) PROVE ReadStep
  BY <1>21
  DEF DoneEvent, TypeOK, ReadersTyped, ReadStep
<1>22. ASSUME NEW b \in Runner, Complete(b) PROVE ReadStep
  BY <1>22
  DEF Complete, TypeOK, ReadersTyped, ReadStep
<1>23. ASSUME NEW b \in Runner, HandleError(b) PROVE ReadStep
  BY <1>23
  DEF HandleError, TypeOK, ReadersTyped, ReadStep
<1>24. ASSUME NEW b \in Runner, ErrorEvent(b) PROVE ReadStep
  BY <1>24
  DEF ErrorEvent, TypeOK, ReadersTyped, ReadStep
<1>25. ASSUME NEW b \in Runner, Fail(b) PROVE ReadStep
  BY <1>25
  DEF Fail, TypeOK, ReadersTyped, ReadStep
<1>26. ASSUME NEW b \in Runner, FailReport(b) PROVE ReadStep
  BY <1>26
  DEF FailReport, TypeOK, ReadersTyped, ReadStep
<1>27. ASSUME NEW b \in Runner, StopRead(b) PROVE ReadStep
  BY <1>27
  DEF StopRead, TypeOK, ReadersTyped, ReadStep
<1>28. ASSUME NEW b \in Runner, StopWrite(b) PROVE ReadStep
  BY <1>28
  DEF StopWrite, TypeOK, ReadersTyped, ReadStep
<1>29. ASSUME NEW b \in Runner, StopReport(b) PROVE ReadStep
  BY <1>29
  DEF StopReport, TypeOK, ReadersTyped, ReadStep
<1>30. ASSUME NEW b \in Runner, Raise(b) PROVE ReadStep
  BY <1>30
  DEF Raise, TypeOK, ReadersTyped, ReadStep
<1>31. ASSUME NEW b \in Runner, Heartbeat(b) PROVE ReadStep
  BY <1>31
  DEF Heartbeat, TypeOK, ReadersTyped, ReadStep
<1>32. ASSUME NEW b \in Runner, Shutdown(b) PROVE ReadStep
  BY <1>32
  DEF Shutdown, TypeOK, ReadersTyped, ReadStep
<1>33. ASSUME NEW b \in Runner, Crash(b) PROVE ReadStep
  BY <1>33
  DEF Crash, TypeOK, ReadersTyped, ReadStep
<1>34. ASSUME NEW b \in Runner, NEW r \in Run, Claim(b, r) PROVE ReadStep
  BY <1>34
  DEF Claim, Take, TypeOK, ReadersTyped, ReadStep
<1>35. ASSUME NEW r \in Run, NEW b \in Runner, CancelSignal(r, b) PROVE ReadStep
  BY <1>35
  DEF CancelSignal, TypeOK, ReadersTyped, ReadStep
<1>36. ASSUME NEW c \in Reader, Replay(c) PROVE ReadStep
  BY <1>36
  DEF Replay, ReaderAt, ReadTo, TypeOK, ReadersTyped, ReadStep
<1>37. ASSUME NEW c \in Reader, Follow(c) PROVE ReadStep
  BY <1>37
  DEF Follow, ReaderAt, ReadTo, TypeOK, ReadersTyped, ReadStep
<1>38. ASSUME NEW c \in Reader, TailEmpty(c) PROVE ReadStep
  BY <1>38
  DEF TailEmpty, ReaderAt, TypeOK, ReadersTyped, ReadStep
<1>39. ASSUME NEW c \in Reader, Poll(c) PROVE ReadStep
  BY <1>39
  DEF Poll, ReaderAt, PollTo, TypeOK, ReadersTyped, ReadStep
<1>40. ASSUME NEW c \in Reader, NEW r \in Run, Join(c, r) PROVE ReadStep
  <2>1. PICK after \in 0..Len(stream[r]) :
          reader' = [reader EXCEPT ![c] =
            [pc |-> "replay", run |-> r, cursor |-> after, saw |-> status[r]]]
    BY <1>40 DEF Join
  <2>2. /\ reader'[c].run = r /\ reader'[c].saw = status[r] /\ reader'[c].pc = "replay"
        /\ \A d \in Reader \ {c} : reader'[d] = reader[d]
    BY <2>1 DEF TypeOK, ReadersTyped
  <2> QED BY <2>2 DEF ReadStep
<1>41. ASSUME NEW b \in Runner, Announce(b) PROVE ReadStep
  BY <1>41
  DEF Announce, TypeOK, ReadersTyped, ReadStep
<1> QED
  BY <1>1, <1>2, <1>3, <1>4, <1>5, <1>6, <1>7, <1>8, <1>9, <1>10, <1>11, <1>12,
      <1>13, <1>14, <1>15, <1>16, <1>17, <1>18, <1>19, <1>20, <1>21, <1>22,
      <1>23, <1>24, <1>25, <1>26, <1>27, <1>28, <1>29, <1>30, <1>31, <1>32,
      <1>33, <1>34, <1>35, <1>36, <1>37, <1>38, <1>39, <1>40, <1>41
  DEF Next, Submission, Cancellation, Execution, Following

-----------------------------------------------------------------------------
LEMMA SeenStays ==
  ASSUME TypeOK, TypeOK', NEW r \in Run, Grows(r), NEW n, NEW event, Seen(r, n, event)
  PROVE  \E i \in DOMAIN stream'[r] : i <= n /\ stream'[r][i] = event
  BY DEF Seen, Grows

LEMMA SeenInStream ==
  ASSUME TypeOK, TypeOK', NEW r \in Run, Grows(r), NEW event, Seen(r, Len(stream[r]), event)
  PROVE  \E i \in DOMAIN stream'[r] : i <= Len(stream'[r]) /\ stream'[r][i] = event
<1>1. stream'[r] \in Seq(Events) BY DEF TypeOK
<1>2. PICK i \in DOMAIN stream[r] : stream[r][i] = event BY DEF Seen
<1>3. i \in DOMAIN stream'[r] /\ stream'[r][i] = event BY <1>2 DEF Grows
<1>4. i <= Len(stream'[r]) BY <1>1, <1>3
<1> QED BY <1>3, <1>4

(* The types are kept by every step. *)
LEMMA TypeStep ==
  ASSUME TypeOK, [Next]_vars
  PROVE  TypeOK'
<1>1. CASE Next
  BY <1>1, RowsTypedStep, RequestsTypedStep, RunnersTypedStep, ReadersTypedStep, StreamStep
  DEF TypeOK
<1>2. CASE UNCHANGED vars
  <2>1. RowsTyped' BY <1>2 DEF vars, rows, reports, TypeOK, RowsTyped
  <2>2. RequestsTyped' BY <1>2 DEF vars, requests, TypeOK, RequestsTyped
  <2>3. RunnersTyped' BY <1>2 DEF vars, TypeOK, RunnersTyped, Working
  <2>4. ReadersTyped' BY <1>2 DEF vars, TypeOK, ReadersTyped, ReaderAt
  <2> QED BY <1>2, <2>1, <2>2, <2>3, <2>4 DEF vars, TypeOK
<1> QED BY <1>1, <1>2

(* An insert meets no active run of its conversation, and a claim takes a  *)
(* run that is active.                                                     *)
LEMMA OneActiveStep ==
  ASSUME TypeOK, OneActiveRun, StatusStep
  PROVE  OneActiveRun'
<1>1. CASE status' = status BY <1>1 DEF OneActiveRun
<1>2. ASSUME NEW r \in Run, SetStatus(r, "PENDING"), ActiveIn(ConversationOf[r]) = {}
      PROVE  OneActiveRun'
  <2>1. \A q \in Run \ {r} : status'[q] = status[q]
    BY <1>2 DEF SetStatus, TypeOK, RowsTyped
  <2>2. \A q \in Run : status[q] \in Active => ConversationOf[q] # ConversationOf[r]
    BY <1>2 DEF ActiveIn
  <2> QED BY <2>1, <2>2 DEF OneActiveRun
<1>3. ASSUME NEW r \in Run, SetStatus(r, "RUNNING"), status[r] \in Active
      PROVE  OneActiveRun'
  <2>1. \A q \in Run : status'[q] \in Active => status[q] \in Active
    BY <1>3 DEF SetStatus, TypeOK, RowsTyped
  <2> QED BY <2>1 DEF OneActiveRun
<1>4. ASSUME NEW r \in Run, NEW s \in Terminal, SetStatus(r, s)
      PROVE  OneActiveRun'
  <2>1. \A q \in Run : status'[q] \in Active => status[q] \in Active
    BY <1>4 DEF SetStatus, TypeOK, RowsTyped, Active, Terminal
  <2> QED BY <2>1 DEF OneActiveRun
<1> QED BY <1>1, <1>2, <1>3, <1>4 DEF StatusStep

(* A status, once there, never goes; only a submission makes one. *)
LEMMA RowsInsertedStep ==
  ASSUME TypeOK, RowsInserted, StatusStep, RequestStep, ExecutionStep
  PROVE  RowsInserted'
<1>1. \A r \in Run : status[r] # "ABSENT" => status'[r] # "ABSENT"
  BY DEF StatusStep, SetStatus, Terminal, TypeOK, RowsTyped
<1>2. ASSUME NEW r \in Run, request'[r] \in Fresh
      PROVE  status'[r] = "ABSENT"
  <2>1. status[r] = "ABSENT" BY <1>2 DEF RequestStep, RowsInserted, Fresh
  <2>2. request'[r] # "undo" BY <1>2 DEF Fresh
  <2>3. status'[r] = status[r]
    BY <1>2, <2>1, <2>2 DEF StatusStep, SetStatus, Active, TypeOK, RowsTyped
  <2> QED BY <2>1, <2>3
<1>3. \A r \in Run : cancel'[r] # "new" => status'[r] # "ABSENT"
  BY <1>1 DEF RequestStep, RowsInserted
<1>4. \A b \in Runner, r \in Run : Executes(b, r)' => status'[r] # "ABSENT"
  BY <1>1 DEF ExecutionStep, RowsInserted
<1> QED BY <1>2, <1>3, <1>4 DEF RowsInserted, Fresh

LEMMA EndedStep ==
  ASSUME TypeOK, RowsInserted, StatusStep
  PROVE  \A r \in Run : status[r] \in Terminal => status'[r] \in Terminal
<1>1. ASSUME NEW r \in Run, SetStatus(r, "PENDING"), request[r] = "insert"
      PROVE  status[r] \notin Terminal
  BY <1>1 DEF RowsInserted, Terminal
<1> QED BY <1>1 DEF StatusStep, SetStatus, Active, Terminal, TypeOK, RowsTyped

LEMMA RunnerDeliveredStep ==
  ASSUME TypeOK, TypeOK', RunnerDelivered, AnswerStep, DeliveryStep,
         \A r \in Run : Grows(r)
  PROVE  RunnerDelivered'
<1> SUFFICES ASSUME NEW b \in Runner
             PROVE  /\ runner'[b].pc \in {"done", "complete"} /\ IsResearch(b)'
                         => Mine(b)' \in answered'
                    /\ At(b, "complete")' => Seen(Mine(b), Len(stream[Mine(b)]), "done")'
  BY DEF RunnerDelivered
<1>1. ASSUME runner'[b].pc \in {"done", "complete"}, IsResearch(b)'
      PROVE  Mine(b)' \in answered'
  <2>1. CASE Same(b) BY <1>1, <2>1 DEF Same, RunnerDelivered, IsResearch, Mine, AnswerStep
  <2>2. CASE ~Same(b) /\ runner'[b].pc = "done"
    BY <1>1, <2>2 DEF DeliveryStep, IsResearch
  <2>3. CASE ~Same(b) /\ runner'[b].pc = "complete"
    BY <1>1, <2>3 DEF DeliveryStep, IsResearch, RunnerDelivered, At, AnswerStep
  <2> QED BY <1>1, <2>1, <2>2, <2>3
<1>2. ASSUME At(b, "complete")'
      PROVE  Seen(Mine(b), Len(stream[Mine(b)]), "done")'
  <2>1. CASE Same(b)
    <3>1. At(b, "complete") /\ Mine(b)' = Mine(b) BY <1>2, <2>1 DEF Same, At, Mine
    <3>2. Mine(b) \in Run BY <3>1, MineIsRun DEF At
    <3>3. Seen(Mine(b), Len(stream[Mine(b)]), "done") BY <3>1 DEF RunnerDelivered
    <3> QED BY <3>1, <3>2, <3>3, SeenInStream DEF Seen
  <2>2. CASE ~Same(b) BY <1>2, <2>2 DEF DeliveryStep, At
  <2> QED BY <2>1, <2>2
<1> QED BY <1>1, <1>2

LEMMA CompletedRunDeliveredStep ==
  ASSUME TypeOK, TypeOK', RunnerDelivered, CompletedRunDelivered, AnswerStep, CompletionStep,
         \A r \in Run : Grows(r)
  PROVE  CompletedRunDelivered'
<1> SUFFICES ASSUME NEW r \in Run, status'[r] = "COMPLETED"
             PROVE  /\ Seen(r, Len(stream[r]), "done")'
                    /\ r \in Research => r \in answered'
  BY DEF CompletedRunDelivered
<1>1. Seen(r, Len(stream[r]), "done") /\ (r \in Research => r \in answered)
  BY DEF CompletionStep, CompletedRunDelivered, RunnerDelivered, At, IsResearch
<1>2. Seen(r, Len(stream[r]), "done")' BY <1>1, SeenInStream DEF Seen
<1> QED BY <1>1, <1>2 DEF AnswerStep

LEMMA ReaderInformedStep ==
  ASSUME TypeOK, TypeOK', CompletedRunDelivered, ReaderInformed, ReadStep,
         \A r \in Run : Grows(r)
  PROVE  ReaderInformed'
<1> SUFFICES ASSUME NEW c \in Reader, reader'[c].saw = "COMPLETED"
             PROVE  /\ ~ReaderAt(c, "off")'
                    /\ Seen(reader[c].run, Len(stream[reader[c].run]), "done")'
  BY DEF ReaderInformed
<1> DEFINE r == reader'[c].run
<1>1. reader'[c].pc # "off" /\ r \in Run /\ Seen(r, Len(stream[r]), "done")
  <2>1. CASE reader'[c].saw = reader[c].saw /\ reader'[c].run = reader[c].run
             /\ (reader[c].pc # "off" => reader'[c].pc # "off")
    BY <2>1 DEF ReaderInformed, ReaderAt, TypeOK, ReadersTyped
  <2>2. CASE /\ reader'[c].pc # "off" /\ reader'[c].run \in Run
             /\ reader'[c].saw = status[reader'[c].run]
    BY <2>2 DEF CompletedRunDelivered
  <2> QED BY <2>1, <2>2 DEF ReadStep
<1>2. \E i \in DOMAIN stream'[r] : i <= Len(stream'[r]) /\ stream'[r][i] = "done"
  BY <1>1, SeenInStream
<1> QED BY <1>1, <1>2 DEF ReaderAt, Seen

(* The stream was read to its end after the status was. *)
LEMMA ReaderSawOutcomeStep ==
  ASSUME TypeOK, TypeOK', ReaderInformed', ReaderSawOutcome, ReadStep,
         \A r \in Run : Grows(r)
  PROVE  ReaderSawOutcome'
<1> SUFFICES ASSUME NEW c \in Reader, reader'[c].pc = "ended", reader'[c].saw = "COMPLETED"
             PROVE  Seen(reader[c].run, reader[c].cursor, "done")'
  BY DEF ReaderSawOutcome, ReaderAt
<1>1. CASE reader'[c] = reader[c]
  <2>1. Seen(reader[c].run, reader[c].cursor, "done")
    BY <1>1 DEF ReaderSawOutcome, ReaderAt
  <2>2. reader[c].run \in Run BY <1>1 DEF TypeOK, ReadersTyped, ReaderAt
  <2> QED BY <1>1, <2>1, <2>2, SeenStays DEF Seen
<1>2. CASE reader'[c].cursor = Len(stream[reader'[c].run]) /\ UNCHANGED stream
  BY <1>2 DEF ReaderInformed, Seen
<1> QED BY <1>1, <1>2 DEF ReadStep

-----------------------------------------------------------------------------
LEMMA InitIInv == Init => IInv
<1> SUFFICES ASSUME Init PROVE IInv OBVIOUS
<1>1. TypeOK BY TypeInit
<1>2. OneActiveRun BY DEF Init, OneActiveRun, Active
<1>3. RowsInserted BY DEF Init, RowsInserted, Executes, Working, Idle
<1>4. CompletedRunDelivered BY DEF Init, CompletedRunDelivered
<1>5. RunnerDelivered BY DEF Init, RunnerDelivered, Idle, At
<1>6. ReaderInformed BY DEF Init, ReaderInformed, None
<1>7. ReaderSawOutcome BY DEF Init, ReaderSawOutcome, ReaderAt
<1> QED BY <1>1, <1>2, <1>3, <1>4, <1>5, <1>6, <1>7 DEF IInv

LEMMA NextIInv ==
  ASSUME IInv, Next
  PROVE  IInv'
<1>1. /\ TypeOK /\ OneActiveRun /\ RowsInserted /\ CompletedRunDelivered
      /\ RunnerDelivered /\ ReaderInformed /\ ReaderSawOutcome
  BY DEF IInv
<1>2. TypeOK' BY <1>1, TypeStep
<1>3. \A r \in Run : Grows(r) BY <1>1, StreamStep
<1>4. StatusStep BY <1>1, StatusChanges
<1>5. RequestStep /\ ExecutionStep BY <1>1, RequestChanges, ExecutionChanges
<1>6. AnswerStep /\ CompletionStep /\ DeliveryStep
  BY <1>1, AnswerChanges, CompletionChanges, DeliveryChanges
<1>7. ReadStep BY <1>1, ReaderChanges
<1>8. OneActiveRun' BY <1>1, <1>4, OneActiveStep
<1>9. RowsInserted' BY <1>1, <1>4, <1>5, RowsInsertedStep
<1>10. RunnerDelivered' BY <1>1, <1>2, <1>3, <1>6, RunnerDeliveredStep
<1>11. CompletedRunDelivered' BY <1>1, <1>2, <1>3, <1>6, CompletedRunDeliveredStep
<1>12. ReaderInformed' BY <1>1, <1>2, <1>3, <1>7, ReaderInformedStep
<1>13. ReaderSawOutcome' BY <1>1, <1>2, <1>3, <1>7, <1>12, ReaderSawOutcomeStep
<1> QED BY <1>2, <1>8, <1>9, <1>10, <1>11, <1>12, <1>13 DEF IInv

LEMMA StutterIInv ==
  ASSUME IInv, UNCHANGED vars
  PROVE  IInv'
<1>1. TypeOK' BY TypeStep DEF IInv
<1>2. OneActiveRun' /\ CompletedRunDelivered' /\ RowsInserted'
  BY DEF IInv, vars, rows, reports, requests, OneActiveRun, CompletedRunDelivered, Seen,
      RowsInserted, Executes, Working
<1>3. RunnerDelivered'
  BY DEF IInv, vars, reports, RunnerDelivered, IsResearch, Mine, At, Seen
<1>4. ReaderInformed' /\ ReaderSawOutcome'
  BY DEF IInv, vars, ReaderInformed, ReaderSawOutcome, ReaderAt, Seen
<1> QED BY <1>1, <1>2, <1>3, <1>4 DEF IInv

(* The invariant holds in every state: submissions, claims, take-overs,    *)
(* cancellations, crashes and readers keep it, however they interleave.    *)
THEOREM Invariance == Spec => []IInv
<1>1. IInv /\ [Next]_vars => IInv' BY NextIInv, StutterIInv
<1> QED BY InitIInv, <1>1, PTL DEF Spec

(* Every variable keeps its type, and a running run has a claimant. *)
THEOREM TypeCorrect == Spec => []TypeOK
<1>1. IInv => TypeOK BY DEF IInv
<1> QED BY <1>1, Invariance, PTL

(* A conversation never has two active runs: the unique index decides      *)
(* between two submissions that both passed the test, and no claim or late *)
(* write makes an ended run active again.                                  *)
THEOREM OneActive == Spec => []OneActiveRun
<1>1. IInv => OneActiveRun BY DEF IInv
<1> QED BY <1>1, Invariance, PTL

(* A run is COMPLETED only with its "done" event in the stream and, when   *)
(* it is a research run, its report in the conversation.                   *)
THEOREM CompletedDelivered == Spec => []CompletedRunDelivered
<1>1. IInv => CompletedRunDelivered BY DEF IInv
<1> QED BY <1>1, Invariance, PTL

(* A reader whose stream was closed on a COMPLETED run was sent "done". *)
THEOREM ReadersInformed == Spec => []ReaderSawOutcome
<1>1. IInv => ReaderSawOutcome BY DEF IInv
<1> QED BY <1>1, Invariance, PTL

(* An ended run is never active again, whoever still works on it. *)
THEOREM EndedStays == Spec => EndedRunStaysEnded
<1>1. ASSUME IInv, [Next]_vars
      PROVE  [\A r \in Run : status[r] \in Terminal => status'[r] \in Terminal]_vars
  <2>1. CASE Next
    <3>1. TypeOK /\ RowsInserted BY <1>1 DEF IInv
    <3>2. StatusStep BY <2>1, <3>1, StatusChanges
    <3> QED BY <3>1, <3>2, EndedStep
  <2>2. CASE UNCHANGED vars BY <2>2
  <2> QED BY <1>1, <2>1, <2>2
<1> QED BY <1>1, Invariance, PTL DEF Spec, EndedRunStaysEnded

=============================================================================
