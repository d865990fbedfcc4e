-------------------------- MODULE UserEvents_proofs --------------------------
(***************************************************************************)
(* Safety of UserEvents for any number of events, dispatch loops and tabs. *)
(***************************************************************************)
EXTENDS UserEvents, SequenceTheorems, TLAPS

(* What a batch has sent is in the stream. *)
SentIsPublished ==
  \A d \in Dispatcher : batch[d] # None =>
    \A e \in batch[d].sent : \E p \in DOMAIN stream : stream[p] = e

(* What a tab has read was listed. *)
ConnCovered == \A t \in Tab : \A p \in 1 .. conn[t].at : stream[p] \in listed

IInv == TypeOK /\ ProcessedIsPublished /\ SentIsPublished /\ CursorCovered /\ ConnCovered

LEMMA AppendKeeps ==
  ASSUME NEW S, NEW s \in Seq(S), NEW e \in S
  PROVE  /\ Append(s, e) \in Seq(S)
         /\ Len(s) \in Nat /\ Len(Append(s, e)) = Len(s) + 1
         /\ DOMAIN Append(s, e) = 1 .. Len(s) + 1 /\ DOMAIN s = 1 .. Len(s)
         /\ Append(s, e)[Len(s) + 1] = e
         /\ \A p \in DOMAIN s : Append(s, e)[p] = s[p]
  OBVIOUS

(* The list of the notification center after an entry is recorded. *)
LEMMA RecordTyped ==
  ASSUME NEW notes \in Seq(Note), NEW p \in Nat, MaxStored \in Nat, MaxStored > 0
  PROVE  /\ Record(notes, p) \in Seq(Note)
         /\ Len(notes) =< MaxStored => Len(Record(notes, p)) =< MaxStored
         /\ (\A i, j \in DOMAIN notes : notes[i].at = notes[j].at => i = j) =>
              \A i, j \in DOMAIN Record(notes, p) : Record(notes, p)[i].at = Record(notes, p)[j].at => i = j
<1> DEFINE new == <<[at |-> p, read |-> FALSE]>>
           all == new \o notes
           n == IF Len(notes) < MaxStored THEN Len(notes) + 1 ELSE MaxStored
<1>1. CASE \E i \in DOMAIN notes : notes[i].at = p BY <1>1 DEF Record
<1>2. CASE \A i \in DOMAIN notes : notes[i].at # p
  <2>1. [at |-> p, read |-> FALSE] \in Note BY DEF Note
  <2>2. new \in Seq(Note) /\ Len(new) = 1 /\ new[1] = [at |-> p, read |-> FALSE] BY <2>1
  <2>3. /\ all \in Seq(Note) /\ Len(all) = Len(notes) + 1 /\ Len(notes) \in Nat
        /\ \A i \in 1 .. Len(notes) + 1 : all[i] = IF i =< 1 THEN new[i] ELSE notes[i - 1]
    BY <2>2, ConcatProperties, LenProperties
  <2>4. n \in Nat /\ n >= 1 /\ n =< Len(notes) + 1 /\ (Len(notes) =< MaxStored => n =< MaxStored) BY <2>3
  <2> HIDE DEF all, n, new
  <2>5. \A i \in 1 .. n : all[i] \in Note
    <3>1. \A i \in 1 .. n : i \in 1 .. Len(all) BY <2>3, <2>4
    <3> QED BY <2>3, <3>1, ElementOfSeq
  <2>6. /\ SubSeq(all, 1, n) \in Seq(Note) /\ Len(SubSeq(all, 1, n)) = n
        /\ \A i \in 1 .. n : SubSeq(all, 1, n)[i] = all[i]
    <3>1. /\ SubSeq(all, 1, n) \in Seq(Note)
          /\ Len(SubSeq(all, 1, n)) = IF 1 =< n THEN n - 1 + 1 ELSE 0
          /\ \A i \in 1 .. n - 1 + 1 : SubSeq(all, 1, n)[i] = all[1 + i - 1]
      BY <2>4, <2>5, SubSeqProperties
    <3> QED BY <2>4, <3>1
  <2>7. Record(notes, p) = SubSeq(all, 1, n) BY <1>2 DEF Record, RecordAgain, all, n, new
  <2>8. DOMAIN SubSeq(all, 1, n) = 1 .. n BY <2>6, LenProperties
  <2>9. ASSUME \A i, j \in DOMAIN notes : notes[i].at = notes[j].at => i = j,
               NEW i \in 1 .. n, NEW j \in 1 .. n, all[i].at = all[j].at
        PROVE  i = j
    <3>1. DOMAIN notes = 1 .. Len(notes) BY LenProperties
    <3>0. \A k \in 1 .. n : all[k] = IF k = 1 THEN [at |-> p, read |-> FALSE] ELSE notes[k - 1]
      <4> TAKE k \in 1 .. n
      <4>1. k \in 1 .. Len(notes) + 1 BY <2>4
      <4>2. all[k] = IF k =< 1 THEN new[k] ELSE notes[k - 1] BY <2>3, <4>1
      <4>3. (k =< 1) = (k = 1) BY <4>1
      <4> QED BY <2>2, <4>2, <4>3
    <3>2. all[i].at = IF i = 1 THEN p ELSE notes[i - 1].at BY <3>0
    <3>3. all[j].at = IF j = 1 THEN p ELSE notes[j - 1].at BY <3>0
    <3>4. i # 1 => i - 1 \in DOMAIN notes BY <2>3, <2>4, <3>1
    <3>5. j # 1 => j - 1 \in DOMAIN notes BY <2>3, <2>4, <3>1
    <3>6. CASE i = 1
      <4>1. SUFFICES ASSUME j # 1 PROVE FALSE BY <3>6
      <4> QED BY <1>2, <2>9, <3>2, <3>3, <3>5, <3>6, <4>1
    <3>7. CASE j = 1
      <4>1. SUFFICES ASSUME i # 1 PROVE FALSE BY <3>7
      <4> QED BY <1>2, <2>9, <3>2, <3>3, <3>4, <3>7, <4>1
    <3>8. CASE i # 1 /\ j # 1
      <4>1. notes[i - 1].at = notes[j - 1].at BY <2>9, <3>2, <3>3, <3>8
      <4>2. i - 1 = j - 1 BY <2>9, <3>4, <3>5, <3>8, <4>1
      <4> QED BY <2>4, <4>2
    <3> QED BY <3>6, <3>7, <3>8
  <2>10. ASSUME \A i, j \in DOMAIN notes : notes[i].at = notes[j].at => i = j,
                NEW i \in DOMAIN Record(notes, p), NEW j \in DOMAIN Record(notes, p),
                Record(notes, p)[i].at = Record(notes, p)[j].at
         PROVE  i = j
    <3>1. i \in 1 .. n /\ j \in 1 .. n BY <2>7, <2>8, <2>10
    <3>2. all[i].at = all[j].at BY <2>6, <2>7, <2>10, <3>1
    <3> QED BY <2>9, <2>10, <3>1, <3>2
  <2>11. Record(notes, p) \in Seq(Note) BY <2>6, <2>7
  <2>12. Len(notes) =< MaxStored => Len(Record(notes, p)) =< MaxStored BY <2>4, <2>6, <2>7
  <2> QED BY <2>10, <2>11, <2>12
<1> QED BY <1>1, <1>2

(* The stream only grows, so what refers to it stays true. *)
LEMMA Published ==
  ASSUME TypeOK, NEW e \in Event \cup Direct, stream' = Append(stream, e)
  PROVE  /\ stream' \in Seq(Event \cup Direct)
         /\ Len(stream) \in Nat /\ Len(stream') = Len(stream) + 1
         /\ \A f : (\E p \in DOMAIN stream : stream[p] = f) => \E p \in DOMAIN stream' : stream'[p] = f
         /\ \E p \in DOMAIN stream' : stream'[p] = e
         /\ \A p \in 1 .. Len(stream) : p \in DOMAIN stream /\ p \in DOMAIN stream' /\ stream'[p] = stream[p]
<1>1. stream \in Seq(Event \cup Direct) BY DEF TypeOK
<1> QED BY <1>1, AppendKeeps

LEMMA InitInv == Init => IInv
<1> SUFFICES ASSUME Init PROVE IInv OBVIOUS
<1> USE ConstantsAssumption
<1>1. stream \in Seq(Event \cup Direct) /\ Len(stream) = 0 BY DEF Init
<1>2. storage.notes \in Seq(Note) /\ storage.last = 0 BY DEF Init
<1>3. TypeOK BY <1>1, <1>2 DEF Init, TypeOK, Closed
<1>4. ProcessedIsPublished /\ SentIsPublished BY DEF Init, ProcessedIsPublished, SentIsPublished
<1>5. CursorCovered /\ ConnCovered BY <1>2 DEF Init, CursorCovered, ConnCovered, Closed
<1> QED BY <1>3, <1>4, <1>5 DEF IInv

LEMMA FaultTyped == ASSUME TypeOK, Fault \/ Acts \/ left' = left PROVE left' \in [faults : Nat, user : Nat]
  BY DEF TypeOK, Fault, Acts

(* The steps of the browser leave the backend alone. *)
LEMMA BrowserKeeps ==
  ASSUME IInv, UNCHANGED backend
  PROVE  ProcessedIsPublished' /\ SentIsPublished'
  BY DEF IInv, backend, ProcessedIsPublished, SentIsPublished

(* The steps of the backend that append nothing. *)
LEMMA BackendKeeps ==
  ASSUME IInv, UNCHANGED browser, UNCHANGED stream
  PROVE  CursorCovered' /\ ConnCovered'
  BY DEF IInv, browser, CursorCovered, ConnCovered

LEMMA AppendCovers ==
  ASSUME IInv, UNCHANGED browser, NEW e \in Event \cup Direct, stream' = Append(stream, e)
  PROVE  /\ CursorCovered' /\ ConnCovered'
         /\ storage.last \in 0 .. Len(stream')
         /\ conn \in [Tab -> [state : {"idle", "open", "stopped"}, at : 0 .. Len(stream')]]
<1>1. TypeOK BY DEF IInv
<1>2. /\ Len(stream) \in Nat /\ Len(stream') = Len(stream) + 1
      /\ \A p \in 1 .. Len(stream) : p \in DOMAIN stream' /\ stream'[p] = stream[p]
  BY <1>1, Published
<1>3. storage.last \in 0 .. Len(stream) /\ \A t \in Tab : conn[t].at \in 0 .. Len(stream) BY <1>1 DEF TypeOK
<1>4. CursorCovered' BY <1>2, <1>3 DEF IInv, browser, CursorCovered
<1>5. ConnCovered' BY <1>2, <1>3 DEF IInv, browser, ConnCovered
<1> QED BY <1>1, <1>2, <1>3, <1>4, <1>5 DEF TypeOK

LEMMA NextInv == IInv /\ [Next]_vars => IInv'
<1> SUFFICES ASSUME IInv, [Next]_vars PROVE IInv' OBVIOUS
<1> USE ConstantsAssumption
<1>0. TypeOK BY DEF IInv
<1>1. CASE UNCHANGED vars
  BY <1>1 DEF vars, IInv, TypeOK, ProcessedIsPublished, SentIsPublished, CursorCovered, ConnCovered
<1>2. ASSUME NEW e \in Event, Enqueue(e) \/ Due(e) PROVE IInv'
  <2>1. TypeOK' BY <1>0, <1>2 DEF Enqueue, Due, TypeOK, browser
  <2>2. ProcessedIsPublished' /\ SentIsPublished'
    BY <1>0, <1>2 DEF Enqueue, Due, IInv, TypeOK, ProcessedIsPublished, SentIsPublished
  <2>3. CursorCovered' /\ ConnCovered' BY <1>2, BackendKeeps DEF Enqueue, Due
  <2> QED BY <2>1, <2>2, <2>3 DEF IInv
<1>3. ASSUME NEW e \in Direct, Publish(e) PROVE IInv'
  <2>1. CASE UNCHANGED stream
    <3>1. TypeOK' BY <1>0, <1>3, <2>1, FaultTyped DEF Publish, TypeOK, browser
    <3>2. ProcessedIsPublished' /\ SentIsPublished'
      BY <1>3, <2>1 DEF Publish, IInv, ProcessedIsPublished, SentIsPublished
    <3>3. CursorCovered' /\ ConnCovered' BY <1>3, <2>1, BackendKeeps DEF Publish
    <3> QED BY <3>1, <3>2, <3>3 DEF IInv
  <2>2. CASE stream' = Append(stream, e)
    <3>1. /\ stream' \in Seq(Event \cup Direct)
          /\ \A f : (\E p \in DOMAIN stream : stream[p] = f) => \E p \in DOMAIN stream' : stream'[p] = f
      BY <1>0, <2>2, Published
    <3>2. /\ CursorCovered' /\ ConnCovered' /\ storage.last \in 0 .. Len(stream')
          /\ conn \in [Tab -> [state : {"idle", "open", "stopped"}, at : 0 .. Len(stream')]]
      BY <1>3, <2>2, AppendCovers DEF Publish
    <3>3. TypeOK' BY <1>0, <1>3, <3>1, <3>2, FaultTyped DEF Publish, TypeOK, browser
    <3>4. ProcessedIsPublished' /\ SentIsPublished'
      BY <1>3, <3>1 DEF Publish, IInv, ProcessedIsPublished, SentIsPublished
    <3> QED BY <3>2, <3>3, <3>4 DEF IInv
  <2> QED BY <1>3, <2>1, <2>2 DEF Publish
<1>4. ASSUME NEW d \in Dispatcher, Select(d) PROVE IInv'
  <2>1. [rows |-> {e \in Event : row[e] = "pending"}, sent |-> {}, failed |-> {}] \in Batch BY DEF Batch
  <2>2. TypeOK' BY <1>0, <1>4, <2>1 DEF Select, TypeOK, browser
  <2>3. SentIsPublished' BY <1>0, <1>4 DEF Select, IInv, TypeOK, SentIsPublished
  <2>4. ProcessedIsPublished' BY <1>4 DEF Select, IInv, ProcessedIsPublished
  <2>5. CursorCovered' /\ ConnCovered' BY <1>4, BackendKeeps DEF Select
  <2> QED BY <2>2, <2>3, <2>4, <2>5 DEF IInv
<1>5. ASSUME NEW d \in Dispatcher, NEW e \in Event, AppendRow(d, e) PROVE IInv'
  <2>1. batch[d] \in Batch BY <1>0, <1>5 DEF AppendRow, TypeOK
  <2>2. /\ stream' \in Seq(Event \cup Direct) /\ \E p \in DOMAIN stream' : stream'[p] = e
        /\ \A f : (\E p \in DOMAIN stream : stream[p] = f) => \E p \in DOMAIN stream' : stream'[p] = f
    BY <1>0, <1>5, Published DEF AppendRow
  <2>3. /\ CursorCovered' /\ ConnCovered' /\ storage.last \in 0 .. Len(stream')
        /\ conn \in [Tab -> [state : {"idle", "open", "stopped"}, at : 0 .. Len(stream')]]
    BY <1>5, AppendCovers DEF AppendRow
  <2>4. batch' = [batch EXCEPT ![d] = [batch[d] EXCEPT !.sent = @ \cup {e}]]
        /\ [batch[d] EXCEPT !.sent = @ \cup {e}] \in Batch
    BY <1>0, <1>5, <2>1 DEF AppendRow, Batch
  <2>5. TypeOK' BY <1>0, <1>5, <2>2, <2>3, <2>4 DEF AppendRow, TypeOK, browser
  <2>6. ProcessedIsPublished' BY <1>5, <2>2 DEF AppendRow, IInv, ProcessedIsPublished
  <2>7. batch'[d].sent = batch[d].sent \cup {e} /\ \A c \in Dispatcher \ {d} : batch'[c] = batch[c]
    BY <1>0, <2>1, <2>4 DEF TypeOK, Batch
  <2>8. SentIsPublished' BY <1>5, <2>2, <2>7 DEF AppendRow, IInv, SentIsPublished
  <2> QED BY <2>3, <2>5, <2>6, <2>8 DEF IInv
<1>6. ASSUME NEW d \in Dispatcher, NEW e \in Event, AppendFails(d, e) PROVE IInv'
  <2>1. batch[d] \in Batch BY <1>0, <1>6 DEF AppendFails, TypeOK
  <2>2. batch' = [batch EXCEPT ![d] = [batch[d] EXCEPT !.failed = @ \cup {e}]]
        /\ [batch[d] EXCEPT !.failed = @ \cup {e}] \in Batch
    BY <1>0, <1>6, <2>1 DEF AppendFails, Batch
  <2>3. TypeOK' BY <1>0, <1>6, <2>2, FaultTyped DEF AppendFails, TypeOK, browser
  <2>4. batch'[d].sent = batch[d].sent /\ \A c \in Dispatcher \ {d} : batch'[c] = batch[c]
    BY <1>0, <2>1, <2>2 DEF TypeOK, Batch
  <2>5. SentIsPublished' BY <1>6, <2>4 DEF AppendFails, IInv, SentIsPublished
  <2>6. ProcessedIsPublished' BY <1>6 DEF AppendFails, IInv, ProcessedIsPublished
  <2>7. CursorCovered' /\ ConnCovered' BY <1>6, BackendKeeps DEF AppendFails
  <2> QED BY <2>3, <2>5, <2>6, <2>7 DEF IInv
<1>7. ASSUME NEW d \in Dispatcher, Commit(d) PROVE IInv'
  <2>1. \A e \in Event : row'[e] = Outcome(batch[d], e) BY <1>7 DEF Commit
  <2>2. TypeOK' BY <1>0, <1>7 DEF Commit, TypeOK, Outcome, browser
  <2>3. ProcessedIsPublished'
    <3> SUFFICES ASSUME NEW e \in Event, row'[e] = "processed"
                 PROVE  \E p \in DOMAIN stream' : stream'[p] = e
      BY DEF ProcessedIsPublished
    <3>1. e \in batch[d].sent \/ row[e] = "processed" BY <2>1 DEF Outcome
    <3>2. \E p \in DOMAIN stream : stream[p] = e
      BY <1>7, <3>1 DEF Commit, IInv, ProcessedIsPublished, SentIsPublished
    <3> QED BY <1>7, <3>2 DEF Commit
  <2>4. SentIsPublished' BY <1>0, <1>7 DEF Commit, IInv, TypeOK, SentIsPublished
  <2>5. CursorCovered' /\ ConnCovered' BY <1>7, BackendKeeps DEF Commit
  <2> QED BY <2>2, <2>3, <2>4, <2>5 DEF IInv
<1>8. ASSUME NEW d \in Dispatcher, Crash(d) PROVE IInv'
  <2>1. TypeOK' BY <1>0, <1>8, FaultTyped DEF Crash, TypeOK, browser
  <2>2. SentIsPublished' BY <1>0, <1>8 DEF Crash, IInv, TypeOK, SentIsPublished
  <2>3. ProcessedIsPublished' BY <1>8 DEF Crash, IInv, ProcessedIsPublished
  <2>4. CursorCovered' /\ ConnCovered' BY <1>8, BackendKeeps DEF Crash
  <2> QED BY <2>1, <2>2, <2>3, <2>4 DEF IInv
<1>9. ASSUME NEW t \in Tab, Connect(t) PROVE IInv'
  <2>1. [state |-> "open", at |-> storage.last] \in [state : {"idle", "open", "stopped"}, at : 0 .. Len(stream)]
    BY <1>0 DEF TypeOK
  <2>2. TypeOK' BY <1>0, <1>9, <2>1 DEF Connect, TypeOK, backend
  <2>3. conn'[t].at = storage.last /\ \A s \in Tab \ {t} : conn'[s] = conn[s]
    BY <1>0, <1>9 DEF Connect, TypeOK
  <2>4. CursorCovered' BY <1>9 DEF Connect, IInv, CursorCovered, backend
  <2>5. ConnCovered'
    <3>1. \A p \in 1 .. conn'[t].at : stream'[p] \in listed'
      BY <1>9, <2>3 DEF Connect, IInv, CursorCovered, backend
    <3>2. \A s \in Tab \ {t} : \A p \in 1 .. conn'[s].at : stream'[p] \in listed'
      BY <1>9, <2>3 DEF Connect, IInv, ConnCovered, backend
    <3> QED BY <3>1, <3>2 DEF ConnCovered
  <2>6. ProcessedIsPublished' /\ SentIsPublished' BY <1>9, BrowserKeeps DEF Connect
  <2> QED BY <2>2, <2>4, <2>5, <2>6 DEF IInv
<1>10. ASSUME NEW t \in Tab, Receive(t) PROVE IInv'
  <2> DEFINE q == conn[t].at + 1
  <2>1. /\ conn[t].at \in Nat /\ Len(stream) \in Nat /\ q \in 1 .. Len(stream) /\ q \in DOMAIN stream
        /\ \A p \in 1 .. q : p # q => p \in 1 .. conn[t].at
    <3>1. stream \in Seq(Event \cup Direct) /\ conn[t].at \in 0 .. Len(stream) BY <1>0 DEF TypeOK
    <3>2. Len(stream) \in Nat /\ DOMAIN stream = 1 .. Len(stream) BY <3>1, LenProperties
    <3>3. conn[t].at < Len(stream) BY <1>10 DEF Receive
    <3> QED BY <3>1, <3>2, <3>3
  <2>2. /\ storage' = [last |-> q, notes |-> Record(storage.notes, q)]
        /\ conn' = [conn EXCEPT ![t].at = q] /\ listed' = listed \cup {stream[q]}
        /\ UNCHANGED <<backend, left>>
    BY <1>10 DEF Receive
  <2>3. Record(storage.notes, q) \in Seq(Note) BY <1>0, <2>1, RecordTyped DEF TypeOK
  <2>4. stream[q] \in Event \cup Direct BY <1>0, <2>1 DEF TypeOK
  <2>5. conn' \in [Tab -> [state : {"idle", "open", "stopped"}, at : 0 .. Len(stream)]]
    <3>1. conn' = [conn EXCEPT ![t] = [conn[t] EXCEPT !.at = q]] BY <2>2
    <3>2. conn[t] \in [state : {"idle", "open", "stopped"}, at : 0 .. Len(stream)] BY <1>0 DEF TypeOK
    <3>3. [conn[t] EXCEPT !.at = q] \in [state : {"idle", "open", "stopped"}, at : 0 .. Len(stream)]
      BY <2>1, <3>2
    <3> QED BY <1>0, <3>1, <3>3 DEF TypeOK
  <2>6. TypeOK' BY <1>0, <2>1, <2>2, <2>3, <2>4, <2>5 DEF TypeOK, backend
  <2>7. \A p \in 1 .. q : p \in DOMAIN stream /\ stream[p] \in listed'
    <3>1. stream \in Seq(Event \cup Direct) /\ DOMAIN stream = 1 .. Len(stream)
      BY <1>0, LenProperties DEF TypeOK
    <3>2. \A p \in 1 .. conn[t].at : stream[p] \in listed BY DEF IInv, ConnCovered
    <3> QED BY <2>1, <2>2, <3>1, <3>2
  <2>8. CursorCovered' BY <2>2, <2>7 DEF CursorCovered, backend
  <2>9. conn'[t].at = q /\ \A s \in Tab \ {t} : conn'[s] = conn[s] BY <1>0, <2>2 DEF TypeOK
  <2>10. ConnCovered'
    <3>1. \A p \in 1 .. conn'[t].at : stream'[p] \in listed' BY <2>2, <2>7, <2>9 DEF backend
    <3>2. \A s \in Tab \ {t} : \A p \in 1 .. conn'[s].at : stream'[p] \in listed'
      BY <2>2, <2>9 DEF IInv, ConnCovered, backend
    <3> QED BY <3>1, <3>2 DEF ConnCovered
  <2>11. ProcessedIsPublished' /\ SentIsPublished' BY <2>2, BrowserKeeps
  <2> QED BY <2>6, <2>8, <2>10, <2>11 DEF IInv
<1>11. ASSUME NEW t \in Tab, Break(t) \/ Refuse(t) \/ Reload(t) PROVE IInv'
  <2>1. PICK why \in {"idle", "stopped"} : conn' = [conn EXCEPT ![t] = Closed(why)]
    BY <1>11 DEF Break, Refuse, Reload
  <2>2. UNCHANGED <<backend, storage, listed>> /\ left' \in [faults : Nat, user : Nat]
    BY <1>0, <1>11, FaultTyped DEF Break, Refuse, Reload
  <2>3. Closed(why) \in [state : {"idle", "open", "stopped"}, at : 0 .. Len(stream)]
    <3>1. Len(stream) \in Nat BY <1>0, LenProperties DEF TypeOK
    <3> QED BY <3>1 DEF Closed
  <2>4. TypeOK' BY <1>0, <2>1, <2>2, <2>3 DEF TypeOK, backend
  <2>5. CursorCovered' BY <2>2 DEF IInv, CursorCovered, backend
  <2>6. conn'[t].at = 0 /\ \A s \in Tab \ {t} : conn'[s] = conn[s] BY <1>0, <2>1 DEF TypeOK, Closed
  <2>7. ConnCovered' BY <2>2, <2>6 DEF IInv, ConnCovered, backend
  <2>8. ProcessedIsPublished' /\ SentIsPublished' BY <2>2, BrowserKeeps
  <2> QED BY <2>4, <2>5, <2>7, <2>8 DEF IInv
<1>12. CASE MarkRead \/ Clear
  <2>1. /\ UNCHANGED <<backend, conn, listed>> /\ left' \in [faults : Nat, user : Nat]
        /\ storage' = [last |-> storage.last, notes |-> storage'.notes]
    BY <1>0, <1>12, FaultTyped DEF MarkRead, Clear, TypeOK
  <2>2. storage'.notes \in Seq(Note)
    <3>1. CASE Clear BY <3>1 DEF Clear
    <3>2. CASE MarkRead
      <4>1. storage.notes \in Seq(Note) BY <1>0 DEF TypeOK
      <4>2. storage'.notes = [i \in DOMAIN storage.notes |-> [storage.notes[i] EXCEPT !.read = TRUE]]
        BY <1>0, <3>2 DEF MarkRead, TypeOK
      <4>3. DOMAIN storage.notes = 1 .. Len(storage.notes) /\ Len(storage.notes) \in Nat BY <4>1, LenProperties
      <4>4. \A i \in 1 .. Len(storage.notes) : [storage.notes[i] EXCEPT !.read = TRUE] \in Note
        <5>1. \A i \in 1 .. Len(storage.notes) : storage.notes[i] \in Note BY <4>1, ElementOfSeq
        <5> QED BY <5>1 DEF Note
      <4> DEFINE k == Len(storage.notes)
                 f == [i \in 1 .. k |-> [storage.notes[i] EXCEPT !.read = TRUE]]
      <4>5. storage'.notes = f BY <4>2, <4>3
      <4>6. f \in [1 .. k -> Note] BY <4>4
      <4>7. k \in Nat BY <4>3
      <4> HIDE DEF k, f
      <4>8. f \in Seq(Note) BY <4>6, <4>7, SeqDef
      <4> QED BY <4>5, <4>8
    <3> QED BY <1>12, <3>1, <3>2
  <2>3. TypeOK'
    <3>1. storage.last \in 0 .. Len(stream) BY <1>0 DEF TypeOK
    <3>2. storage' \in [last : 0 .. Len(stream), notes : Seq(Note)] BY <2>1, <2>2, <3>1
    <3> QED BY <1>0, <2>1, <3>2 DEF TypeOK, backend
  <2>4. CursorCovered' /\ ConnCovered' BY <2>1 DEF IInv, CursorCovered, ConnCovered, backend
  <2>5. ProcessedIsPublished' /\ SentIsPublished' BY <2>1, BrowserKeeps
  <2> QED BY <2>3, <2>4, <2>5 DEF IInv
<1> QED
  BY <1>1, <1>2, <1>3, <1>4, <1>5, <1>6, <1>7, <1>8, <1>9, <1>10, <1>11, <1>12 DEF Next, Dispatch

(* Types: the cursor and every tab stay within the stream. *)
THEOREM TypesCorrect == Spec => []TypeOK
<1>1. IInv => TypeOK BY DEF IInv
<1> QED BY <1>1, InitInv, NextInv, PTL DEF Spec

(* No failed append, crash or second dispatch loop loses the event of a processed row              *)
(* (EventOutboxService.dispatch_pending).                                                          *)
THEOREM NoEventLost == Spec => []ProcessedIsPublished
<1>1. IInv => ProcessedIsPublished BY DEF IInv
<1> QED BY <1>1, InitInv, NextInv, PTL DEF Spec

(* However many tabs overwrite the shared cursor, no entry up to it was skipped                    *)
(* (UserEventBridge).                                                                              *)
THEOREM NoEntrySkipped == Spec => []CursorCovered
<1>1. IInv => CursorCovered BY DEF IInv
<1> QED BY <1>1, InitInv, NextInv, PTL DEF Spec

(* No entry of the stream stands in the notification center twice, whichever tabs receive it       *)
(* (recordStoredNotification), and the center never grows past its bound.                          *)
THEOREM NoEntryListedTwice == Spec => []ListedOnce
<1> USE ConstantsAssumption
<1>1. Init => ListedOnce BY DEF Init, ListedOnce
<1>2. IInv /\ ListedOnce /\ [Next]_vars => ListedOnce'
  <2> SUFFICES ASSUME IInv, ListedOnce, [Next]_vars PROVE ListedOnce' OBVIOUS
  <2>1. TypeOK /\ storage.notes \in Seq(Note) /\ Len(storage.notes) \in Nat
    BY LenProperties DEF IInv, TypeOK
  <2>2. CASE UNCHANGED storage BY <2>2 DEF ListedOnce
  <2>3. ASSUME NEW t \in Tab, Receive(t) PROVE ListedOnce'
    <3>1. conn[t].at + 1 \in Nat BY <2>1 DEF TypeOK
    <3>2. storage'.notes = Record(storage.notes, conn[t].at + 1) BY <2>3 DEF Receive
    <3> QED BY <2>1, <3>1, <3>2, RecordTyped DEF ListedOnce
  <2>4. CASE Clear
    <3>1. storage'.notes = <<>> BY <2>1, <2>4 DEF Clear, TypeOK
    <3> QED BY <3>1 DEF ListedOnce
  <2>5. CASE MarkRead
    <3>1. storage'.notes = [i \in DOMAIN storage.notes |-> [storage.notes[i] EXCEPT !.read = TRUE]]
      BY <2>1, <2>5 DEF MarkRead, TypeOK
    <3>2. DOMAIN storage.notes = 1 .. Len(storage.notes) BY <2>1, LenProperties
    <3>3. \A i \in DOMAIN storage.notes : storage'.notes[i].at = storage.notes[i].at
      BY <2>1, <3>1, <3>2, ElementOfSeq DEF Note
    <3>4. DOMAIN storage'.notes = DOMAIN storage.notes BY <3>1
    <3>5. Len(storage'.notes) = Len(storage.notes) BY <2>1, <3>2, <3>4
    <3> QED BY <3>3, <3>4, <3>5 DEF ListedOnce
  <2> QED
    BY <2>2, <2>3, <2>4, <2>5
    DEF Next, vars, browser, Enqueue, Due, Publish, Dispatch, Select, Commit, AppendRow, Crash,
        AppendFails, Connect, Break, Refuse, Reload
<1> QED BY <1>1, <1>2, InitInv, NextInv, PTL DEF Spec

=============================================================================
