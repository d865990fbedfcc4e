--------------------------- MODULE ContentPage_proofs ---------------------------
(***************************************************************************)
(* Theorems about ContentPage for every value of its constants.            *)
(***************************************************************************)
EXTENDS ContentPage, Selection_proofs

----------------------------------------------------------------------------
(* Conditions and addresses. *)

LEMMA ConditionsAre ==
  ASSUME NEW cs
  PROVE  cs \in Conditions <=> cs \in Seq(Value \cup {Blank}) /\ Len(cs) <= MaxConds
<1> DEFINE S == Value \cup {Blank}
<1>0. MaxConds \in Nat BY ConstantsAssumption
<1>1. ASSUME cs \in Conditions PROVE cs \in Seq(S) /\ Len(cs) <= MaxConds
  <2>1. PICK m \in 0..MaxConds : cs \in [1..m -> S] BY <1>1 DEF Conditions, SeqOf
  <2>2. cs \in Seq(S) /\ Len(cs) = m BY <2>1
  <2> QED BY <1>0, <2>1, <2>2
<1>2. ASSUME cs \in Seq(S), Len(cs) <= MaxConds PROVE cs \in Conditions
  <2>1. Len(cs) \in 0..MaxConds /\ cs \in [1..Len(cs) -> S] BY <1>0, <1>2
  <2> QED BY <2>1 DEF Conditions, SeqOf
<1> QED BY <1>1, <1>2

LEMMA SerializeType ==
  ASSUME NEW cs \in Conditions
  PROVE  Serialize(cs) \in Conditions
<1> DEFINE S == Value \cup {Blank}
<1>0. MaxConds \in Nat BY ConstantsAssumption
<1>1. cs \in Seq(S) /\ Len(cs) <= MaxConds BY ConditionsAre
<1>2. Selected(cs, Complete) \in Seq(S \cap Complete) /\ Len(Selected(cs, Complete)) <= Len(cs)
  BY <1>1, SelectedType
<1>3. Serialize(cs) \in Seq(S) /\ Len(Serialize(cs)) <= Len(cs)
  <2>1. S \cap Complete \subseteq S OBVIOUS
  <2>2. Seq(S \cap Complete) \subseteq Seq(S) BY <2>1
  <2> QED BY <1>2, <2>2 DEF Serialize
<1>4. Len(Serialize(cs)) <= MaxConds BY <1>0, <1>1, <1>3
<1> QED BY <1>3, <1>4, ConditionsAre

(* The conditions that an edit leaves are conditions. *)
LEMMA Edited ==
  ASSUME NEW cs \in Conditions
  PROVE  /\ \A v \in Value : Len(cs) < MaxConds => Append(cs, v) \in Conditions
         /\ \A i \in DOMAIN cs : RemoveAt(cs, i) \in Conditions
         /\ \A i \in DOMAIN cs : \A v \in Value \cup {Blank} : [cs EXCEPT ![i] = v] \in Conditions
<1> DEFINE S == Value \cup {Blank}
<1>0. MaxConds \in Nat BY ConstantsAssumption
<1>1. cs \in Seq(S) /\ Len(cs) \in Nat /\ Len(cs) <= MaxConds BY ConditionsAre
<1>2. ASSUME NEW v \in Value, Len(cs) < MaxConds PROVE Append(cs, v) \in Conditions
  <2>1. Append(cs, v) \in Seq(S) /\ Len(Append(cs, v)) = Len(cs) + 1 BY <1>1
  <2>2. Len(Append(cs, v)) <= MaxConds BY <1>0, <1>1, <1>2, <2>1
  <2> QED BY <2>1, <2>2, ConditionsAre
<1>3. ASSUME NEW i \in DOMAIN cs PROVE RemoveAt(cs, i) \in Conditions
  <2>1. i \in 1..Len(cs) BY <1>1
  <2>2. SubSeq(cs, 1, i - 1) \in Seq(S) /\ Len(SubSeq(cs, 1, i - 1)) = i - 1 BY <1>1, <2>1
  <2>3. SubSeq(cs, i + 1, Len(cs)) \in Seq(S) /\ Len(SubSeq(cs, i + 1, Len(cs))) = Len(cs) - i
    BY <1>1, <2>1
  <2>4. RemoveAt(cs, i) = SubSeq(cs, 1, i - 1) \o SubSeq(cs, i + 1, Len(cs)) BY DEF RemoveAt
  <2>5. RemoveAt(cs, i) \in Seq(S) BY <2>2, <2>3, <2>4
  <2>6. Len(RemoveAt(cs, i)) = (i - 1) + (Len(cs) - i) BY <2>2, <2>3, <2>4
  <2>7. Len(RemoveAt(cs, i)) <= MaxConds BY <1>0, <1>1, <2>1, <2>6
  <2> QED BY <2>5, <2>7, ConditionsAre
<1>4. ASSUME NEW i \in DOMAIN cs, NEW v \in S PROVE [cs EXCEPT ![i] = v] \in Conditions
  <2>1. [cs EXCEPT ![i] = v] \in Seq(S) /\ Len([cs EXCEPT ![i] = v]) = Len(cs) BY <1>1, <1>4
  <2>2. Len([cs EXCEPT ![i] = v]) <= MaxConds BY <1>1, <2>1
  <2> QED BY <2>1, <2>2, ConditionsAre
<1> QED BY <1>2, <1>3, <1>4

----------------------------------------------------------------------------
(* The history. *)

History == [hist : Seq(Address), at : Nat, ref : Address]

(* The browser is at an address of its history. *)
Placed(n) == n \in History /\ n.at \in DOMAIN n.hist

(* After a push the browser is at the address pushed, and the next change starts from it. *)
LEMMA Pushed ==
  ASSUME NEW n, Placed(n), NEW u \in Address
  PROVE  /\ Placed(Push(n, u))
         /\ Push(n, u).hist[Push(n, u).at] = u /\ Push(n, u).ref = u
<1>0. n.hist \in Seq(Address) /\ n.at \in 1..Len(n.hist) /\ Len(n.hist) \in Nat
  BY DEF Placed, History
<1> DEFINE h == SubSeq(n.hist, 1, n.at)
<1>1. h \in Seq(Address) /\ Len(h) = n.at BY <1>0
<1>2. /\ Append(h, u) \in Seq(Address) /\ Len(Append(h, u)) = n.at + 1
      /\ Append(h, u)[n.at + 1] = u
  BY <1>1
<1> HIDE DEF h
<1>3. DOMAIN Append(h, u) = 1..(n.at + 1) /\ n.at + 1 \in 1..(n.at + 1) BY <1>0, <1>2
<1>4. Push(n, u) = [hist |-> Append(h, u), at |-> n.at + 1, ref |-> u] BY DEF Push, h
<1> QED BY <1>0, <1>2, <1>3, <1>4 DEF Placed, History

LEMMA Replaced ==
  ASSUME NEW n, Placed(n), NEW u \in Address
  PROVE  /\ Placed(Replace(n, u))
         /\ Replace(n, u).hist[Replace(n, u).at] = u /\ Replace(n, u).ref = u
<1>0. n.hist \in Seq(Address) /\ n.at \in 1..Len(n.hist) /\ Len(n.hist) \in Nat
  BY DEF Placed, History
<1>1. /\ [n.hist EXCEPT ![n.at] = u] \in Seq(Address)
      /\ DOMAIN [n.hist EXCEPT ![n.at] = u] = DOMAIN n.hist
      /\ [n.hist EXCEPT ![n.at] = u][n.at] = u
  BY <1>0
<1> DEFINE h == [n.hist EXCEPT ![n.at] = u]
<1>2. Replace(n, u) = [hist |-> h, at |-> n.at, ref |-> u]
  <2>1. Replace(n, u) = [[n EXCEPT !.hist = h] EXCEPT !.ref = u] BY DEF Replace
  <2>2. n \in History BY DEF Placed
  <2> HIDE DEF h
  <2> QED BY <2>1, <2>2 DEF History
<1> QED BY <1>0, <1>1, <1>2 DEF Placed, History

(* The write-back makes the conditions of the address those given, and nothing else of it. *)
LEMMA WrittenBack ==
  ASSUME NEW n, Placed(n), NEW c \in Conditions
  PROVE  /\ Placed(WriteBack(n, c))
         /\ WriteBack(n, c).ref = [n.ref EXCEPT !.conds = c]
         /\ WriteBack(n, c) = n \/ WriteBack(n, c).hist[WriteBack(n, c).at] = WriteBack(n, c).ref
<1> DEFINE u == [n.ref EXCEPT !.conds = c]
<1>1. u \in Address BY DEF Placed, History, Address
<1>2. CASE u = n.ref BY <1>2 DEF WriteBack
<1>3. CASE u # n.ref
  <2>1. WriteBack(n, c) = Push(n, u) BY <1>3 DEF WriteBack
  <2> QED BY <1>1, <2>1, Pushed
<1> QED BY <1>2, <1>3

(* A handler's change of the address. *)
LEMMA Updated ==
  ASSUME Placed(nav), NEW u \in Address, UpdateTo(u)
  PROVE  Placed(nav') /\ nav'.ref = u /\ (nav' = nav \/ Here' = u)
<1>1. CASE u = nav.ref BY <1>1 DEF UpdateTo
<1>2. CASE u # nav.ref
  <2>1. nav' = Push(nav, u) BY <1>2 DEF UpdateTo
  <2>2. Here' = Push(nav, u).hist[Push(nav, u).at] BY <2>1 DEF Here
  <2> QED BY <2>1, <2>2, Pushed
<1> QED BY <1>1, <1>2

----------------------------------------------------------------------------
(***************************************************************************)
(* The invariant.  The filters in effect are those of the address that the *)
(* next change starts from, which is the browser's own or still the one    *)
(* rendered.  A file of the address that is neither shown nor looked up    *)
(* has left the address that the browser is at.                            *)
(***************************************************************************)

Typed ==
  /\ Placed(nav)
  /\ shown \in Address /\ target \in Address \cup {None}
  /\ conds \in Conditions /\ debounced \in Conditions /\ timer \in BOOLEAN
  /\ status \in Status \cup {None} /\ rows \subseteq File
  /\ selected \in File \cup {None} /\ load \in File \cup {None}
  /\ files \subseteq File /\ processing \subseteq SUBSET File /\ deleting \subseteq File

InEffect ==
  /\ nav.ref \in {Here, shown}
  /\ status = nav.ref.status /\ Serialize(debounced) = nav.ref.conds
  /\ timer \/ conds = debounced

LookedUp ==
  /\ load \in {None, shown.file}
  /\ load = None => \/ shown.file \in {None, selected}
                    \/ nav.ref = Here /\ Here.file # shown.file

IInv == Typed /\ InEffect /\ LookedUp

LEMMA InvImpliesType == IInv => TypeOK
BY DEF IInv, Typed, Placed, History, TypeOK

LEMMA InvImpliesAgreement == IInv => AddressAgrees
BY DEF IInv, InEffect, LookedUp, AddressAgrees, ActiveFile

LEMMA HereType ==
  ASSUME Placed(nav)
  PROVE  Here \in Address /\ nav.ref \in Address
<1>1. nav.hist \in Seq(Address) /\ nav.at \in DOMAIN nav.hist /\ nav.ref \in Address
  BY DEF Placed, History
<1> QED BY <1>1 DEF Here

LEMMA InitInv == Init => IInv
<1> SUFFICES ASSUME Init PROVE IInv OBVIOUS
<1>1. PICK u \in Address :
        /\ shown = u
        /\ nav = WriteBack([hist |-> <<u>>, at |-> 1, ref |-> u], Serialize(u.conds))
        /\ conds = u.conds /\ debounced = u.conds /\ timer = TRUE
        /\ status = u.status
        /\ rows = {} /\ selected = None /\ load = u.file
        /\ files = File /\ processing = {} /\ deleting = {} /\ target = None
  BY DEF Init
<1> DEFINE n == [hist |-> <<u>>, at |-> 1, ref |-> u]
<1>2. u.conds \in Conditions /\ u.file \in File \cup {None} /\ u.status \in Status \cup {None}
  BY DEF Address
<1>3. Serialize(u.conds) \in Conditions BY <1>2, SerializeType
<1>4. Placed(n)
  <2>1. <<u>> \in Seq(Address) /\ DOMAIN <<u>> = {1} OBVIOUS
  <2> QED BY <2>1 DEF Placed, History
<1>5. /\ Placed(nav) /\ nav.ref = [u EXCEPT !.conds = Serialize(u.conds)]
      /\ nav = n \/ Here = nav.ref
  <2>1. n.ref = u OBVIOUS
  <2>2. nav = WriteBack(n, Serialize(u.conds)) BY <1>1
  <2> HIDE DEF n
  <2> QED BY <1>3, <1>4, <2>1, <2>2, WrittenBack DEF Here
<1>6. nav.ref \in {Here, shown}
  <2>1. CASE nav = n BY <1>1, <2>1
  <2>2. CASE Here = nav.ref BY <2>2
  <2> QED BY <1>5, <2>1, <2>2
<1>7. nav.ref.status = u.status /\ nav.ref.conds = Serialize(u.conds) BY <1>5 DEF Address
<1>8. Typed BY <1>1, <1>2, <1>5 DEF Typed
<1>9. InEffect BY <1>1, <1>6, <1>7 DEF InEffect
<1>10. LookedUp BY <1>1 DEF LookedUp
<1> QED BY <1>8, <1>9, <1>10 DEF IInv

----------------------------------------------------------------------------
(* The steps. *)

(* What leaves the address, the file shown and the filters alone. *)
LEMMA Apart ==
  ASSUME IInv, UNCHANGED <<nav, shown, filters, dialog>>, target' \in Address \cup {None},
         rows' \subseteq File, files' \subseteq File,
         processing' \subseteq SUBSET File, deleting' \subseteq File
  PROVE  IInv'
BY DEF IInv, Typed, InEffect, LookedUp, Here, filters, dialog

(* A handler that takes the file out of the address. *)
LEMMA FileLeaves ==
  ASSUME IInv, NEW p \in Folder \cup {None},
         UpdateTo([nav.ref EXCEPT !.path = p, !.file = None]),
         UNCHANGED <<shown, filters, rows, dialog>>,
         target' \in Address \cup {None}, files' \subseteq File,
         processing' \subseteq SUBSET File, deleting' \subseteq File
  PROVE  IInv'
<1> DEFINE u == [nav.ref EXCEPT !.path = p, !.file = None]
<1>1. u \in Address /\ u.file = None /\ u.status = nav.ref.status /\ u.conds = nav.ref.conds
  BY HereType DEF IInv, Typed, Address
<1>2. Placed(nav') /\ nav'.ref = u /\ (nav' = nav \/ Here' = u) BY <1>1, Updated DEF IInv, Typed
<1> HIDE DEF u
<1>3. Typed' BY <1>2 DEF IInv, Typed, filters, dialog
<1>4. InEffect' BY <1>1, <1>2 DEF IInv, InEffect, Here, filters
<1>5. LookedUp' BY <1>1, <1>2 DEF IInv, LookedUp, Here, dialog
<1> QED BY <1>3, <1>4, <1>5 DEF IInv

LEMMA ClickFileInv ==
  ASSUME IInv, NEW f \in File, ClickFile(f)
  PROVE  IInv'
<1> DEFINE u == [nav.ref EXCEPT !.file = f]
<1>1. u \in Address /\ u.file = f /\ u.status = nav.ref.status /\ u.conds = nav.ref.conds
  BY HereType DEF IInv, Typed, Address
<1>2. Placed(nav') /\ nav'.ref = u /\ (nav' = nav \/ Here' = u)
  BY <1>1, Updated DEF IInv, Typed, ClickFile
<1> HIDE DEF u
<1>3. /\ selected' = f /\ load' = IF selected = f THEN load ELSE Lookup(shown, f)
      /\ target' = None /\ UNCHANGED <<shown, filters, rows, files, requests>>
  BY DEF ClickFile, Acts
<1>4. load' \in {load, None, shown.file} BY <1>3 DEF Lookup
<1>5. shown.file \in File \cup {None} BY DEF IInv, Typed, Address
<1>6. Typed' BY <1>2, <1>3, <1>4, <1>5 DEF IInv, Typed, filters, requests
<1>7. InEffect' BY <1>1, <1>2, <1>3 DEF IInv, InEffect, Here, filters
<1>8. LookedUp' BY <1>1, <1>2, <1>3 DEF IInv, LookedUp, Lookup, Here
<1> QED BY <1>6, <1>7, <1>8 DEF IInv

LEMMA SetStatusInv ==
  ASSUME IInv, NEW s \in Status \cup {None}, SetStatus(s)
  PROVE  IInv'
<1> DEFINE u == [nav.ref EXCEPT !.status = s]
<1>1. u \in Address /\ u.file = nav.ref.file /\ u.status = s /\ u.conds = nav.ref.conds
  BY HereType DEF IInv, Typed, Address
<1>2. Placed(nav') /\ nav'.ref = u /\ (nav' = nav \/ Here' = u)
  BY <1>1, Updated DEF IInv, Typed, SetStatus
<1> HIDE DEF u
<1>3. /\ status' = s /\ rows' = {} /\ target' = None
      /\ UNCHANGED <<shown, conds, debounced, timer, dialog, files, requests>>
  BY DEF SetStatus, Acts
<1>4. Typed' BY <1>2, <1>3 DEF IInv, Typed, dialog, requests
<1>5. InEffect' BY <1>1, <1>2, <1>3 DEF IInv, InEffect, Here
<1>6. LookedUp' BY <1>1, <1>2, <1>3 DEF IInv, LookedUp, Here, dialog
<1> QED BY <1>4, <1>5, <1>6 DEF IInv

LEMMA EditInv ==
  ASSUME IInv, NEW cs \in Conditions, EditConditions(cs)
  PROVE  IInv'
BY DEF IInv, Typed, InEffect, LookedUp, Here, EditConditions, Acts, dialog, requests

(* The browser moves between addresses only from one that is rendered. *)
LEMMA TraverseInv ==
  ASSUME IInv, NEW to, Traverse(to)
  PROVE  IInv'
<1>1. /\ to \in DOMAIN nav.hist /\ shown = Here /\ nav' = [nav EXCEPT !.at = to]
      /\ target' = IF timer THEN None ELSE [nav.hist[to] EXCEPT !.conds = Serialize(@)]
      /\ UNCHANGED <<shown, filters, rows, dialog, files, requests>>
  BY DEF Traverse
<1>2. nav \in History /\ nav.hist \in Seq(Address) BY DEF IInv, Typed, Placed, History
<1>3. to \in Nat /\ nav.hist[to] \in Address BY <1>1, <1>2
<1>4. Placed(nav') /\ nav'.ref = nav.ref BY <1>1, <1>2, <1>3 DEF Placed, History
<1>5. target' \in Address \cup {None}
  <2>1. nav.hist[to].conds \in Conditions BY <1>3 DEF Address
  <2>2. Serialize(nav.hist[to].conds) \in Conditions BY <2>1, SerializeType
  <2>3. [nav.hist[to] EXCEPT !.conds = Serialize(nav.hist[to].conds)] \in Address
    BY <1>3, <2>2 DEF Address
  <2> QED BY <1>1, <2>3
<1>6. Typed' BY <1>1, <1>4, <1>5 DEF IInv, Typed, filters, dialog, requests
<1>7. InEffect' BY <1>1, <1>4 DEF IInv, InEffect, filters
<1>8. LookedUp' BY <1>1 DEF IInv, LookedUp, dialog
<1> QED BY <1>6, <1>7, <1>8 DEF IInv

(* The render's own write-backs leave the filters in effect, whichever of them moves the address. *)
LEMMA RouterRenderInv ==
  ASSUME IInv, RouterRender
  PROVE  IInv'
<1> DEFINE moved == Here.conds # shown.conds
           n0 == [nav EXCEPT !.ref = Here]
           c1 == Serialize(debounced)
           c2 == Serialize(Seed(Here))
           first == WriteBack(n0, c1)
<1>1. /\ shown' = Here /\ load' = Lookup(Here, selected)
      /\ debounced' = Seed(Here) /\ conds' = IF moved THEN Here.conds ELSE conds
      /\ timer' = (timer \/ moved)
      /\ status' = IF Here.status # shown.status THEN Here.status ELSE status
      /\ nav' = IF c2 # c1 THEN WriteBack(first, c2) ELSE first
      /\ rows' \in {{}, rows}
      /\ UNCHANGED <<selected, files, requests, target>>
  BY DEF RouterRender
<1>2. /\ Here \in Address /\ nav.ref \in Address /\ Here.conds \in Conditions
      /\ Here.file \in File \cup {None} /\ Here.status \in Status \cup {None}
  BY HereType DEF IInv, Typed, Address
<1>3. debounced \in Conditions /\ Seed(Here) \in Conditions BY <1>2 DEF IInv, Typed, Seed
<1>4. c1 \in Conditions /\ c2 \in Conditions BY <1>3, SerializeType
<1>5. Placed(n0) /\ n0.ref = Here /\ n0.hist[n0.at] = Here
  BY <1>2 DEF IInv, Typed, Placed, History, Here
<1> HIDE DEF n0, c1, c2
<1>6. /\ Placed(first) /\ first.ref = [Here EXCEPT !.conds = c1]
      /\ first.ref \in {Here, first.hist[first.at]}
  <2>1. /\ Placed(first) /\ first.ref = [n0.ref EXCEPT !.conds = c1]
        /\ first = n0 \/ first.hist[first.at] = first.ref
    BY <1>4, <1>5, WrittenBack
  <2> HIDE DEF first
  <2> QED BY <1>5, <2>1
<1> HIDE DEF first
<1>7. /\ Placed(nav') /\ nav'.ref = [Here EXCEPT !.conds = c2]
      /\ nav'.ref \in {Here, nav'.hist[nav'.at]}
  <2>1. CASE c2 = c1 BY <1>1, <1>6, <2>1
  <2>2. CASE c2 # c1
    <3>1. nav' = WriteBack(first, c2) BY <1>1, <2>2
    <3>2. /\ Placed(nav') /\ nav'.ref = [first.ref EXCEPT !.conds = c2]
          /\ nav' = first \/ nav'.hist[nav'.at] = nav'.ref
      BY <1>4, <1>6, <3>1, WrittenBack
    <3>3. [first.ref EXCEPT !.conds = c2] = [Here EXCEPT !.conds = c2] BY <1>2, <1>6 DEF Address
    <3> QED BY <1>6, <3>2, <3>3
  <2> QED BY <2>1, <2>2
<1>8. nav'.ref.status = Here.status /\ nav'.ref.conds = c2 BY <1>2, <1>7 DEF Address
<1>9. Typed'
  <2>1. load' \in File \cup {None} BY <1>1, <1>2 DEF Lookup
  <2>2. timer' \in BOOLEAN BY <1>1 DEF IInv, Typed
  <2> QED BY <1>1, <1>2, <1>3, <1>7, <2>1, <2>2 DEF IInv, Typed, requests
<1>10. InEffect'
  <2>1. nav'.ref \in {Here', shown'} BY <1>1, <1>7 DEF Here
  <2>2. status' = nav'.ref.status BY <1>1, <1>8 DEF IInv, InEffect
  <2>3. Serialize(debounced') = nav'.ref.conds BY <1>1, <1>8 DEF c2
  <2>4. timer' \/ conds' = debounced' BY <1>1 DEF IInv, InEffect, Seed
  <2> QED BY <2>1, <2>2, <2>3, <2>4 DEF InEffect
<1>11. LookedUp' BY <1>1 DEF LookedUp, Lookup
<1> QED BY <1>9, <1>10, <1>11 DEF IInv

LEMMA TimerFiresInv ==
  ASSUME IInv, TimerFires
  PROVE  IInv'
<1> DEFINE c == Serialize(conds)
<1>1. /\ timer' = FALSE /\ debounced' = conds /\ rows' \in {{}, rows}
      /\ nav' = IF c = Serialize(debounced) THEN nav ELSE WriteBack(nav, c)
      /\ UNCHANGED <<shown, conds, status, dialog, files, requests, target>>
  BY DEF TimerFires
<1>2. c \in Conditions BY SerializeType DEF IInv, Typed
<1> HIDE DEF c
<1>3. nav.ref \in Address BY HereType DEF IInv, Typed
<1>4. /\ Placed(nav') /\ nav'.ref = [nav.ref EXCEPT !.conds = c]
      /\ nav' = nav \/ Here' = nav'.ref
  <2>1. CASE c = Serialize(debounced)
    <3>1. c = nav.ref.conds BY <2>1 DEF IInv, InEffect
    <3>2. [nav.ref EXCEPT !.conds = c] = nav.ref BY <1>3, <3>1 DEF Address
    <3> QED BY <1>1, <2>1, <3>2 DEF IInv, Typed
  <2>2. CASE c # Serialize(debounced)
    <3>1. nav' = WriteBack(nav, c) BY <1>1, <2>2
    <3> QED BY <1>2, <3>1, WrittenBack DEF IInv, Typed, Here
  <2> QED BY <2>1, <2>2
<1>5. /\ nav'.ref.file = nav.ref.file /\ nav'.ref.status = nav.ref.status /\ nav'.ref.conds = c
  BY <1>3, <1>4 DEF Address
<1>6. Typed' BY <1>1, <1>4 DEF IInv, Typed, dialog, requests
<1>7. InEffect' BY <1>1, <1>4, <1>5 DEF IInv, InEffect, Here, c
<1>8. LookedUp' BY <1>1, <1>4, <1>5 DEF IInv, LookedUp, Here, dialog
<1> QED BY <1>6, <1>7, <1>8 DEF IInv

LEMMA LoadAnsweredInv ==
  ASSUME IInv, LoadAnswered
  PROVE  IInv'
<1>1. /\ load # None /\ load = shown.file BY DEF LoadAnswered, IInv, LookedUp
<1>2. selected' = load /\ load' = None BY <1>1 DEF LoadAnswered, Lookup
<1> QED BY <1>1, <1>2 DEF LoadAnswered, IInv, Typed, InEffect, LookedUp, Here, filters, requests

LEMMA LoadFailedInv ==
  ASSUME IInv, LoadFailed
  PROVE  IInv'
<1> DEFINE u == [nav.ref EXCEPT !.file = None]
<1>1. /\ load' = None /\ target' = None
      /\ nav' = IF u = nav.ref THEN nav ELSE Replace(nav, u)
      /\ UNCHANGED <<shown, filters, rows, selected, files, requests>>
  BY DEF LoadFailed
<1>2. u \in Address /\ u.file = None /\ u.status = nav.ref.status /\ u.conds = nav.ref.conds
  BY HereType DEF IInv, Typed, Address
<1> HIDE DEF u
<1>3. Placed(nav') /\ nav'.ref = u /\ (nav' = nav \/ Here' = u)
  <2>1. CASE u = nav.ref BY <1>1, <2>1 DEF IInv, Typed
  <2>2. CASE u # nav.ref BY <1>1, <1>2, <2>2, Replaced DEF IInv, Typed, Here
  <2> QED BY <2>1, <2>2
<1>4. Typed' BY <1>1, <1>3 DEF IInv, Typed, filters, requests
<1>5. InEffect' BY <1>1, <1>2, <1>3 DEF IInv, InEffect, Here, filters
<1>6. LookedUp' BY <1>1, <1>2, <1>3, <1>5 DEF LookedUp, InEffect
<1> QED BY <1>4, <1>5, <1>6 DEF IInv

LEMMA UserInv ==
  ASSUME IInv, User
  PROVE  IInv'
<1>1. ASSUME NEW p \in Folder \cup {None}, Navigate(p) PROVE IInv'
  BY <1>1, FileLeaves DEF Navigate, Acts, IInv, Typed, requests
<1>2. ASSUME CloseDialog PROVE IInv'
  <2>1. nav.ref.path \in Folder \cup {None} /\ nav.ref \in Address
    BY HereType DEF IInv, Typed, Address
  <2>2. [nav.ref EXCEPT !.path = nav.ref.path, !.file = None] = [nav.ref EXCEPT !.file = None]
    BY <2>1 DEF Address
  <2> QED BY <1>2, <2>1, <2>2, FileLeaves DEF CloseDialog, Acts, IInv, Typed, requests
<1>3. ASSUME NEW f \in File, ToggleRow(f) PROVE IInv'
  BY <1>3, Apart DEF ToggleRow, Acts, IInv, Typed, requests
<1>4. ASSUME ClearRows PROVE IInv' BY <1>4, Apart DEF ClearRows, Acts, IInv, Typed, requests
<1>5. ASSUME ProcessRows PROVE IInv' BY <1>5, Apart DEF ProcessRows, Acts, IInv, Typed
<1>6. ASSUME Delete PROVE IInv'
  <2>1. ActiveFile \in File BY <1>6 DEF Delete, ActiveFile, IInv, Typed
  <2> QED BY <1>6, <2>1, Apart DEF Delete, Acts, IInv, Typed
<1>7. ASSUME NEW v \in Value, AddCondition(v) PROVE IInv'
  BY <1>7, Edited, EditInv DEF AddCondition, IInv, Typed
<1>8. ASSUME NEW i \in DOMAIN conds, RemoveCondition(i) PROVE IInv'
  BY <1>8, Edited, EditInv DEF RemoveCondition, IInv, Typed
<1>9. ASSUME NEW i \in DOMAIN conds, NEW v \in Value \cup {Blank}, UpdateCondition(i, v)
      PROVE  IInv'
  BY <1>9, Edited, EditInv DEF UpdateCondition, IInv, Typed
<1>10. ASSUME Back \/ Forward PROVE IInv' BY <1>10, TraverseInv DEF Back, Forward
<1> QED BY <1>1, <1>2, <1>3, <1>4, <1>5, <1>6, <1>7, <1>8, <1>9, <1>10,
           ClickFileInv, SetStatusInv DEF User

LEMMA PageInv ==
  ASSUME IInv, Page
  PROVE  IInv'
<1>1. ASSUME NEW b \in processing, ProcessAnswered(b) PROVE IInv'
  BY <1>1, Apart DEF ProcessAnswered, IInv, Typed
<1>2. ASSUME NEW f \in deleting, DeleteAnswered(f) PROVE IInv'
  <2>1. nav.ref.path \in Folder \cup {None} /\ nav.ref \in Address
    BY HereType DEF IInv, Typed, Address
  <2>2. [nav.ref EXCEPT !.path = nav.ref.path, !.file = None] = [nav.ref EXCEPT !.file = None]
    BY <2>1 DEF Address
  <2> QED BY <1>2, <2>1, <2>2, FileLeaves DEF DeleteAnswered, IInv, Typed
<1>3. ASSUME NEW f \in deleting, DeleteFailed(f) PROVE IInv'
  BY <1>3, Apart DEF DeleteFailed, IInv, Typed
<1> QED BY <1>1, <1>2, <1>3, RouterRenderInv, TimerFiresInv, LoadAnsweredInv, LoadFailedInv DEF Page

LEMMA NextInv == IInv /\ [Next]_vars => IInv'
<1>1. ASSUME IInv, UNCHANGED vars PROVE IInv'
  BY <1>1, Apart DEF vars, requests, IInv, Typed
<1> QED BY <1>1, UserInv, PageInv DEF Next

(* The types of the page's state, with histories and conditions of any length. *)
THEOREM TypeCorrect == Spec => []TypeOK
BY InitInv, NextInv, InvImpliesType, PTL DEF Spec

(* However typing, picking, navigating, rendering, look-ups, deletions and failures interleave: a  *)
(* page that shows the address it is at says the same as the address.                             *)
THEOREM PageAgrees == Spec => []AddressAgrees
BY InitInv, NextInv, InvImpliesAgreement, PTL DEF Spec
================================================================================
