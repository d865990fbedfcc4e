-------------------------- MODULE ClassCatalog_proofs --------------------------
(***************************************************************************)
(* Theorems about ClassCatalog, for any names, classes and bounds.         *)
(*                                                                         *)
(* SavesOwn.  The editor writes at the place its class had when it was     *)
(* opened.  The list may have changed since, but the class of the editor   *)
(* is still in it, or the editor would have been closed; so a draft at     *)
(* another place would give two classes one id, which is refused.          *)
(*                                                                         *)
(* TypeCorrect.  The rows hold what was validated, and their names stay    *)
(* unique because a flush that would break that is refused; so there is    *)
(* one class to each place of the catalog that is read from them.          *)
(*                                                                         *)
(* SentStable.  What a field stores of a sample, shown and stored again,   *)
(* is itself but for integers in exponent form, and nothing of it becomes  *)
(* empty; and the names of valid fields differ, so an extraction finds the *)
(* same field again in what was stored.                                    *)
(***************************************************************************)
EXTENDS ClassCatalog, Selection_proofs, FiniteSetTheorems

(* A sequence of records that have an id. *)
IsList(classes) ==
  \E n \in Nat :
    /\ classes = [i \in 1..n |-> classes[i]]
    /\ \A i \in 1..n : "id" \in DOMAIN classes[i]

(* What the editor holds, at address r over a list. *)
Fits(r, classes) ==
  editor # None =>
    /\ {"mode", "index", "draft", "dirty"} \subseteq DOMAIN editor
    /\ "id" \in DOMAIN editor.draft
    /\ \/ editor.mode = "create" /\ editor.index = None
       \/ /\ editor.mode = "edit" /\ editor.index \in Nat
          /\ editor.draft.id = r /\ \E i \in DOMAIN classes : classes[i].id = r

Requested(s) ==
  requests[s] # None =>
    /\ {"kind", "phase", "routed", "seen", "classes"} \subseteq DOMAIN requests[s]
    /\ IsList(requests[s].classes)

IInv ==
  /\ rows = [class |-> rows.class, schema |-> rows.schema] /\ IsFiniteSet(DOMAIN rows.class)
  /\ IsList(list)
  /\ Fits(route, list)
  /\ requests = [s \in Slot |-> requests[s]] /\ \A s \in Slot : Requested(s)
  /\ file # None => "id" \in DOMAIN file
  /\ reading \in BOOLEAN /\ (reading => "id" \in DOMAIN file)

(***************************************************************************)
(* The conversions keep the id.                                            *)
(***************************************************************************)
LEMMA SerializedKeeps ==
  ASSUME NEW c, "id" \in DOMAIN c
  PROVE  Serialized(c).id = c.id /\ "id" \in DOMAIN Serialized(c)
  BY DEF Serialized

LEMMA DraftedKeeps ==
  ASSUME NEW c, "id" \in DOMAIN c
  PROVE  Drafted(c).id = c.id /\ "id" \in DOMAIN Drafted(c)
  BY DEF Drafted

LEMMA ListIsSeq ==
  ASSUME NEW classes, IsList(classes)
  PROVE  /\ classes \in Seq({classes[i] : i \in DOMAIN classes})
         /\ \A i \in DOMAIN classes : "id" \in DOMAIN classes[i]
         /\ Len(classes) \in Nat /\ DOMAIN classes = 1..Len(classes)
<1>1. PICK n \in Nat : classes = [i \in 1..n |-> classes[i]] /\ \A i \in 1..n : "id" \in DOMAIN classes[i]
  BY DEF IsList
<1>2. DOMAIN classes = 1..n BY <1>1
<1>3. classes \in [1..n -> {classes[i] : i \in DOMAIN classes}] BY <1>1, <1>2
<1>4. classes \in Seq({classes[i] : i \in DOMAIN classes}) BY <1>3
<1> QED BY <1>1, <1>2, <1>4

LEMMA SeqIsList ==
  ASSUME NEW S, NEW classes \in Seq(S), \A c \in S : "id" \in DOMAIN c
  PROVE  IsList(classes)
<1>1. Len(classes) \in Nat /\ classes = [i \in 1..Len(classes) |-> classes[i]] OBVIOUS
<1>2. \A i \in 1..Len(classes) : "id" \in DOMAIN classes[i] OBVIOUS
<1> QED BY <1>1, <1>2 DEF IsList

LEMMA SerializedList ==
  ASSUME NEW classes, IsList(classes)
  PROVE  IsList([i \in DOMAIN classes |-> Serialized(classes[i])])
  BY ListIsSeq, SerializedKeeps DEF IsList

LEMMA DraftedList ==
  ASSUME NEW classes, IsList(classes)
  PROVE  IsList([i \in DOMAIN classes |-> Drafted(classes[i])])
  BY ListIsSeq, DraftedKeeps DEF IsList

LEMMA CatalogList ==
  ASSUME NEW now, IsFiniteSet(DOMAIN now.class)
  PROVE  IsList(Catalog(now))
<1> DEFINE n == Cardinality(DOMAIN now.class)
<1>1. n \in Nat BY FS_CardinalityType
<1>2. DOMAIN Catalog(now) = 1..n /\ Catalog(now) = [i \in 1..n |-> Catalog(now)[i]]
  BY DEF Catalog, Ordered
<1>3. \A i \in 1..n : "id" \in DOMAIN Catalog(now)[i]
  BY DEF Catalog, Ordered
<1> QED BY <1>1, <1>2, <1>3 DEF IsList

(* The rows of finitely many classes are finitely many. *)
LEMMA RowsFinite ==
  ASSUME NEW classes, IsFiniteSet(classes)
  PROVE  IsFiniteSet(DOMAIN Rows(classes).class)
<1> DEFINE ids == {c.id : c \in classes}
           f == [c \in classes |-> c.id]
<1>1. f \in Surjection(classes, ids) BY DEF Surjection
<1>2. IsFiniteSet(ids) BY <1>1, FS_Surjection
<1>3. DOMAIN Rows(classes).class = ids BY DEF Rows
<1> QED BY <1>2, <1>3

LEMMA RangeFinite ==
  ASSUME NEW classes, IsList(classes)
  PROVE  IsFiniteSet(Range(classes))
<1>1. Len(classes) \in Nat /\ DOMAIN classes = 1..Len(classes) BY ListIsSeq
<1>2. IsFiniteSet(DOMAIN classes) BY <1>1, FS_Interval
<1>3. classes = [i \in DOMAIN classes |-> classes[i]] BY DEF IsList
<1>4. classes \in Surjection(DOMAIN classes, Range(classes)) BY <1>3 DEF Surjection, Range
<1> QED BY <1>2, <1>4, FS_Surjection

LEMMA ReplacedList ==
  ASSUME NEW classes, IsList(classes), NEW index, NEW draft, "id" \in DOMAIN draft
  PROVE  IsList(Replaced(classes, index, draft))
<1> DEFINE S == {classes[i] : i \in DOMAIN classes} \cup {draft}
<1>4. /\ classes \in Seq({classes[i] : i \in DOMAIN classes})
      /\ \A i \in DOMAIN classes : "id" \in DOMAIN classes[i]
      /\ Len(classes) \in Nat /\ DOMAIN classes = 1..Len(classes)
  BY ListIsSeq
<1>5. classes = [i \in 1..Len(classes) |-> classes[i]] BY <1>4
<1>6. classes \in [1..Len(classes) -> S] BY <1>4, <1>5
<1>1. classes \in Seq(S) /\ \A c \in S : "id" \in DOMAIN c BY <1>4, <1>6
<1>2. Append(classes, draft) \in Seq(S) BY <1>1
<1>3. [i \in DOMAIN classes |-> IF i = index THEN draft ELSE classes[i]] \in Seq(S)
  BY <1>1, ListIsSeq
<1> QED BY <1>1, <1>2, <1>3, SeqIsList DEF Replaced

LEMMA RemovedList ==
  ASSUME NEW classes, IsList(classes), NEW index
  PROVE  IsList(Removed(classes, index))
<1> DEFINE S == {classes[i] : i \in DOMAIN classes}
<1>1. /\ classes \in Seq(S) /\ \A c \in S : "id" \in DOMAIN c
      /\ DOMAIN classes = 1..Len(classes) /\ Len(classes) \in Nat
  BY ListIsSeq
<1>2. CASE index \in DOMAIN classes
  <2>1. index - 1 \in 0..Len(classes) /\ index \in 1..Len(classes) BY <1>1, <1>2
  <2>2. SubSeq(classes, 1, index - 1) \in Seq(S) /\ SubSeq(classes, index + 1, Len(classes)) \in Seq(S)
    BY <1>1, <2>1
  <2>3. RemoveAt(classes, index) \in Seq(S) BY <2>2 DEF RemoveAt
  <2> QED BY <1>1, <1>2, <2>3, SeqIsList DEF Removed
<1> QED BY <1>2 DEF Removed

(***************************************************************************)
(* The invariant.                                                          *)
(***************************************************************************)
(* The page after a rendering. *)
LEMMA RenderedFits ==
  ASSUME NEW r, NEW old, NEW classes, IsList(classes), Fits(old, list), Rendered(r, classes)
  PROVE  IsList(list') /\ Fits(route, list)'
<1>1. /\ DOMAIN classes = 1..Len(classes) /\ Len(classes) \in Nat
      /\ \A i \in DOMAIN classes : "id" \in DOMAIN classes[i]
  BY ListIsSeq
<1> DEFINE places == {i \in DOMAIN classes : classes[i].id = r}
           place == CHOOSE i \in places : TRUE
<1>2. route' = r /\ list' = classes BY DEF Rendered
<1>3. CASE editor' = None BY <1>2, <1>3 DEF Fits
<1>4. CASE editor' = Open("create", None, NewClass(fresh + 1))
  BY <1>2, <1>4 DEF Fits, Open, NewClass
<1>5. CASE editor' = Open("edit", place, classes[place]) /\ places # {}
  <2>1. place \in places BY <1>5
  <2>2. place \in Nat /\ "id" \in DOMAIN classes[place] /\ classes[place].id = r BY <1>1, <2>1
  <2> QED BY <1>2, <1>5, <2>1, <2>2 DEF Fits, Open
<1>6. CASE editor' = editor /\ editor # None /\ editor.mode = "create"
  BY <1>2, <1>6 DEF Fits
<1>7. CASE editor' = editor /\ editor # None /\ editor.mode = "edit" /\ editor.draft.id = r /\ places # {}
  BY <1>2, <1>7 DEF Fits
<1> QED BY <1>3, <1>4, <1>5, <1>6, <1>7 DEF Rendered

(* A request that a save or a deletion sends, and one that goes on. *)
Untouched(s) == \A t \in Slot \ {s} : requests'[t] = requests[t]

LEMMA SendRequests ==
  ASSUME IInv, NEW s \in Slot, NEW kind, NEW classes, IsList(classes), Send(s, kind, classes)
  PROVE  /\ requests' = [t \in Slot |-> requests'[t]] /\ Untouched(s)
         /\ \A t \in Slot : Requested(t)'
         /\ requests'[s].kind = kind
         /\ requests'[s].classes = [i \in DOMAIN classes |-> Serialized(classes[i])]
<1> DEFINE request == [kind |-> kind, phase |-> "sent", routed |-> route # List, seen |-> None,
                       classes |-> [i \in DOMAIN classes |-> Serialized(classes[i])]]
<1>1. requests' = [requests EXCEPT ![s] = request] BY DEF Send
<1>2. requests'[s] = request /\ Untouched(s) /\ requests' = [t \in Slot |-> requests'[t]]
  BY <1>1 DEF IInv, Untouched
<1>3. IsList(request.classes) BY SerializedList
<1>4. \A t \in Slot : Requested(t)'
  BY <1>2, <1>3 DEF IInv, Requested, Untouched
<1> QED BY <1>2, <1>4

LEMMA RequestGoesOn ==
  ASSUME IInv, NEW s \in Slot, NEW request, requests' = [requests EXCEPT ![s] = request],
         request # None =>
           /\ {"kind", "phase", "routed", "seen", "classes"} \subseteq DOMAIN request
           /\ IsList(request.classes)
  PROVE  /\ requests' = [t \in Slot |-> requests'[t]] /\ Untouched(s)
         /\ \A t \in Slot : Requested(t)'
<1>1. requests'[s] = request /\ Untouched(s) /\ requests' = [t \in Slot |-> requests'[t]]
  BY DEF IInv, Untouched
<1> QED BY <1>1 DEF IInv, Requested, Untouched

(* The draft of an edit keeps its id. *)
LEMMA EditsKeep ==
  ASSUME IInv, NEW draft, Edits(draft), "id" \in DOMAIN draft, draft.id = editor.draft.id
  PROVE  IInv'
<1>1. editor # None /\ editor' = [editor EXCEPT !.draft = draft, !.dirty = TRUE]
  BY DEF Edits, ShowsEditor
<1>2. UNCHANGED <<rows, list, route, requests, file, reading>> BY DEF Edits
<1>3. /\ editor'.draft = draft /\ editor'.mode = editor.mode /\ editor'.index = editor.index
      /\ DOMAIN editor' = DOMAIN editor
  BY <1>1 DEF IInv, Fits
<1>4. Fits(route, list)' BY <1>1, <1>2, <1>3 DEF IInv, Fits
<1> QED BY <1>2, <1>4 DEF IInv, Requested

LEMMA EditStep ==
  ASSUME IInv, Edit
  PROVE  IInv'
<1>1. editor # None /\ "id" \in DOMAIN editor.draft BY DEF Edit, ShowsEditor, IInv, Fits
<1>2. \A name : LET d == [editor.draft EXCEPT !.name = name]
                IN  "id" \in DOMAIN d /\ d.id = editor.draft.id
  BY <1>1
<1>3. \A schema : LET d == [editor.draft EXCEPT !.schema = schema]
                  IN  "id" \in DOMAIN d /\ d.id = editor.draft.id
  BY <1>1
<1>4. CASE \E name \in Name : RenameClass(name)
  BY <1>2, <1>4, EditsKeep DEF RenameClass
<1>5. CASE SwitchExtraction
  BY <1>3, <1>5, EditsKeep DEF SwitchExtraction
<1>6. CASE \E schema : EditsSchema(schema)
  BY <1>3, <1>6, EditsKeep DEF EditsSchema
<1>7. ASSUME NEW schema, EditSchema(schema) PROVE \E s : EditsSchema(s)
  BY <1>7 DEF EditSchema, RenameSchema, AddField, AddExtraction, RemoveExtraction, PickField,
              EditExtraction, RemoveField, RenameField, SetType, SetChildren, EditExample,
              SetExample, EditsField, EditsScene
<1> QED BY <1>4, <1>5, <1>6, <1>7 DEF Edit

LEMMA BackendStep ==
  ASSUME IInv, NEW s \in Slot, Read(s) \/ Commit(s) \/ Answer(s)
  PROVE  IInv'
<1>1. requests[s] # None /\ Requested(s) /\ IsList(requests[s].classes)
  BY DEF IInv, Requested, Read, Commit, Answer
<1>2. UNCHANGED <<list, route, editor, file, reading>>
  BY DEF Read, Commit, Answer, page
<1>3. CASE Read(s)
  <2>1. PICK request :
          /\ requests' = [requests EXCEPT ![s] = request]
          /\ DOMAIN request = DOMAIN requests[s] /\ request.classes = requests[s].classes
    <3>1. CASE Wellformed(requests[s].classes)
      <4> DEFINE request == [requests[s] EXCEPT !.phase = "read", !.seen = rows]
      <4>1. requests' = [requests EXCEPT ![s] = request] BY <1>3, <3>1 DEF Read
      <4>2. DOMAIN request = DOMAIN requests[s] /\ request.classes = requests[s].classes
        BY <1>1 DEF Requested
      <4> QED BY <4>1, <4>2
    <3>2. CASE ~Wellformed(requests[s].classes)
      <4> DEFINE request == [requests[s] EXCEPT !.phase = "failed"]
      <4>1. requests' = [requests EXCEPT ![s] = request] BY <1>3, <3>2 DEF Read
      <4>2. DOMAIN request = DOMAIN requests[s] /\ request.classes = requests[s].classes
        BY <1>1 DEF Requested
      <4> QED BY <4>1, <4>2
    <3> QED BY <3>1, <3>2
  <2>2. rows' = rows BY <1>3 DEF Read
  <2>3. /\ requests' = [t \in Slot |-> requests'[t]] /\ \A t \in Slot : Requested(t)'
    BY <1>1, <2>1, RequestGoesOn DEF Requested
  <2> QED BY <1>2, <2>2, <2>3 DEF IInv, Fits
<1>4. CASE Commit(s)
  <2> DEFINE new == Rows(Range(requests[s].classes))
             seen == requests[s].seen
  <2>1. PICK phase : requests' = [requests EXCEPT ![s] = [requests[s] EXCEPT !.phase = phase, !.seen = None]]
    BY <1>4 DEF Commit
  <2>2. /\ requests' = [t \in Slot |-> requests'[t]] /\ \A t \in Slot : Requested(t)'
    <3> DEFINE request == [requests[s] EXCEPT !.phase = phase, !.seen = None]
    <3>1. DOMAIN request = DOMAIN requests[s] /\ request.classes = requests[s].classes
      BY <1>1 DEF Requested
    <3> QED BY <1>1, <2>1, <3>1, RequestGoesOn DEF Requested
  <2>3. IsFiniteSet(DOMAIN new.class) BY <1>1, RangeFinite, RowsFinite
  <2>4. IsFiniteSet(DOMAIN Flushed(rows.class, seen.class, new.class))
    <3>1. DOMAIN Flushed(rows.class, seen.class, new.class) \subseteq DOMAIN rows.class \cup DOMAIN new.class
      BY DEF Flushed, Written
    <3>2. IsFiniteSet(DOMAIN rows.class \cup DOMAIN new.class) BY <2>3, FS_Union DEF IInv
    <3> QED BY <3>1, <3>2, FS_Subset
  <2>5. \/ rows' = rows
        \/ rows' = [class |-> Flushed(rows.class, seen.class, new.class),
                    schema |-> Flushed(rows.schema, seen.schema, new.schema)]
    BY <1>4 DEF Commit
  <2>6. rows' = [class |-> rows'.class, schema |-> rows'.schema] /\ IsFiniteSet(DOMAIN rows'.class)
    BY <2>4, <2>5 DEF IInv
  <2> QED BY <1>2, <2>2, <2>6 DEF IInv, Fits
<1>5. CASE Answer(s)
  <2> DEFINE request == [requests[s] EXCEPT !.phase = "answered", !.classes = Catalog(rows)]
  <2>1. requests' = [requests EXCEPT ![s] = request] /\ rows' = rows BY <1>5 DEF Answer
  <2>2. DOMAIN request = DOMAIN requests[s] /\ request.classes = Catalog(rows)
    BY <1>1 DEF Requested
  <2>3. IsList(Catalog(rows)) BY CatalogList DEF IInv
  <2>4. /\ requests' = [t \in Slot |-> requests'[t]] /\ \A t \in Slot : Requested(t)'
    BY <1>1, <2>1, <2>2, <2>3, RequestGoesOn DEF Requested
  <2> QED BY <1>2, <2>1, <2>4 DEF IInv, Fits
<1> QED BY <1>3, <1>4, <1>5

LEMMA AnswerStep ==
  ASSUME IInv, NEW s \in Slot, Apply(s) \/ Finish(s) \/ Fail(s)
  PROVE  IInv'
<1>1. requests[s] # None /\ Requested(s) /\ IsList(requests[s].classes)
  BY DEF IInv, Requested, Apply, Finish, Fail
<1>2. UNCHANGED <<rows, file, reading>> BY DEF Apply, Finish, Fail
<1>3. CASE Apply(s)
  <2> DEFINE request == [requests[s] EXCEPT !.phase = "applied"]
  <2>1. requests' = [requests EXCEPT ![s] = request] BY <1>3 DEF Apply
  <2>2. DOMAIN request = DOMAIN requests[s] /\ request.classes = requests[s].classes
    BY <1>1 DEF Requested
  <2>3. /\ requests' = [t \in Slot |-> requests'[t]] /\ \A t \in Slot : Requested(t)'
    BY <1>1, <2>1, <2>2, RequestGoesOn DEF Requested
  <2>4. IsList(list') /\ Fits(route, list)'
    BY <1>1, <1>3, DraftedList, RenderedFits DEF Apply, IInv
  <2> QED BY <1>2, <2>3, <2>4 DEF IInv
<1>4. CASE Finish(s) \/ Fail(s)
  <2>1. requests' = [requests EXCEPT ![s] = None] BY <1>4 DEF Finish, Fail
  <2>2. /\ requests' = [t \in Slot |-> requests'[t]] /\ \A t \in Slot : Requested(t)'
    BY <2>1, RequestGoesOn
  <2>3. \/ UNCHANGED page \/ Rendered(List, list)
        \/ editor' = None /\ UNCHANGED <<list, route>>
    BY <1>4 DEF Finish, Fail
  <2>4. IsList(list') /\ Fits(route, list)'
    BY <2>3, RenderedFits DEF IInv, page, Fits
  <2> QED BY <1>2, <2>2, <2>4 DEF IInv
<1> QED BY <1>3, <1>4

LEMMA PageStep ==
  ASSUME IInv,
         \/ \E r : Browse(r)
         \/ Cancel \/ CloseDialog \/ ExportListed \/ ExportEdited \/ PickFile \/ Import
         \/ \E index \in DOMAIN list : AskDelete(index)
  PROVE  IInv'
<1>1. CASE \/ \E r : Browse(r)
           \/ Cancel
  <2>1. UNCHANGED <<rows, requests, file, reading>> BY <1>1 DEF Browse, Cancel
  <2>2. (\E r : Rendered(r, list)) \/ (editor' = None /\ UNCHANGED <<list, route>>)
    BY <1>1 DEF Browse, Cancel
  <2>3. IsList(list') /\ Fits(route, list)' BY <2>2, RenderedFits DEF IInv, Fits
  <2> QED BY <2>1, <2>3 DEF IInv, Requested
<1>2. CASE CloseDialog \/ \E index \in DOMAIN list : AskDelete(index)
  BY <1>2 DEF CloseDialog, AskDelete, page, IInv, Fits, Requested
<1>3. CASE ExportListed \/ ExportEdited
  <2>1. PICK class : "id" \in DOMAIN class /\ Export(class)
    BY <1>3, ListIsSeq DEF ExportListed, ExportEdited, ShowsEditor, IInv, Fits
  <2>2. file' = Serialized(class) /\ UNCHANGED <<rows, page, requests, reading>> BY <2>1 DEF Export
  <2>3. "id" \in DOMAIN file' BY <2>1, <2>2, SerializedKeeps
  <2>4. UNCHANGED <<rows, list, route, editor, requests, reading>> BY <2>2 DEF page
  <2> QED BY <2>3, <2>4 DEF IInv, Fits, Requested
<1>4. CASE PickFile
  BY <1>4 DEF PickFile, page, IInv, Fits, Requested
<1>5. CASE Import
  <2>1. "id" \in DOMAIN file BY <1>5 DEF Import, IInv
  <2>2. "id" \in DOMAIN Imported BY <2>1, DraftedKeeps DEF Imported
  <2>3. editor' = Open("create", None, Imported) \/ editor' = editor BY <1>5 DEF Import
  <2>4. UNCHANGED <<rows, list, route, requests, file>> /\ reading' = FALSE BY <1>5 DEF Import
  <2>5. Fits(route, list)' BY <2>2, <2>3, <2>4 DEF IInv, Fits, Open
  <2> QED BY <2>4, <2>5 DEF IInv, Requested
<1> QED BY <1>1, <1>2, <1>3, <1>4, <1>5

LEMMA SendStep ==
  ASSUME IInv, NEW s \in Slot, Save(s) \/ ConfirmDelete(s)
  PROVE  IInv'
<1>1. UNCHANGED <<rows, list, route, editor, file, reading>> BY DEF Save, ConfirmDelete, page
<1>2. PICK kind, classes : IsList(classes) /\ Send(s, kind, classes)
  <2>1. CASE Save(s)
    <3>1. "id" \in DOMAIN editor.draft BY <2>1 DEF Save, ShowsEditor, IInv, Fits
    <3> QED BY <2>1, <3>1, ReplacedList DEF Save, IInv
  <2>2. CASE ConfirmDelete(s)
    BY <2>2, RemovedList DEF ConfirmDelete, IInv
  <2> QED BY <2>1, <2>2
<1>3. requests' = [t \in Slot |-> requests'[t]] /\ \A t \in Slot : Requested(t)'
  BY <1>2, SendRequests
<1> QED BY <1>1, <1>3 DEF IInv, Fits

LEMMA InitInv == Init => IInv
<1> SUFFICES ASSUME Init PROVE IInv OBVIOUS
<1>1. IsFiniteSet(DOMAIN rows.class) BY InitialAssumption, RowsFinite DEF Init
<1>2. rows = [class |-> rows.class, schema |-> rows.schema] BY DEF Init, Rows
<1>3. IsList(list) BY <1>1, CatalogList, DraftedList DEF Init
<1> QED BY <1>1, <1>2, <1>3 DEF Init, IInv, Fits, Requested

LEMMA NextInv == IInv /\ [Next]_vars => IInv'
<1>1. CASE UNCHANGED vars
  BY <1>1 DEF vars, page, IInv, Fits, Requested
<1> QED BY <1>1, BackendStep, AnswerStep, PageStep, SendStep, EditStep DEF Next, Administrator

(***************************************************************************)
(* A save.                                                                 *)
(***************************************************************************)
(* What is sent instead of the list differs from it in the editor's class. *)
LEMMA OwnClass ==
  ASSUME IInv, editor # None, Valid(Replaced(list, editor.index, editor.draft))
  PROVE  LET sent == Replaced(list, editor.index, editor.draft)
             id == editor.draft.id
         IN  Others(sent, id) = Others(list, id)
<1> DEFINE sent == Replaced(list, editor.index, editor.draft)
           id == editor.draft.id
<1>1. /\ list \in Seq({list[i] : i \in DOMAIN list})
      /\ Len(list) \in Nat /\ DOMAIN list = 1..Len(list)
  BY ListIsSeq DEF IInv
<1>2. CASE editor.index = None
  <2> DEFINE S == {list[i] : i \in DOMAIN list} \cup {editor.draft}
  <2>1. sent = Append(list, editor.draft) BY <1>2 DEF Replaced
  <2>2. list \in Seq(S)
    <3>1. \A i \in 1..Len(list) : list[i] \in S BY <1>1
    <3>2. list = [i \in 1..Len(list) |-> list[i]] BY <1>1
    <3>3. list \in [1..Len(list) -> S] BY <3>1, <3>2
    <3> QED BY <1>1, <3>3
  <2>3. /\ DOMAIN sent = 1..(Len(list) + 1) /\ sent[Len(list) + 1] = editor.draft
        /\ \A i \in 1..Len(list) : sent[i] = list[i]
    BY <1>1, <2>1, <2>2
  <2>4. 1..(Len(list) + 1) = 1..Len(list) \cup {Len(list) + 1} BY <1>1
  <2>5. Range(sent) = Range(list) \cup {editor.draft} BY <1>1, <2>3, <2>4 DEF Range
  <2> QED BY <2>5 DEF Others
<1>3. CASE editor.index # None
  <2>1. PICK j \in DOMAIN list : list[j].id = id
    BY <1>3 DEF IInv, Fits
  <2>2. sent = [i \in DOMAIN list |-> IF i = editor.index THEN editor.draft ELSE list[i]]
    BY <1>3 DEF Replaced
  <2>3. \A i, k \in DOMAIN list : i # k => sent[i].id # sent[k].id BY <2>2 DEF Valid
  <2>4. \A i \in DOMAIN list : i = editor.index => i = j
    BY <2>1, <2>2, <2>3
  <2>5. \A i \in DOMAIN list : sent[i] = list[i] \/ (sent[i].id = id /\ list[i].id = id)
    BY <2>1, <2>2, <2>4
  <2>6. \A c : c \in Others(sent, id) <=> c \in Others(list, id)
    BY <2>2, <2>5 DEF Others, Range
  <2> QED BY <2>6
<1> QED BY <1>2, <1>3

LEMMA SaveSendsOwn ==
  ASSUME IInv, NEW s \in Slot, Save(s)
  PROVE  Others(requests'[s].classes, editor.draft.id)
           = {Serialized(c) : c \in Others(list, editor.draft.id)}
<1> DEFINE sent == Replaced(list, editor.index, editor.draft)
           id == editor.draft.id
<1>1. editor # None /\ Valid(sent) /\ Send(s, "save", sent) BY DEF Save, ShowsEditor
<1>2. "id" \in DOMAIN editor.draft BY <1>1 DEF IInv, Fits
<1>3. IsList(sent) BY <1>2, ReplacedList DEF IInv
<1>4. requests'[s].classes = [i \in DOMAIN sent |-> Serialized(sent[i])] BY <1>1, <1>3, SendRequests
<1>5. \A i \in DOMAIN sent : Serialized(sent[i]).id = sent[i].id
  BY <1>3, ListIsSeq, SerializedKeeps
<1>6. Others(requests'[s].classes, id) = {Serialized(c) : c \in Others(sent, id)}
  BY <1>4, <1>5 DEF Others, Range
<1>7. Others(sent, id) = Others(list, id) BY <1>1, OwnClass
<1> QED BY <1>6, <1>7

(* Only a save begins a request that is one. *)
LEMMA NewSave ==
  ASSUME IInv, [Next]_vars, NEW s \in Slot, requests[s] = None, requests'[s] # None,
         requests'[s].kind = "save"
  PROVE  Save(s)
<1>1. CASE \E t \in Slot : Read(t) \/ Commit(t) \/ Answer(t) \/ Apply(t) \/ Finish(t) \/ Fail(t)
  <2>1. PICK t \in Slot : requests[t] # None /\ \E request : requests' = [requests EXCEPT ![t] = request]
    BY <1>1 DEF Read, Commit, Answer, Apply, Finish, Fail
  <2> QED BY <2>1 DEF IInv
<1>2. CASE \E t \in Slot : ConfirmDelete(t)
  <2>1. PICK t \in Slot : ConfirmDelete(t) BY <1>2
  <2>2. Send(t, "delete", Removed(list, dialog)) /\ IsList(Removed(list, dialog))
    BY <2>1, RemovedList DEF ConfirmDelete, IInv
  <2>3. requests'[t].kind = "delete" /\ Untouched(t) BY <2>2, SendRequests
  <2> QED BY <2>3 DEF Untouched
<1>3. CASE \E t \in Slot : Save(t)
  <2>1. PICK t \in Slot : Save(t) BY <1>3
  <2>2. "id" \in DOMAIN editor.draft BY <2>1 DEF Save, ShowsEditor, IInv, Fits
  <2>3. /\ Send(t, "save", Replaced(list, editor.index, editor.draft))
        /\ IsList(Replaced(list, editor.index, editor.draft))
    BY <2>1, <2>2, ReplacedList DEF Save, IInv
  <2>4. Untouched(t) BY <2>3, SendRequests
  <2> QED BY <2>1, <2>4 DEF Untouched
<1>4. CASE Edit
  <2>1. \E draft : Edits(draft)
    BY <1>4 DEF Edit, RenameClass, SwitchExtraction, EditsSchema, EditSchema, RenameSchema, AddField,
                AddExtraction, RemoveExtraction, PickField, EditExtraction, RemoveField, RenameField,
                SetType, SetChildren, EditExample, SetExample, EditsField, EditsScene
  <2> QED BY <2>1 DEF Edits
<1>5. CASE UNCHANGED requests BY <1>5
<1>6. \/ UNCHANGED requests \/ Edit
      \/ \E t \in Slot : Save(t) \/ ConfirmDelete(t) \/ Read(t) \/ Commit(t) \/ Answer(t)
                         \/ Apply(t) \/ Finish(t) \/ Fail(t)
  BY DEF Next, Administrator, Browse, Cancel, CloseDialog, ExportListed, ExportEdited, Export,
         PickFile, AskDelete, Import, vars
<1> QED BY <1>1, <1>2, <1>3, <1>4, <1>5, <1>6

(* A save sends every class but the editor's as the list has it, wherever in the list the class *)
(* of the editor is by now and whatever deletion or save was answered since it was opened.       *)
THEOREM SavesOwn == Spec => SavesOwnClass
<1>1. IInv /\ [Next]_vars =>
        [\A s \in Slot : requests[s] = None /\ requests'[s] # None /\ requests'[s].kind = "save" =>
           Others(requests'[s].classes, editor.draft.id)
             = {Serialized(c) : c \in Others(list, editor.draft.id)}]_vars
  BY NewSave, SaveSendsOwn
<1>2. Spec => []IInv BY InitInv, NextInv, PTL DEF Spec
<1> QED BY <1>1, <1>2, PTL DEF Spec, SavesOwnClass

----------------------------------------------------------------------------
(***************************************************************************)
(* Types of what is edited and stored: a plain field has no children.      *)
(***************************************************************************)
GoodField == {f \in Field : f.type = "plain" => f.children = <<>>}
GoodSchema == [id : Nat, name : Label, fields : Seq(GoodField), scene : Seq(Sample)]
GoodClass == [id : Nat, name : Label, schema : GoodSchema \cup {None}]

Children == UNION {[labels -> Typed] : labels \in SUBSET Label}

LEMMA ChildrenAre ==
  ASSUME NEW child
  PROVE  child \in Children <=> /\ DOMAIN child \subseteq Label
                                /\ child \in [DOMAIN child -> Typed]
BY DEF Children

(* A class whose plain fields have no children. *)
LEMMA GoodClassIs ==
  ASSUME NEW c
  PROVE  c \in GoodClass <=> c \in Class /\ Shaped(c)
<1>1. ASSUME c \in GoodClass PROVE c \in Class /\ Shaped(c)
  <2>1. CASE c.schema = None BY <1>1, <2>1 DEF GoodClass, Class, Shaped
  <2>2. CASE c.schema # None
    <3>1. c.schema \in GoodSchema BY <1>1, <2>2 DEF GoodClass
    <3>2. c.schema.fields \in Seq(GoodField) BY <3>1 DEF GoodSchema
    <3>3. GoodField \subseteq Field BY DEF GoodField
    <3>4. c.schema.fields \in Seq(Field) BY <3>2, <3>3
    <3>5. c.schema \in Schema BY <3>1, <3>4 DEF GoodSchema, Schema
    <3>6. \A i \in DOMAIN c.schema.fields : c.schema.fields[i] \in GoodField BY <3>2
    <3>7. Shaped(c) BY <3>6 DEF Shaped, Range, GoodField
    <3> QED BY <1>1, <3>5, <3>7 DEF GoodClass, Class
  <2> QED BY <2>1, <2>2
<1>2. ASSUME c \in Class, Shaped(c) PROVE c \in GoodClass
  <2>1. CASE c.schema = None BY <1>2, <2>1 DEF GoodClass, Class
  <2>2. CASE c.schema # None
    <3>1. c.schema \in Schema BY <1>2, <2>2 DEF Class
    <3>2. c.schema.fields \in Seq(Field) BY <3>1 DEF Schema
    <3>3. \A i \in DOMAIN c.schema.fields : c.schema.fields[i] \in GoodField
      <4>1. \A i \in DOMAIN c.schema.fields : c.schema.fields[i] \in Field BY <3>2
      <4>2. \A i \in DOMAIN c.schema.fields : c.schema.fields[i] \in Range(c.schema.fields)
        BY DEF Range
      <4> QED BY <1>2, <2>2, <4>1, <4>2 DEF Shaped, GoodField
    <3>4. c.schema.fields \in Seq(GoodField) BY <3>2, <3>3
    <3>5. c.schema \in GoodSchema BY <3>1, <3>4 DEF GoodSchema, Schema
    <3> QED BY <1>2, <3>5 DEF GoodClass, Class
  <2> QED BY <2>1, <2>2
<1> QED BY <1>1, <1>2

Short(text) == IF text = "exponent" THEN "clean" ELSE text

LEMMA CoercedType ==
  ASSUME NEW text \in Typed
  PROVE  Coerced(text) \in Typed /\ Coerced(Coerced(text)) = Short(Coerced(text))
         /\ (Coerced(text) = "" <=> text = "")
BY DEF Coerced, Typed, Short

LEMMA ShortenedIs ==
  ASSUME NEW s \in Sample
  PROVE  /\ Shortened(s) = [s EXCEPT !.value = Short(s.value),
                                    !.child = [c \in DOMAIN s.child |-> Short(s.child[c])]]
         /\ Shortened(s) \in Sample
         /\ Shortened(s).field = s.field /\ Shortened(s).anchor = s.anchor
         /\ HasValue(s) => HasValue(Shortened(s))
<1> DEFINE child == [c \in DOMAIN s.child |-> Short(s.child[c])]
<1>0. s.child \in Children /\ s.value \in Typed BY DEF Sample, Children
<1>1. Shortened(s) = [s EXCEPT !.value = Short(s.value), !.child = child]
  BY DEF Shortened, Short
<1>2. \A text \in Typed : Short(text) \in Typed /\ (Short(text) = "" <=> text = "")
  BY DEF Short, Typed
<1>3. child \in Children /\ DOMAIN child = DOMAIN s.child
  <2>1. DOMAIN s.child \subseteq Label /\ s.child \in [DOMAIN s.child -> Typed]
    BY <1>0, ChildrenAre
  <2> QED BY <1>2, <2>1, ChildrenAre
<1>4. s.child # NoValues => child # NoValues
  <2>1. DOMAIN s.child = {} => s.child = NoValues
    <3>1. s.child = [c \in DOMAIN s.child |-> s.child[c]] BY <1>0, ChildrenAre
    <3> QED BY <3>1 DEF NoValues
  <2>2. DOMAIN NoValues = {} BY DEF NoValues
  <2> QED BY <1>3, <2>1, <2>2
<1> HIDE DEF child
<1>5. Shortened(s) \in Sample BY <1>0, <1>1, <1>2, <1>3 DEF Sample, Children
<1>6. /\ Shortened(s).field = s.field /\ Shortened(s).anchor = s.anchor
      /\ Shortened(s).value = Short(s.value) /\ Shortened(s).child = child
  BY <1>1 DEF Sample
<1>7. HasValue(s) => HasValue(Shortened(s)) BY <1>0, <1>2, <1>4, <1>6 DEF HasValue
<1> QED BY <1>1, <1>5, <1>6, <1>7 DEF child

LEMMA NoValuesType == NoValues \in Children
<1>1. NoValues = [child \in {} |-> ""] /\ {} \subseteq Label BY DEF NoValues
<1>2. NoValues \in [{} -> Typed] BY <1>1
<1> QED BY <1>1, <1>2, ChildrenAre

(* What a field stores of a sample, for either type. *)
LEMMA StoredFields ==
  ASSUME NEW field \in GoodField, NEW sample \in Sample
  PROVE  /\ Stored(field, sample) \in Sample
         /\ Stored(field, sample).field = sample.field
         /\ Stored(field, sample).anchor = sample.anchor
<1>0. /\ sample.child \in Children /\ sample.value \in Typed /\ sample.field \in Label
      /\ sample.anchor \in {"in", "out", "none"}
  BY DEF Sample, Children
<1>1. CASE field.type = "object_list"
  <2> DEFINE filled == {c \in Range(field.children) \cap DOMAIN sample.child : c # Blank /\ sample.child[c] # ""}
             child == [c \in filled |-> Coerced(sample.child[c])]
  <2>1. Stored(field, sample) = [sample EXCEPT !.value = "", !.child = child] BY <1>1 DEF Stored
  <2>2. DOMAIN sample.child \subseteq Label /\ sample.child \in [DOMAIN sample.child -> Typed]
    BY <1>0, ChildrenAre
  <2>3. filled \subseteq DOMAIN sample.child OBVIOUS
  <2>4. \A c \in filled : Coerced(sample.child[c]) \in Typed BY <2>2, <2>3, CoercedType
  <2>5. child \in Children BY <2>2, <2>3, <2>4, ChildrenAre
  <2> HIDE DEF child
  <2>6. "" \in Typed BY DEF Typed
  <2> QED BY <1>0, <2>1, <2>5, <2>6 DEF Sample, Children
<1>2. CASE field.type # "object_list"
  <2>1. Stored(field, sample) = [sample EXCEPT !.value = Coerced(sample.value), !.child = NoValues]
    BY <1>2 DEF Stored
  <2>2. Coerced(sample.value) \in Typed BY <1>0, CoercedType
  <2> HIDE DEF NoValues
  <2> QED BY <2>1, <2>2, NoValuesType DEF Sample, Children
<1> QED BY <1>1, <1>2

LEMMA ShownType ==
  ASSUME NEW type, NEW sample \in Sample
  PROVE  /\ Shown(type, sample) \in Sample
         /\ Shown(type, sample).field = sample.field
         /\ Shown(type, sample).anchor = sample.anchor
<1>1. {"", "clean"} \subseteq Typed BY DEF Typed
<1>2. CASE type = "object_list" BY <1>1, <1>2 DEF Shown, Sample
<1>3. CASE type # "object_list"
  <2> DEFINE value == IF sample.child = NoValues THEN sample.value ELSE "clean"
  <2>1. Shown(type, sample) = [sample EXCEPT !.value = value, !.child = NoValues] BY <1>3 DEF Shown
  <2>2. value \in Typed BY <1>1 DEF Sample
  <2> HIDE DEF value
  <2> QED BY <2>1, <2>2, NoValuesType DEF Sample, Children
<1> QED BY <1>2, <1>3

(* A value that is stored, shown and stored again stays as it is, or is    *)
(* shortened.                                                              *)
LEMMA StoredTwice ==
  ASSUME NEW field \in GoodField, NEW sample \in Sample
  PROVE  Stored(field, Shown(field.type, Stored(field, sample))) = Shortened(Stored(field, sample))
<1> DEFINE g == Stored(field, sample)
<1>0. sample.child \in Children /\ sample.value \in Typed BY DEF Sample, Children
<1>1. g \in Sample BY StoredFields
<1>2. CASE field.type = "object_list"
  <2> DEFINE filled == {c \in Range(field.children) \cap DOMAIN sample.child : c # Blank /\ sample.child[c] # ""}
             child == [c \in filled |-> Coerced(sample.child[c])]
  <2>1. g = [sample EXCEPT !.value = "", !.child = child] BY <1>2 DEF Stored
  <2>2. g.value = "" /\ g.child = child BY <2>1 DEF Sample
  <2>3. DOMAIN sample.child \subseteq Label /\ sample.child \in [DOMAIN sample.child -> Typed]
    BY <1>0, ChildrenAre
  <2>4. \A c \in filled : /\ child[c] # "" /\ Coerced(child[c]) = Short(child[c])
                          /\ c \in Range(field.children) /\ c # Blank
    BY <2>3, CoercedType
  <2>5. DOMAIN child = filled OBVIOUS
  <2>6. {c \in Range(field.children) \cap DOMAIN child : c # Blank /\ child[c] # ""} = filled
    <3> HIDE DEF child, filled
    <3> QED BY <2>4, <2>5
  <2>7. [c \in filled |-> Coerced(child[c])] = [c \in DOMAIN child |-> Short(child[c])]
    <3> HIDE DEF child, filled
    <3> QED BY <2>4, <2>5
  <2> HIDE DEF g, child, filled
  <2>8. Shown(field.type, g) = [g EXCEPT !.value = ""] BY <1>2 DEF Shown
  <2>9. Shown(field.type, g) = g BY <1>1, <2>2, <2>8 DEF Sample
  <2>10. Stored(field, g) = [g EXCEPT !.value = Short(g.value),
                                      !.child = [c \in DOMAIN g.child |-> Short(g.child[c])]]
    <3> DEFINE full == {c \in Range(field.children) \cap DOMAIN g.child : c # Blank /\ g.child[c] # ""}
    <3>1. Stored(field, g) = [g EXCEPT !.value = "", !.child = [c \in full |-> Coerced(g.child[c])]]
      BY <1>2 DEF Stored
    <3>2. full = filled BY <2>2, <2>6
    <3> HIDE DEF full
    <3>3. [c \in full |-> Coerced(g.child[c])] = [c \in DOMAIN g.child |-> Short(g.child[c])]
      BY <2>2, <2>7, <3>2
    <3>4. Short(g.value) = "" BY <2>2 DEF Short
    <3> QED BY <3>1, <3>3, <3>4
  <2>11. Stored(field, g) = Shortened(g) BY <1>1, <2>10, ShortenedIs
  <2> QED BY <2>9, <2>11 DEF g
<1>3. CASE field.type # "object_list"
  <2>1. g = [sample EXCEPT !.value = Coerced(sample.value), !.child = NoValues] BY <1>3 DEF Stored
  <2>2. g.value = Coerced(sample.value) /\ g.child = NoValues BY <2>1 DEF Sample
  <2>3. Coerced(g.value) = Short(g.value) BY <1>0, <2>2, CoercedType
  <2>9. [c \in DOMAIN g.child |-> Short(g.child[c])] = g.child BY <2>2 DEF NoValues
  <2> HIDE DEF g, NoValues
  <2>4. Shown(field.type, g) = [g EXCEPT !.value = g.value, !.child = NoValues]
    BY <1>3, <2>2 DEF Shown
  <2>5. Shown(field.type, g) = g BY <1>1, <2>2, <2>4 DEF Sample
  <2>6. Stored(field, g) = [g EXCEPT !.value = Coerced(g.value), !.child = NoValues] BY <1>3 DEF Stored
  <2>7. Stored(field, g) = [g EXCEPT !.value = Short(g.value),
                                     !.child = [c \in DOMAIN g.child |-> Short(g.child[c])]]
    BY <2>2, <2>3, <2>6, <2>9
  <2>8. Stored(field, g) = Shortened(g) BY <1>1, <2>7, ShortenedIs
  <2> QED BY <2>5, <2>8 DEF g
<1> QED BY <1>2, <1>3

----------------------------------------------------------------------------
(* Fields. *)

Shows(field, other) ==
  /\ other.name = field.name /\ other.type = field.type
  /\ field.type = "object_list" => other.children = field.children

LEMMA GoodFieldIs ==
  ASSUME NEW f
  PROVE  f \in GoodField <=>
           /\ f = [name |-> f.name, type |-> f.type, children |-> f.children, examples |-> f.examples]
           /\ f.name \in Label /\ f.type \in {"plain", "object_list"}
           /\ f.children \in Seq(Label) /\ f.examples \in Seq(Sample)
           /\ f.type = "plain" => f.children = <<>>
BY DEF GoodField, Field

LEMMA StoredFieldIs ==
  ASSUME NEW f \in GoodField
  PROVE  /\ StoredField(f) \in GoodField /\ Shows(f, StoredField(f))
         /\ StoredField(f).examples
              \in Seq({Stored(f, e) : e \in Sample} \cap {s \in Sample : HasValue(s)})
<1> DEFINE stored == [i \in DOMAIN f.examples |-> Stored(f, f.examples[i])]
           has == {s \in Range(stored) : HasValue(s)}
           S == {Stored(f, e) : e \in Sample}
           children == IF f.type = "object_list" THEN f.children ELSE <<>>
           examples == Selected(stored, has)
<1>0. /\ f = [name |-> f.name, type |-> f.type, children |-> f.children, examples |-> f.examples]
      /\ f.name \in Label /\ f.type \in {"plain", "object_list"}
      /\ f.children \in Seq(Label) /\ f.examples \in Seq(Sample)
      /\ f.type = "plain" => f.children = <<>>
  BY GoodFieldIs
<1>1. stored \in Seq(S)
  <2>1. \A i \in 1..Len(f.examples) : f.examples[i] \in Sample BY <1>0
  <2>2. DOMAIN f.examples = 1..Len(f.examples) /\ Len(f.examples) \in Nat BY <1>0
  <2>3. stored \in [1..Len(f.examples) -> S] BY <2>1, <2>2
  <2> QED BY <2>2, <2>3
<1>2. S \subseteq Sample BY StoredFields
<1> HIDE DEF stored
<1>3. examples \in Seq(S \cap has) BY <1>1, SelectedType
<1>4. S \cap has \subseteq S \cap {s \in Sample : HasValue(s)} BY <1>2
<1> HIDE DEF has, S
<1>5. examples \in Seq(S \cap {s \in Sample : HasValue(s)})
  <2>1. Seq(S \cap has) \subseteq Seq(S \cap {s \in Sample : HasValue(s)}) BY <1>4
  <2> QED BY <1>3, <2>1
<1>6. examples \in Seq(Sample)
  <2>1. S \cap {s \in Sample : HasValue(s)} \subseteq Sample OBVIOUS
  <2>2. Seq(S \cap {s \in Sample : HasValue(s)}) \subseteq Seq(Sample) BY <2>1
  <2> QED BY <1>5, <2>2
<1>7. StoredField(f) = [f EXCEPT !.children = children, !.examples = examples]
  BY DEF StoredField, stored, has
<1> HIDE DEF examples
<1>8. StoredField(f) = [name |-> f.name, type |-> f.type, children |-> children, examples |-> examples]
  BY <1>0, <1>7
<1>9. StoredField(f) \in GoodField BY <1>0, <1>6, <1>8, GoodFieldIs
<1>10. Shows(f, StoredField(f)) BY <1>8 DEF Shows
<1> QED BY <1>5, <1>8, <1>9, <1>10 DEF S

LEMMA DraftedFieldIs ==
  ASSUME NEW f \in GoodField
  PROVE  /\ DraftedField(f) \in GoodField /\ Shows(f, DraftedField(f))
         /\ DraftedField(f).children = f.children
         /\ DraftedField(f).examples = [i \in DOMAIN f.examples |-> Shown(f.type, f.examples[i])]
<1> DEFINE examples == [i \in DOMAIN f.examples |-> Shown(f.type, f.examples[i])]
<1>0. /\ f = [name |-> f.name, type |-> f.type, children |-> f.children, examples |-> f.examples]
      /\ f.name \in Label /\ f.type \in {"plain", "object_list"}
      /\ f.children \in Seq(Label) /\ f.examples \in Seq(Sample)
      /\ f.type = "plain" => f.children = <<>>
  BY GoodFieldIs
<1>1. examples \in Seq(Sample)
  <2>1. \A i \in 1..Len(f.examples) : Shown(f.type, f.examples[i]) \in Sample BY <1>0, ShownType
  <2>2. DOMAIN f.examples = 1..Len(f.examples) /\ Len(f.examples) \in Nat BY <1>0
  <2>3. examples \in [1..Len(f.examples) -> Sample] BY <2>1, <2>2
  <2> QED BY <2>2, <2>3
<1>2. DraftedField(f) = [f EXCEPT !.examples = examples] BY DEF DraftedField
<1> HIDE DEF examples
<1>3. DraftedField(f) = [name |-> f.name, type |-> f.type, children |-> f.children, examples |-> examples]
  BY <1>0, <1>2
<1>4. DraftedField(f) \in GoodField BY <1>0, <1>1, <1>3, GoodFieldIs
<1> QED BY <1>3, <1>4 DEF Shows, examples

(* Fields that show each other store alike. *)
LEMMA StoredAlike ==
  ASSUME NEW f, NEW g, Shows(f, g), NEW sample
  PROVE  Stored(g, sample) = Stored(f, sample)
<1>1. CASE f.type = "object_list" BY <1>1 DEF Shows, Stored
<1>2. CASE f.type # "object_list" BY <1>2 DEF Shows, Stored
<1> QED BY <1>1, <1>2

LEMMA AllShortenedType ==
  ASSUME NEW samples \in Seq(Sample)
  PROVE  AllShortened(samples) \in Seq(Sample)
<1>1. \A i \in 1..Len(samples) : samples[i] \in Sample OBVIOUS
<1>2. \A i \in 1..Len(samples) : Shortened(samples[i]) \in Sample BY <1>1, ShortenedIs
<1>3. DOMAIN samples = 1..Len(samples) /\ Len(samples) \in Nat OBVIOUS
<1>4. AllShortened(samples) \in [1..Len(samples) -> Sample] BY <1>2, <1>3 DEF AllShortened
<1> QED BY <1>3, <1>4

LEMMA ShortenedFieldType ==
  ASSUME NEW f \in GoodField
  PROVE  ShortenedField(f) \in GoodField
<1>1. f.examples \in Seq(Sample) BY GoodFieldIs
<1>2. AllShortened(f.examples) \in Seq(Sample) BY <1>1, AllShortenedType
<1>3. ShortenedField(f) = [f EXCEPT !.examples = AllShortened(f.examples)] BY DEF ShortenedField
<1> QED BY <1>2, <1>3 DEF GoodField, Field

(* What is stored of a field, shown and stored again stays as it is, but   *)
(* for the values that are shortened.                                      *)
LEMMA FieldStoredTwice ==
  ASSUME NEW f \in GoodField
  PROVE  StoredField(DraftedField(StoredField(f))) = ShortenedField(StoredField(f))
<1> DEFINE g == StoredField(f)
           d == DraftedField(g)
           examples == [i \in DOMAIN d.examples |-> Stored(d, d.examples[i])]
<1>1. /\ g \in GoodField /\ Shows(f, g)
      /\ g.examples \in Seq({Stored(f, e) : e \in Sample} \cap {s \in Sample : HasValue(s)})
  BY StoredFieldIs
<1>2. /\ d \in GoodField /\ Shows(g, d) /\ d.children = g.children
      /\ d.examples = [i \in DOMAIN g.examples |-> Shown(g.type, g.examples[i])]
  BY <1>1, DraftedFieldIs
<1>3. Shows(f, d) BY <1>1, <1>2 DEF Shows
<1>4. \A s : Stored(d, s) = Stored(f, s) BY <1>3, StoredAlike
<1>5. g.type = f.type BY <1>1 DEF Shows
<1> HIDE DEF g, d
<1>6. \A i \in DOMAIN g.examples :
        /\ g.examples[i] \in Sample /\ HasValue(g.examples[i])
        /\ Stored(d, Shown(g.type, g.examples[i])) = Shortened(g.examples[i])
  <2> TAKE i \in DOMAIN g.examples
  <2>1. g.examples[i] \in {Stored(f, e) : e \in Sample} \cap {s \in Sample : HasValue(s)} BY <1>1
  <2>2. PICK e \in Sample : g.examples[i] = Stored(f, e) BY <2>1
  <2>3. Stored(f, Shown(f.type, Stored(f, e))) = Shortened(Stored(f, e)) BY StoredTwice
  <2> QED BY <1>4, <1>5, <2>1, <2>2, <2>3
<1>7. examples = AllShortened(g.examples)
  <2>1. DOMAIN d.examples = DOMAIN g.examples BY <1>2
  <2>2. \A i \in DOMAIN g.examples : Stored(d, d.examples[i]) = Shortened(g.examples[i]) BY <1>2, <1>6
  <2> QED BY <2>1, <2>2 DEF AllShortened
<1> HIDE DEF examples
<1>8. Selected(examples, {s \in Range(examples) : HasValue(s)}) = examples
  <2> DEFINE T == {s \in Range(examples) : HasValue(s)}
  <2>1. g.examples \in Seq(Sample) BY <1>1, GoodFieldIs
  <2>2. examples \in Seq(Sample) BY <1>7, <2>1, AllShortenedType
  <2>3. \A i \in DOMAIN examples : HasValue(examples[i]) BY <1>6, <1>7, ShortenedIs DEF AllShortened
  <2>4. \A i \in DOMAIN examples : examples[i] \in T BY <2>3 DEF Range
  <2> HIDE DEF T
  <2>5. Selected(examples, T) = examples BY <2>2, <2>4, SelectedAll
  <2> QED BY <2>5 DEF T
<1>9. StoredField(d) = [d EXCEPT !.children = IF d.type = "object_list" THEN d.children ELSE <<>>,
                                 !.examples = examples]
  <2>1. StoredField(d) = [d EXCEPT !.children = IF d.type = "object_list" THEN d.children ELSE <<>>,
                                   !.examples = Selected(examples, {s \in Range(examples) : HasValue(s)})]
    BY DEF StoredField, examples
  <2> QED BY <1>8, <2>1
<1>10. (IF d.type = "object_list" THEN d.children ELSE <<>>) = g.children
  BY <1>1, <1>2, GoodFieldIs DEF Shows
<1>11. StoredField(d) = ShortenedField(g)
  <2>1. d.name = g.name /\ d.type = g.type BY <1>2 DEF Shows
  <2>2. /\ d = [name |-> d.name, type |-> d.type, children |-> d.children, examples |-> d.examples]
        /\ g = [name |-> g.name, type |-> g.type, children |-> g.children, examples |-> g.examples]
    BY <1>1, <1>2, GoodFieldIs
  <2>3. StoredField(d) = [d EXCEPT !.children = g.children, !.examples = examples]
    BY <1>9, <1>10
  <2>4. ShortenedField(g) = [g EXCEPT !.examples = examples] BY <1>7 DEF ShortenedField
  <2> QED BY <2>1, <2>2, <2>3, <2>4
<1> QED BY <1>11 DEF g, d

----------------------------------------------------------------------------
(* Schemas. *)

(* Names of which none is the other's, without regard to case, are different names. *)
LEMMA DistinctNames ==
  ASSUME NEW fields \in Seq(GoodField), Distinct([i \in DOMAIN fields |-> fields[i].name])
  PROVE  \A i, j \in DOMAIN fields : fields[i].name = fields[j].name => i = j
<1> DEFINE n == Len(fields)
           names == [i \in DOMAIN fields |-> fields[i].name]
           f == [i \in 1..n |-> Key[names[i]]]
           T == {Key[names[i]] : i \in DOMAIN names}
<1>1. n \in Nat /\ DOMAIN fields = 1..n OBVIOUS
<1>2. DOMAIN names = 1..n /\ \A i \in 1..n : names[i] = fields[i].name BY <1>1
<1>3. Len(names) = n
  <2>1. names \in Seq(Label)
    <3>1. \A i \in 1..n : fields[i].name \in Label BY <1>1, GoodFieldIs
    <3>2. names \in [1..n -> Label] BY <1>1, <3>1
    <3> QED BY <1>1, <3>2
  <2> HIDE DEF names
  <2> QED BY <1>1, <1>2, <2>1
<1> HIDE DEF n, names
<1>4. f \in Surjection(1..n, T) BY <1>2 DEF Surjection
<1>5. IsFiniteSet(1..n) /\ Cardinality(1..n) = n BY <1>1, FS_Interval
<1>6. Cardinality(T) = n BY <1>3 DEF Distinct, names
<1>7. f \in Injection(1..n, T)
  <2> HIDE DEF f, T
  <2> QED BY <1>4, <1>5, <1>6, FS_Surjection
<1>8. \A i, j \in 1..n : f[i] = f[j] => i = j
  <2> HIDE DEF f, T
  <2>1. DOMAIN f = 1..n /\ IsInjective(f) BY <1>7 DEF Injection
  <2> QED BY <2>1 DEF IsInjective
<1>9. \A i, j \in 1..n : names[i] = names[j] => f[i] = f[j] OBVIOUS
<1> HIDE DEF f, T
<1> QED BY <1>1, <1>2, <1>8, <1>9

LEMMA FieldOfType ==
  ASSUME NEW fields \in Seq(GoodField), NEW name
  PROVE  /\ Named(fields, name) # {} <=> \E i \in DOMAIN fields : fields[i].name = name
         /\ Named(fields, name) # {} => \E i \in DOMAIN fields :
              FieldOf(fields, name) = fields[i] /\ fields[i].name = name
         /\ Named(fields, name) # {} => FieldOf(fields, name) \in GoodField
<1>1. Named(fields, name) # {} => FieldOf(fields, name) \in Named(fields, name) BY DEF FieldOf
<1>2. \A f : f \in Named(fields, name) <=>
        \E i \in DOMAIN fields : f = fields[i] /\ fields[i].name = name
  BY DEF Named, Range
<1>3. \A i \in DOMAIN fields : fields[i] \in GoodField OBVIOUS
<1> QED BY <1>1, <1>2, <1>3

(* The field of a name is that of the same place in fields that show the same. *)
LEMMA FieldAlike ==
  ASSUME NEW fields \in Seq(GoodField), NEW other \in Seq(GoodField),
         DOMAIN other = DOMAIN fields, \A i \in DOMAIN fields : Shows(fields[i], other[i]),
         \A i, j \in DOMAIN fields : fields[i].name = fields[j].name => i = j,
         NEW name, Named(fields, name) # {}
  PROVE  Named(other, name) # {} /\ Shows(FieldOf(fields, name), FieldOf(other, name))
<1>1. PICK i \in DOMAIN fields : FieldOf(fields, name) = fields[i] /\ fields[i].name = name
  BY FieldOfType
<1>2. \A j \in DOMAIN other : other[j].name = fields[j].name BY DEF Shows
<1>3. Named(other, name) # {} BY <1>1, <1>2, FieldOfType
<1>4. PICK j \in DOMAIN other : FieldOf(other, name) = other[j] /\ other[j].name = name
  BY <1>3, FieldOfType
<1>5. i = j BY <1>1, <1>2, <1>4
<1> QED BY <1>1, <1>3, <1>4, <1>5

(* What a schema keeps of a sample of its scene. *)
Kept(schema) ==
  {s \in Sample : /\ Named(schema.fields, s.field) # {} /\ s.anchor # "none"
                  /\ HasValue(Stored(FieldOf(schema.fields, s.field), s))}

Entries(schema) == {Stored(FieldOf(schema.fields, s.field), s) : s \in Kept(schema)}

LEMMA EntryIs ==
  ASSUME NEW schema \in GoodSchema, NEW e \in Entries(schema)
  PROVE  /\ e \in Sample /\ e.anchor # "none" /\ HasValue(e)
         /\ Named(schema.fields, e.field) # {}
         /\ LET f == FieldOf(schema.fields, e.field)
            IN  f \in GoodField /\ Stored(f, Shown(f.type, e)) = Shortened(e)
<1>1. PICK s \in Kept(schema) : e = Stored(FieldOf(schema.fields, s.field), s) BY DEF Entries
<1>2. /\ s \in Sample /\ Named(schema.fields, s.field) # {} /\ s.anchor # "none"
      /\ HasValue(Stored(FieldOf(schema.fields, s.field), s))
  BY DEF Kept
<1>3. FieldOf(schema.fields, s.field) \in GoodField BY <1>2, FieldOfType DEF GoodSchema
<1>4. e \in Sample /\ e.field = s.field /\ e.anchor = s.anchor BY <1>1, <1>2, <1>3, StoredFields
<1>5. LET f == FieldOf(schema.fields, s.field) IN Stored(f, Shown(f.type, e)) = Shortened(e)
  BY <1>1, <1>2, <1>3, StoredTwice
<1> QED BY <1>1, <1>2, <1>3, <1>4, <1>5

LEMMA StoredSceneIs ==
  ASSUME NEW schema \in GoodSchema
  PROVE  StoredScene(schema) \in Seq(Entries(schema)) /\ StoredScene(schema) \in Seq(Sample)
<1> DEFINE T == {s \in Range(schema.scene) :
                  /\ Named(schema.fields, s.field) # {} /\ s.anchor # "none"
                  /\ HasValue(Stored(FieldOf(schema.fields, s.field), s))}
           kept == Selected(schema.scene, T)
           scene == [i \in DOMAIN kept |-> Stored(FieldOf(schema.fields, kept[i].field), kept[i])]
<1>1. schema.scene \in Seq(Sample) BY DEF GoodSchema
<1>2. StoredScene(schema) = scene BY DEF StoredScene
<1>3. Sample \cap T \subseteq Kept(schema) BY DEF Kept
<1> HIDE DEF T
<1>4. kept \in Seq(Sample \cap T) BY <1>1, SelectedType
<1> HIDE DEF kept
<1>5. Len(kept) \in Nat /\ DOMAIN kept = 1..Len(kept) BY <1>4
<1>6. \A i \in 1..Len(kept) : kept[i] \in Kept(schema) BY <1>3, <1>4
<1>7. \A i \in 1..Len(kept) : scene[i] \in Entries(schema) BY <1>5, <1>6 DEF Entries
<1>8. scene \in [1..Len(kept) -> Entries(schema)] BY <1>5, <1>7
<1>9. scene \in Seq(Entries(schema)) BY <1>5, <1>8
<1>10. Entries(schema) \subseteq Sample BY EntryIs
<1>11. Seq(Entries(schema)) \subseteq Seq(Sample) BY <1>10
<1> QED BY <1>2, <1>9, <1>11

LEMMA GoodSchemaIs ==
  ASSUME NEW s
  PROVE  s \in GoodSchema <=>
           /\ s = [id |-> s.id, name |-> s.name, fields |-> s.fields, scene |-> s.scene]
           /\ s.id \in Nat /\ s.name \in Label
           /\ s.fields \in Seq(GoodField) /\ s.scene \in Seq(Sample)
BY DEF GoodSchema

LEMMA NoneIsNoSchema == None \notin GoodSchema
<1>1. ASSUME None \in GoodSchema PROVE FALSE
  <2>1. GoodField \subseteq Field BY DEF GoodField
  <2>2. None.fields \in Seq(Field) BY <1>1, <2>1, GoodSchemaIs
  <2>3. None \in Schema BY <1>1, <2>2 DEF GoodSchema, Schema
  <2> QED BY <2>3, InitialAssumption
<1> QED BY <1>1

(* A class with a schema that has been converted. *)
LEMMA Converted ==
  ASSUME NEW c \in GoodClass, c.schema # None,
         NEW fields \in Seq(GoodField), NEW scene \in Seq(Sample)
  PROVE  LET d == [c EXCEPT !.schema.fields = fields, !.schema.scene = scene]
         IN  /\ d \in GoodClass /\ d.id = c.id /\ d.name = c.name
             /\ d.schema = [id |-> c.schema.id, name |-> c.schema.name, fields |-> fields, scene |-> scene]
             /\ d.schema \in GoodSchema /\ d.schema # None
<1> DEFINE schema == [id |-> c.schema.id, name |-> c.schema.name, fields |-> fields, scene |-> scene]
           d == [c EXCEPT !.schema.fields = fields, !.schema.scene = scene]
<1>1. c.schema \in GoodSchema /\ c.id \in Nat /\ c.name \in Label BY DEF GoodClass
<1>2. c = [id |-> c.id, name |-> c.name, schema |-> c.schema] BY DEF GoodClass
<1>3. /\ c.schema = [id |-> c.schema.id, name |-> c.schema.name,
                     fields |-> c.schema.fields, scene |-> c.schema.scene]
      /\ c.schema.id \in Nat /\ c.schema.name \in Label
  BY <1>1, GoodSchemaIs
<1>4. schema \in GoodSchema /\ schema # None BY <1>3, NoneIsNoSchema DEF GoodSchema
<1>5. [[c.schema EXCEPT !.fields = fields] EXCEPT !.scene = scene] = schema
  <2> DEFINE Rec(f, s) == [id |-> c.schema.id, name |-> c.schema.name, fields |-> f, scene |-> s]
  <2>1. [Rec(c.schema.fields, c.schema.scene) EXCEPT !.fields = fields] = Rec(fields, c.schema.scene)
    OBVIOUS
  <2>2. [Rec(fields, c.schema.scene) EXCEPT !.scene = scene] = Rec(fields, scene) OBVIOUS
  <2>3. c.schema = Rec(c.schema.fields, c.schema.scene) /\ schema = Rec(fields, scene) BY <1>3
  <2> HIDE DEF Rec, schema
  <2> QED BY <2>1, <2>2, <2>3
<1>6. d = [c EXCEPT !.schema = [[c.schema EXCEPT !.fields = fields] EXCEPT !.scene = scene]]
  BY <1>2
<1>7. d = [id |-> c.id, name |-> c.name, schema |-> schema] BY <1>2, <1>5, <1>6
<1> HIDE DEF schema, d
<1>8. d \in GoodClass /\ d.schema = schema /\ d.id = c.id /\ d.name = c.name
  BY <1>1, <1>4, <1>7 DEF GoodClass
<1> QED BY <1>4, <1>8 DEF d, schema

----------------------------------------------------------------------------
(* Classes. *)

LEMMA SerializedIs ==
  ASSUME NEW c \in GoodClass
  PROVE  /\ Serialized(c) \in GoodClass
         /\ Serialized(c).id = c.id /\ Serialized(c).name = c.name
         /\ c.schema = None => Serialized(c) = c
         /\ c.schema # None =>
              /\ Serialized(c).schema # None
              /\ Serialized(c).schema =
                   [id |-> c.schema.id, name |-> c.schema.name,
                    fields |-> [i \in DOMAIN c.schema.fields |-> StoredField(c.schema.fields[i])],
                    scene |-> StoredScene(c.schema)]
<1>1. CASE c.schema = None BY <1>1 DEF Serialized
<1>2. CASE c.schema # None
  <2> DEFINE fields == [i \in DOMAIN c.schema.fields |-> StoredField(c.schema.fields[i])]
  <2>1. c.schema \in GoodSchema BY <1>2 DEF GoodClass
  <2>2. c.schema.fields \in Seq(GoodField) BY <2>1 DEF GoodSchema
  <2>3. fields \in Seq(GoodField)
    <3>0. \A i \in 1..Len(c.schema.fields) : c.schema.fields[i] \in GoodField BY <2>2
    <3>1. \A i \in 1..Len(c.schema.fields) : StoredField(c.schema.fields[i]) \in GoodField
      BY <3>0, StoredFieldIs
    <3>2. DOMAIN c.schema.fields = 1..Len(c.schema.fields) /\ Len(c.schema.fields) \in Nat BY <2>2
    <3>3. fields \in [1..Len(c.schema.fields) -> GoodField] BY <3>1, <3>2
    <3> QED BY <3>2, <3>3
  <2>4. StoredScene(c.schema) \in Seq(Sample) BY <2>1, StoredSceneIs
  <2>5. Serialized(c) = [c EXCEPT !.schema.fields = fields, !.schema.scene = StoredScene(c.schema)]
    BY <1>2 DEF Serialized
  <2> HIDE DEF fields
  <2>6. LET d == [c EXCEPT !.schema.fields = fields, !.schema.scene = StoredScene(c.schema)]
        IN  /\ d \in GoodClass /\ d.id = c.id /\ d.name = c.name
            /\ d.schema = [id |-> c.schema.id, name |-> c.schema.name, fields |-> fields,
                           scene |-> StoredScene(c.schema)]
            /\ d.schema \in GoodSchema /\ d.schema # None
    BY <1>2, <2>3, <2>4, Converted
  <2> QED BY <1>2, <2>5, <2>6 DEF fields
<1> QED BY <1>1, <1>2

LEMMA DraftedIs ==
  ASSUME NEW c \in GoodClass
  PROVE  /\ Drafted(c) \in GoodClass
         /\ Drafted(c).id = c.id /\ Drafted(c).name = c.name
         /\ c.schema = None => Drafted(c) = c
         /\ c.schema # None =>
              /\ Drafted(c).schema # None
              /\ Drafted(c).schema =
                   [id |-> c.schema.id, name |-> c.schema.name,
                    fields |-> [i \in DOMAIN c.schema.fields |-> DraftedField(c.schema.fields[i])],
                    scene |-> [i \in DOMAIN c.schema.scene |->
                                Shown(TypeOf(c.schema.fields, c.schema.scene[i].field), c.schema.scene[i])]]
<1>1. CASE c.schema = None BY <1>1 DEF Drafted
<1>2. CASE c.schema # None
  <2> DEFINE fields == [i \in DOMAIN c.schema.fields |-> DraftedField(c.schema.fields[i])]
             scene == [i \in DOMAIN c.schema.scene |->
                        Shown(TypeOf(c.schema.fields, c.schema.scene[i].field), c.schema.scene[i])]
  <2>1. c.schema \in GoodSchema BY <1>2 DEF GoodClass
  <2>2. c.schema.fields \in Seq(GoodField) /\ c.schema.scene \in Seq(Sample) BY <2>1 DEF GoodSchema
  <2>3. fields \in Seq(GoodField)
    <3>0. \A i \in 1..Len(c.schema.fields) : c.schema.fields[i] \in GoodField BY <2>2
    <3>1. \A i \in 1..Len(c.schema.fields) : DraftedField(c.schema.fields[i]) \in GoodField
      BY <3>0, DraftedFieldIs
    <3>2. DOMAIN c.schema.fields = 1..Len(c.schema.fields) /\ Len(c.schema.fields) \in Nat BY <2>2
    <3>3. fields \in [1..Len(c.schema.fields) -> GoodField] BY <3>1, <3>2
    <3> QED BY <3>2, <3>3
  <2>4. scene \in Seq(Sample)
    <3>1. \A i \in 1..Len(c.schema.scene) : scene[i] \in Sample BY <2>2, ShownType
    <3>2. DOMAIN c.schema.scene = 1..Len(c.schema.scene) /\ Len(c.schema.scene) \in Nat BY <2>2
    <3>3. scene \in [1..Len(c.schema.scene) -> Sample] BY <3>1, <3>2
    <3> QED BY <3>2, <3>3
  <2>5. Drafted(c) = [c EXCEPT !.schema.fields = fields, !.schema.scene = scene]
    BY <1>2 DEF Drafted
  <2> HIDE DEF fields, scene
  <2>6. LET d == [c EXCEPT !.schema.fields = fields, !.schema.scene = scene]
        IN  /\ d \in GoodClass /\ d.id = c.id /\ d.name = c.name
            /\ d.schema = [id |-> c.schema.id, name |-> c.schema.name, fields |-> fields, scene |-> scene]
            /\ d.schema \in GoodSchema /\ d.schema # None
    BY <1>2, <2>3, <2>4, Converted
  <2> QED BY <1>2, <2>5, <2>6 DEF fields, scene
<1> QED BY <1>1, <1>2

LEMMA ShortenedClassIs ==
  ASSUME NEW c \in GoodClass
  PROVE  /\ ShortenedClass(c) \in GoodClass
         /\ ShortenedClass(c).id = c.id /\ ShortenedClass(c).name = c.name
         /\ c.schema = None => ShortenedClass(c) = c
         /\ c.schema # None =>
              ShortenedClass(c).schema =
                [id |-> c.schema.id, name |-> c.schema.name,
                 fields |-> [i \in DOMAIN c.schema.fields |-> ShortenedField(c.schema.fields[i])],
                 scene |-> AllShortened(c.schema.scene)]
<1>1. CASE c.schema = None BY <1>1 DEF ShortenedClass
<1>2. CASE c.schema # None
  <2> DEFINE fields == [i \in DOMAIN c.schema.fields |-> ShortenedField(c.schema.fields[i])]
             scene == AllShortened(c.schema.scene)
  <2>1. c.schema \in GoodSchema BY <1>2 DEF GoodClass
  <2>2. c.schema.fields \in Seq(GoodField) /\ c.schema.scene \in Seq(Sample) BY <2>1 DEF GoodSchema
  <2>3. fields \in Seq(GoodField)
    <3>0. \A i \in 1..Len(c.schema.fields) : c.schema.fields[i] \in GoodField BY <2>2
    <3>1. \A i \in 1..Len(c.schema.fields) : ShortenedField(c.schema.fields[i]) \in GoodField
      BY <3>0, ShortenedFieldType
    <3>2. DOMAIN c.schema.fields = 1..Len(c.schema.fields) /\ Len(c.schema.fields) \in Nat BY <2>2
    <3>3. fields \in [1..Len(c.schema.fields) -> GoodField] BY <3>1, <3>2
    <3> QED BY <3>2, <3>3
  <2>4. scene \in Seq(Sample) BY <2>2, AllShortenedType
  <2>5. ShortenedClass(c) = [c EXCEPT !.schema.fields = fields, !.schema.scene = scene]
    BY <1>2 DEF ShortenedClass
  <2> HIDE DEF fields, scene
  <2>6. LET d == [c EXCEPT !.schema.fields = fields, !.schema.scene = scene]
        IN  /\ d \in GoodClass /\ d.id = c.id /\ d.name = c.name
            /\ d.schema = [id |-> c.schema.id, name |-> c.schema.name, fields |-> fields, scene |-> scene]
            /\ d.schema \in GoodSchema /\ d.schema # None
    BY <1>2, <2>3, <2>4, Converted
  <2> QED BY <1>2, <2>5, <2>6 DEF fields, scene
<1> QED BY <1>1, <1>2

(* A class is read back as it is, but for the values that are shortened. *)
Stable(c) ==
  /\ Serialized(Drafted(c)) = ShortenedClass(c)
  /\ c.schema # None => \A e \in Range(c.schema.scene) : Named(c.schema.fields, e.field) # {}

LEMMA SameClass ==
  ASSUME NEW c \in GoodClass, NEW d \in GoodClass, d.id = c.id, d.name = c.name, d.schema = c.schema
  PROVE  d = c
BY DEF GoodClass

(* What is serialized of a class whose fields have different names is stable. *)
LEMMA SerializedStable ==
  ASSUME NEW c \in GoodClass, c.schema # None => ValidSchema(c.schema)
  PROVE  Stable(Serialized(c))
<1>1. CASE c.schema = None
  <2>1. Serialized(c) = c /\ Drafted(c) = c /\ ShortenedClass(c) = c
    BY <1>1, SerializedIs, DraftedIs, ShortenedClassIs
  <2> QED BY <1>1, <2>1 DEF Stable
<1>2. CASE c.schema # None
  <2> DEFINE F == c.schema.fields
             S == Serialized(c)
             F1 == [i \in DOMAIN F |-> StoredField(F[i])]
             scene == StoredScene(c.schema)
             D == Drafted(S)
             F2 == [i \in DOMAIN F1 |-> DraftedField(F1[i])]
             shown == [i \in DOMAIN scene |-> Shown(TypeOf(F1, scene[i].field), scene[i])]
             T == Serialized(D)
  <2>1. c.schema \in GoodSchema BY <1>2 DEF GoodClass
  <2>2. F \in Seq(GoodField) BY <2>1 DEF GoodSchema
  <2>3. \A i, j \in DOMAIN F : F[i].name = F[j].name => i = j
    <3>1. Distinct([i \in DOMAIN F |-> F[i].name]) BY <1>2 DEF ValidSchema
    <3> HIDE DEF F
    <3> QED BY <2>2, <3>1, DistinctNames
  <2>4. /\ S \in GoodClass /\ S.schema # None
        /\ S.schema = [id |-> c.schema.id, name |-> c.schema.name, fields |-> F1, scene |-> scene]
    BY <1>2, SerializedIs
  <2>5. scene \in Seq(Entries(c.schema)) BY <2>1, StoredSceneIs
  <2> HIDE DEF F, S, F1, scene
  <2>6. S.schema.fields = F1 /\ S.schema.scene = scene /\ F1 \in Seq(GoodField)
    <3>1. S.schema.fields = F1 /\ S.schema.scene = scene BY <2>4
    <3>2. S.schema \in GoodSchema BY <2>4 DEF GoodClass
    <3> QED BY <3>1, <3>2 DEF GoodSchema
  <2>7. /\ D \in GoodClass /\ D.schema # None /\ D.id = S.id /\ D.name = S.name
        /\ D.schema = [id |-> S.schema.id, name |-> S.schema.name, fields |-> F2, scene |-> shown]
    BY <2>4, <2>6, DraftedIs
  <2> HIDE DEF D, F2, shown
  <2>8. D.schema.fields = F2 /\ D.schema.scene = shown /\ F2 \in Seq(GoodField) /\ D.schema \in GoodSchema
    <3>1. D.schema.fields = F2 /\ D.schema.scene = shown BY <2>7
    <3>2. D.schema \in GoodSchema BY <2>7 DEF GoodClass
    <3> QED BY <3>1, <3>2 DEF GoodSchema
  <2>9. /\ T \in GoodClass /\ T.id = D.id /\ T.name = D.name
        /\ T.schema = [id |-> D.schema.id, name |-> D.schema.name,
                       fields |-> [i \in DOMAIN F2 |-> StoredField(F2[i])],
                       scene |-> StoredScene(D.schema)]
    BY <2>7, <2>8, SerializedIs
  <2> HIDE DEF T
  <2>10. DOMAIN F1 = DOMAIN F /\ DOMAIN F2 = DOMAIN F BY DEF F1, F2
  <2>11. \A i \in DOMAIN F : /\ F[i] \in GoodField /\ F1[i] \in GoodField
                             /\ F1[i] = StoredField(F[i]) /\ F2[i] = DraftedField(F1[i])
    BY <2>2, <2>6, <2>10 DEF F1, F2
  <2>12. \A i \in DOMAIN F : Shows(F[i], F1[i]) /\ Shows(F[i], F2[i])
    <3> TAKE i \in DOMAIN F
    <3>1. Shows(F[i], F1[i]) BY <2>11, StoredFieldIs
    <3>2. Shows(F1[i], F2[i]) BY <2>11, DraftedFieldIs
    <3> QED BY <3>1, <3>2 DEF Shows
  <2>13. [i \in DOMAIN F2 |-> StoredField(F2[i])] = [i \in DOMAIN F1 |-> ShortenedField(F1[i])]
    <3>1. \A i \in DOMAIN F : StoredField(F2[i]) = ShortenedField(F1[i]) BY <2>11, FieldStoredTwice
    <3> QED BY <2>10, <3>1
  <2>14. \A i \in DOMAIN scene :
           /\ Named(F1, scene[i].field) # {} /\ Named(F2, scene[i].field) # {}
           /\ shown[i] \in Sample /\ shown[i].field = scene[i].field /\ shown[i].anchor # "none"
           /\ Stored(FieldOf(F2, scene[i].field), shown[i]) = Shortened(scene[i])
           /\ scene[i] \in Sample /\ HasValue(scene[i])
    <3> SUFFICES ASSUME NEW i \in DOMAIN scene
                 PROVE  /\ Named(F1, scene[i].field) # {} /\ Named(F2, scene[i].field) # {}
                        /\ shown[i] \in Sample /\ shown[i].field = scene[i].field /\ shown[i].anchor # "none"
                        /\ Stored(FieldOf(F2, scene[i].field), shown[i]) = Shortened(scene[i])
                        /\ scene[i] \in Sample /\ HasValue(scene[i])
      OBVIOUS
    <3> DEFINE e == scene[i]
               f == FieldOf(F, e.field)
    <3>1. e \in Entries(c.schema) BY <2>5
    <3>2. /\ e \in Sample /\ e.anchor # "none" /\ HasValue(e) /\ Named(F, e.field) # {}
          /\ f \in GoodField /\ Stored(f, Shown(f.type, e)) = Shortened(e)
      BY <2>1, <3>1, EntryIs DEF F
    <3>3. /\ Named(F1, e.field) # {} /\ Shows(f, FieldOf(F1, e.field))
          /\ Named(F2, e.field) # {} /\ Shows(f, FieldOf(F2, e.field))
      <4> HIDE DEF e
      <4> QED BY <2>2, <2>3, <2>6, <2>8, <2>10, <2>12, <3>2, FieldAlike
    <3>4. TypeOf(F1, e.field) = f.type BY <3>3 DEF TypeOf, Shows
    <3>5. shown[i] = Shown(f.type, e) BY <3>4 DEF shown
    <3>6. shown[i] \in Sample /\ shown[i].field = e.field /\ shown[i].anchor # "none"
      BY <3>2, <3>5, ShownType
    <3>7. Stored(FieldOf(F2, e.field), shown[i]) = Shortened(e) BY <3>2, <3>3, <3>5, StoredAlike
    <3> QED BY <3>2, <3>3, <3>6, <3>7
  <2>15. StoredScene(D.schema) = AllShortened(scene)
    <3> DEFINE K == {s \in Range(shown) :
                      /\ Named(F2, s.field) # {} /\ s.anchor # "none"
                      /\ HasValue(Stored(FieldOf(F2, s.field), s))}
               kept == Selected(shown, K)
    <3>1. StoredScene(D.schema) = [i \in DOMAIN kept |-> Stored(FieldOf(F2, kept[i].field), kept[i])]
      BY <2>8 DEF StoredScene
    <3>2. DOMAIN shown = DOMAIN scene BY DEF shown
    <3>3. \A i \in DOMAIN shown : shown[i] \in K
      <4>1. \A i \in DOMAIN scene : HasValue(Shortened(scene[i])) BY <2>14, ShortenedIs
      <4> QED BY <2>14, <3>2, <4>1 DEF Range
    <3>4. shown \in Seq(Sample) BY <2>8, GoodSchemaIs
    <3> HIDE DEF K
    <3>5. kept = shown BY <3>3, <3>4, SelectedAll
    <3> HIDE DEF kept
    <3>6. StoredScene(D.schema) = [i \in DOMAIN scene |-> Shortened(scene[i])]
      BY <2>14, <3>1, <3>2, <3>5
    <3> QED BY <3>6 DEF AllShortened
  <2>16. /\ ShortenedClass(S) \in GoodClass
         /\ ShortenedClass(S).id = S.id /\ ShortenedClass(S).name = S.name
         /\ ShortenedClass(S).schema = T.schema
    BY <2>4, <2>6, <2>7, <2>9, <2>13, <2>15, ShortenedClassIs
  <2>17. T = ShortenedClass(S) BY <2>7, <2>9, <2>16, SameClass
  <2>18. \A e \in Range(scene) : Named(F1, e.field) # {} BY <2>14 DEF Range
  <2> QED BY <2>6, <2>17, <2>18 DEF Stable, S, D, T
<1> QED BY <1>1, <1>2

----------------------------------------------------------------------------
(* Edits. *)

LEMMA BlankIsLabel == Blank \in Label /\ Name \subseteq Label
BY DEF Label

LEMMA EmptyFieldType == EmptyField \in GoodField
<1>1. <<>> \in Seq(Label) /\ <<>> \in Seq(Sample) OBVIOUS
<1> QED BY <1>1, BlankIsLabel DEF EmptyField, GoodField, Field

LEMMA EmptySampleType ==
  ASSUME NEW field \in Label
  PROVE  EmptySample(field) \in Sample
<1>1. "" \in Typed BY DEF Typed
<1> HIDE DEF NoValues
<1> QED BY <1>1, NoValuesType DEF EmptySample, Sample, Children

LEMMA RetypedType ==
  ASSUME NEW field \in GoodField, NEW sample \in Sample, NEW s \in Retyped(field, sample)
  PROVE  s \in Sample
<1>0. {"raw", "digits"} \subseteq Typed BY DEF Typed
<1>1. CASE \E anchor \in {"in", "out"} : s = [sample EXCEPT !.anchor = anchor] BY <1>1 DEF Sample
<1>2. CASE \E text \in {"raw", "digits"} : s = [sample EXCEPT !.value = text] BY <1>0, <1>2 DEF Sample
<1>3. CASE \E c \in Range(field.children), text \in {"raw", "digits"} :
             s = [sample EXCEPT !.child = [label \in DOMAIN @ \cup {c} |-> IF label = c THEN text ELSE @[label]]]
  <2>1. PICK c \in Range(field.children), text \in {"raw", "digits"} :
          s = [sample EXCEPT !.child = [label \in DOMAIN sample.child \cup {c} |->
                                          IF label = c THEN text ELSE sample.child[label]]]
    BY <1>3
  <2> DEFINE child == [label \in DOMAIN sample.child \cup {c} |->
                         IF label = c THEN text ELSE sample.child[label]]
  <2>2. c \in Label
    <3>1. field.children \in Seq(Label) BY GoodFieldIs
    <3> QED BY <3>1 DEF Range
  <2>3. DOMAIN sample.child \subseteq Label /\ sample.child \in [DOMAIN sample.child -> Typed]
    <3>1. sample.child \in Children BY DEF Sample, Children
    <3> QED BY <3>1, ChildrenAre
  <2>4. child \in Children BY <1>0, <2>2, <2>3, ChildrenAre
  <2> HIDE DEF child
  <2>5. s = [sample EXCEPT !.child = child] BY <2>1 DEF child
  <2> QED BY <2>4, <2>5 DEF Sample, Children
<1> QED BY <1>1, <1>2, <1>3 DEF Retyped

LEMMA FieldsEdited ==
  ASSUME NEW schema \in GoodSchema, NEW fields \in Seq(GoodField)
  PROVE  [schema EXCEPT !.fields = fields] \in GoodSchema
BY DEF GoodSchema

LEMMA SceneEdited ==
  ASSUME NEW schema \in GoodSchema, NEW scene \in Seq(Sample)
  PROVE  [schema EXCEPT !.scene = scene] \in GoodSchema
BY DEF GoodSchema

LEMMA RemovedType ==
  ASSUME NEW S, NEW s \in Seq(S), NEW i \in DOMAIN s
  PROVE  RemoveAt(s, i) \in Seq(S)
<1>1. i \in 1..Len(s) /\ Len(s) \in Nat OBVIOUS
<1>2. SubSeq(s, 1, i - 1) \in Seq(S) /\ SubSeq(s, i + 1, Len(s)) \in Seq(S) BY <1>1
<1> QED BY <1>2 DEF RemoveAt

LEMMA FieldEdited ==
  ASSUME NEW schema \in GoodSchema, NEW i \in DOMAIN schema.fields, NEW field \in GoodField,
         EditsField(schema, i, field)
  PROVE  \E s \in GoodSchema : EditsSchema(s)
<1> DEFINE fields == [schema.fields EXCEPT ![i] = field]
<1>1. schema.fields \in Seq(GoodField) BY DEF GoodSchema
<1>2. fields \in Seq(GoodField) BY <1>1
<1>3. EditsSchema([schema EXCEPT !.fields = fields]) BY DEF EditsField
<1> HIDE DEF fields
<1> QED BY <1>2, <1>3, FieldsEdited

LEMMA EditSchemaTyped ==
  ASSUME NEW schema \in GoodSchema, EditSchema(schema)
  PROVE  \E s \in GoodSchema : EditsSchema(s)
<1>0. schema.fields \in Seq(GoodField) /\ schema.scene \in Seq(Sample) BY DEF GoodSchema
<1>1. ASSUME NEW name \in Name, RenameSchema(schema, name) PROVE \E s \in GoodSchema : EditsSchema(s)
  <2>1. [schema EXCEPT !.name = name] \in GoodSchema BY BlankIsLabel DEF GoodSchema
  <2> QED BY <1>1, <2>1 DEF RenameSchema
<1>2. ASSUME AddField(schema) PROVE \E s \in GoodSchema : EditsSchema(s)
  <2>1. Append(schema.fields, EmptyField) \in Seq(GoodField) BY <1>0, EmptyFieldType
  <2>2. EditsSchema([schema EXCEPT !.fields = Append(schema.fields, EmptyField)])
    BY <1>2 DEF AddField
  <2> QED BY <2>1, <2>2, FieldsEdited
<1>3. ASSUME NEW scene \in Seq(Sample), EditsScene(schema, scene) PROVE \E s \in GoodSchema : EditsSchema(s)
  BY <1>3, SceneEdited DEF EditsScene
<1>4. ASSUME AddExtraction(schema) PROVE \E s \in GoodSchema : EditsSchema(s)
  <2> DEFINE field == IF schema.fields = <<>> THEN Blank ELSE schema.fields[1].name
  <2>1. field \in Label
    <3>1. CASE schema.fields = <<>> BY <3>1, BlankIsLabel
    <3>2. CASE schema.fields # <<>>
      <4>1. 1 \in DOMAIN schema.fields BY <1>0, <3>2
      <4>2. schema.fields[1] \in GoodField BY <1>0, <4>1
      <4> QED BY <3>2, <4>2, GoodFieldIs
    <3> QED BY <3>1, <3>2
  <2>2. EditsScene(schema, <<EmptySample(field)>>) BY <1>4 DEF AddExtraction
  <2> HIDE DEF field
  <2>3. EmptySample(field) \in Sample BY <2>1, EmptySampleType
  <2>4. <<EmptySample(field)>> \in Seq(Sample) BY <2>3
  <2> QED BY <1>3, <2>2, <2>4
<1>5. ASSUME RemoveExtraction(schema) PROVE \E s \in GoodSchema : EditsSchema(s)
  <2>1. <<>> \in Seq(Sample) OBVIOUS
  <2> QED BY <1>3, <1>5, <2>1 DEF RemoveExtraction
<1>6. schema.scene # <<>> => schema.scene[1] \in Sample
  <2>1. schema.scene # <<>> => 1 \in DOMAIN schema.scene BY <1>0
  <2> QED BY <1>0, <2>1
<1>7. ASSUME PickField(schema) PROVE \E s \in GoodSchema : EditsSchema(s)
  <2>1. PICK f \in Range(schema.fields) :
          EditsScene(schema, <<[schema.scene[1] EXCEPT !.field = f.name, !.value = "", !.child = NoValues]>>)
    BY <1>7 DEF PickField
  <2> DEFINE sample == [schema.scene[1] EXCEPT !.field = f.name, !.value = "", !.child = NoValues]
  <2>2. f.name \in Label
    <3>1. f \in GoodField BY <1>0 DEF Range
    <3> QED BY <3>1, GoodFieldIs
  <2>3. schema.scene[1] \in Sample BY <1>6, <1>7 DEF PickField
  <2>4. sample \in Sample
    <3>1. "" \in Typed BY DEF Typed
    <3> HIDE DEF NoValues
    <3> QED BY <2>2, <2>3, <3>1, NoValuesType DEF Sample, Children
  <2> HIDE DEF sample
  <2>5. <<sample>> \in Seq(Sample) BY <2>4
  <2>6. EditsScene(schema, <<sample>>) BY <2>1 DEF sample
  <2> QED BY <1>3, <2>5, <2>6
<1>8. ASSUME EditExtraction(schema) PROVE \E s \in GoodSchema : EditsSchema(s)
  <2> DEFINE sample == schema.scene[1]
             plain == [EmptyField EXCEPT !.type = "object_list"]
             named == Named(schema.fields, sample.field)
  <2>1. PICK f \in IF named = {} THEN {plain} ELSE named :
          \E s \in Retyped(f, sample) : EditsScene(schema, <<s>>)
    BY <1>8 DEF EditExtraction
  <2>2. PICK s \in Retyped(f, sample) : EditsScene(schema, <<s>>) BY <2>1
  <2>3. sample \in Sample BY <1>6, <1>8 DEF EditExtraction
  <2>4. f \in GoodField
    <3>1. plain \in GoodField BY EmptyFieldType DEF GoodField, Field
    <3>2. named \subseteq GoodField BY <1>0 DEF Named, Range
    <3> QED BY <3>1, <3>2
  <2> HIDE DEF sample
  <2>5. s \in Sample BY <2>3, <2>4, RetypedType
  <2>6. <<s>> \in Seq(Sample) BY <2>5
  <2> QED BY <1>3, <2>2, <2>6
<1>9. ASSUME NEW i \in DOMAIN schema.fields PROVE schema.fields[i] \in GoodField BY <1>0
<1>10. ASSUME NEW i \in DOMAIN schema.fields, RemoveField(schema, i)
       PROVE  \E s \in GoodSchema : EditsSchema(s)
  <2>1. EditsSchema([schema EXCEPT !.fields = RemoveAt(schema.fields, i)]) BY <1>10 DEF RemoveField
  <2>2. RemoveAt(schema.fields, i) \in Seq(GoodField) BY <1>0, RemovedType
  <2> QED BY <2>1, <2>2, FieldsEdited
<1>11. ASSUME NEW i \in DOMAIN schema.fields, NEW name \in Name, RenameField(schema, i, name)
       PROVE  \E s \in GoodSchema : EditsSchema(s)
  <2>1. [schema.fields[i] EXCEPT !.name = name] \in GoodField
    BY <1>9, BlankIsLabel DEF GoodField, Field
  <2> QED BY <1>11, <2>1, FieldEdited DEF RenameField
<1>12. ASSUME NEW i \in DOMAIN schema.fields, NEW type \in {"plain", "object_list"}, SetType(schema, i, type)
       PROVE  \E s \in GoodSchema : EditsSchema(s)
  <2> DEFINE children == IF type = "object_list" THEN <<Blank>> ELSE <<>>
             f == [schema.fields[i] EXCEPT !.type = type, !.children = children]
  <2>1. children \in Seq(Label) BY BlankIsLabel
  <2>2. type = "plain" => children = <<>> OBVIOUS
  <2>3. EditsField(schema, i, f) BY <1>12 DEF SetType
  <2> HIDE DEF children
  <2>4. f \in GoodField BY <1>9, <2>1, <2>2 DEF GoodField, Field
  <2> QED BY <2>3, <2>4, FieldEdited
<1>13. ASSUME NEW i \in DOMAIN schema.fields, NEW children \in Seq(Label), SetChildren(schema, i, children)
       PROVE  \E s \in GoodSchema : EditsSchema(s)
  <2>1. [schema.fields[i] EXCEPT !.children = children] \in GoodField
    BY <1>9, <1>13 DEF SetChildren, GoodField, Field
  <2> QED BY <1>13, <2>1, FieldEdited DEF SetChildren
<1>14. ASSUME NEW i \in DOMAIN schema.fields, NEW samples \in Seq(Sample), SetExample(schema, i, samples)
       PROVE  \E s \in GoodSchema : EditsSchema(s)
  <2>1. [schema.fields[i] EXCEPT !.examples = samples] \in GoodField BY <1>9 DEF GoodField, Field
  <2> QED BY <1>14, <2>1, FieldEdited DEF SetExample
<1>15. ASSUME NEW i \in DOMAIN schema.fields, EditExample(schema, i)
       PROVE  \E s \in GoodSchema : EditsSchema(s)
  <2> DEFINE field == schema.fields[i]
  <2>1. field \in GoodField /\ field.examples \in Seq(Sample) BY <1>9, GoodFieldIs
  <2>2. CASE SetExample(schema, i, <<EmptySample(Blank)>>)
    <3>1. EmptySample(Blank) \in Sample BY BlankIsLabel, EmptySampleType
    <3>2. <<EmptySample(Blank)>> \in Seq(Sample) BY <3>1
    <3> QED BY <1>14, <2>2, <3>2
  <2>3. CASE SetExample(schema, i, <<>>)
    <3>1. <<>> \in Seq(Sample) OBVIOUS
    <3> QED BY <1>14, <2>3, <3>1
  <2>4. CASE field.examples # <<>> /\ \E s \in Retyped(field, field.examples[1]) : SetExample(schema, i, <<s>>)
    <3>1. PICK s \in Retyped(field, field.examples[1]) : SetExample(schema, i, <<s>>) BY <2>4
    <3>2. field.examples[1] \in Sample
      <4>1. 1 \in DOMAIN field.examples BY <2>1, <2>4
      <4> QED BY <2>1, <4>1
    <3> HIDE DEF field
    <3>3. s \in Sample BY <2>1, <3>1, <3>2, RetypedType
    <3>4. <<s>> \in Seq(Sample) BY <3>3
    <3> QED BY <1>14, <3>1, <3>4
  <2> QED BY <1>15, <2>2, <2>3, <2>4 DEF EditExample
<1>16. \A children \in {<<>>, <<Blank>>} \cup {<<name>> : name \in Name} : children \in Seq(Label)
  <2>1. \A name \in Label : <<name>> \in Seq(Label) OBVIOUS
  <2>2. <<>> \in Seq(Label) OBVIOUS
  <2>3. ASSUME NEW children \in {<<>>, <<Blank>>} \cup {<<name>> : name \in Name}
        PROVE  children = <<>> \/ \E name \in Label : children = <<name>>
    BY BlankIsLabel
  <2> QED BY <2>1, <2>2, <2>3
<1> QED BY <1>1, <1>2, <1>4, <1>5, <1>7, <1>8, <1>10, <1>11, <1>12, <1>13, <1>15, <1>16 DEF EditSchema

LEMMA EditTyped ==
  ASSUME editor # None, editor.draft \in GoodClass, fresh \in Nat, Edit
  PROVE  fresh' \in Nat /\ \E d \in GoodClass : Edits(d)
<1>0. \A schema \in GoodSchema \cup {None} : [editor.draft EXCEPT !.schema = schema] \in GoodClass
  BY DEF GoodClass
<1>1. ASSUME NEW name \in Name, RenameClass(name) PROVE fresh' \in Nat /\ \E d \in GoodClass : Edits(d)
  <2>1. [editor.draft EXCEPT !.name = name] \in GoodClass BY BlankIsLabel DEF GoodClass
  <2> QED BY <1>1, <2>1 DEF RenameClass
<1>2. ASSUME SwitchExtraction PROVE fresh' \in Nat /\ \E d \in GoodClass : Edits(d)
  <2> DEFINE schema == IF editor.draft.schema = None THEN EmptySchema(fresh + 1, editor.draft.name) ELSE None
  <2>1. EmptySchema(fresh + 1, editor.draft.name) \in GoodSchema
    <3>1. editor.draft.name \in Label BY DEF GoodClass
    <3>2. <<EmptyField>> \in Seq(GoodField) /\ <<>> \in Seq(Sample) BY EmptyFieldType
    <3> HIDE DEF EmptyField
    <3> QED BY <3>1, <3>2 DEF EmptySchema, GoodSchema
  <2>2. schema \in GoodSchema \cup {None} BY <2>1
  <2>3. Edits([editor.draft EXCEPT !.schema = schema]) /\ fresh' = fresh + 1
    BY <1>2 DEF SwitchExtraction
  <2> HIDE DEF schema
  <2> QED BY <1>0, <2>2, <2>3
<1>3. ASSUME editor.draft.schema # None, EditSchema(editor.draft.schema)
      PROVE  fresh' \in Nat /\ \E d \in GoodClass : Edits(d)
  <2>1. editor.draft.schema \in GoodSchema BY <1>3 DEF GoodClass
  <2>2. PICK s \in GoodSchema : EditsSchema(s) BY <1>3, <2>1, EditSchemaTyped
  <2> QED BY <1>0, <2>2 DEF EditsSchema
<1> QED BY <1>1, <1>2, <1>3 DEF Edit

----------------------------------------------------------------------------
(* The rows of the backend. *)

(* A class that has been validated. *)
ProperClass ==
  {c \in GoodClass : c.name \in Name /\ (c.schema # None => c.schema.name \in Name)}

TitleRow == [name : Name]
OwnedRow == [name : Name, owner : Nat, fields : Seq(GoodField), scene : Seq(Sample)]

IsTable(table, Row) == DOMAIN table \subseteq Nat /\ \A id \in DOMAIN table : table[id] \in Row

UniqueNames(table) ==
  \A a, b \in DOMAIN table : table[a].name = table[b].name => a = b

LEMMA NamedIsProper ==
  ASSUME NEW c \in GoodClass, c.name # Blank, c.schema # None => c.schema.name # Blank
  PROVE  c \in ProperClass
<1>1. c.name \in Name BY DEF GoodClass, Label
<1>2. ASSUME c.schema # None PROVE c.schema.name \in Name
  <2>1. c.schema \in GoodSchema BY <1>2 DEF GoodClass
  <2> QED BY <1>2, <2>1 DEF GoodSchema, Label
<1> QED BY <1>1, <1>2 DEF ProperClass

LEMMA RowsTyped ==
  ASSUME NEW classes \in SUBSET ProperClass
  PROVE  IsTable(Rows(classes).class, TitleRow) /\ IsTable(Rows(classes).schema, OwnedRow)
<1> DEFINE with == {c \in classes : c.schema # None}
           Owner(id) == CHOOSE c \in with : c.schema.id = id
           Titled(id) == CHOOSE c \in classes : c.id = id
           titles == [id \in {c.id : c \in classes} |-> [name |-> Titled(id).name]]
           schemas == [id \in {c.schema.id : c \in with} |-> SchemaRow(Owner(id))]
<1>1. Rows(classes) = [class |-> titles, schema |-> schemas] BY DEF Rows
<1>2. \A c \in classes : c \in GoodClass /\ c.id \in Nat /\ c.name \in Name
  BY DEF ProperClass, GoodClass
<1>3. \A c \in with : /\ c \in classes /\ c.schema \in GoodSchema /\ c.schema.name \in Name
                      /\ c.schema.id \in Nat
  BY <1>2 DEF ProperClass, GoodClass, GoodSchema
<1>4. IsTable(titles, TitleRow)
  <2>1. DOMAIN titles \subseteq Nat BY <1>2
  <2>2. ASSUME NEW id \in DOMAIN titles PROVE titles[id] \in TitleRow
    <3>1. Titled(id) \in classes
      <4>1. \E c \in classes : c.id = id OBVIOUS
      <4> QED BY <4>1
    <3>2. titles[id] = [name |-> Titled(id).name] OBVIOUS
    <3> HIDE DEF Titled
    <3> QED BY <1>2, <3>1, <3>2 DEF TitleRow
  <2> QED BY <2>1, <2>2 DEF IsTable
<1>5. IsTable(schemas, OwnedRow)
  <2>1. DOMAIN schemas \subseteq Nat BY <1>3
  <2>2. ASSUME NEW id \in DOMAIN schemas PROVE schemas[id] \in OwnedRow
    <3>1. Owner(id) \in with
      <4>1. \E c \in with : c.schema.id = id OBVIOUS
      <4> HIDE DEF with
      <4> QED BY <4>1
    <3>2. schemas[id] = SchemaRow(Owner(id)) OBVIOUS
    <3> HIDE DEF Owner, with
    <3> QED BY <1>2, <1>3, <3>1, <3>2 DEF OwnedRow, SchemaRow, GoodSchema
  <2> QED BY <2>1, <2>2 DEF IsTable
<1> HIDE DEF titles, schemas
<1> QED BY <1>1, <1>4, <1>5

(* A row of which another transaction has written some columns. *)
LEMMA MergedRow ==
  ASSUME NEW Row, Row = TitleRow \/ Row = OwnedRow, NEW now \in Row, NEW new \in Row, NEW C
  PROVE  [column \in DOMAIN now |-> IF column \in C THEN new[column] ELSE now[column]] \in Row
<1> DEFINE m == [column \in DOMAIN now |-> IF column \in C THEN new[column] ELSE now[column]]
<1>1. CASE Row = TitleRow
  <2>1. DOMAIN now = {"name"} BY <1>1 DEF TitleRow
  <2>2. m = [name |-> m.name] BY <2>1
  <2>3. m.name \in Name BY <1>1, <2>1 DEF TitleRow
  <2> HIDE DEF m
  <2>4. m \in Row BY <1>1, <2>2, <2>3 DEF TitleRow
  <2> QED BY <2>4 DEF m
<1>2. CASE Row = OwnedRow
  <2>1. DOMAIN now = {"name", "owner", "fields", "scene"} BY <1>2 DEF OwnedRow
  <2>2. m.name \in Name /\ m.owner \in Nat /\ m.fields \in Seq(GoodField) /\ m.scene \in Seq(Sample)
    BY <1>2, <2>1 DEF OwnedRow
  <2>3. m = [name |-> m.name, owner |-> m.owner, fields |-> m.fields, scene |-> m.scene]
    <3>1. DOMAIN m = {"name", "owner", "fields", "scene"} BY <2>1
    <3>2. m = [column \in DOMAIN m |-> m[column]] OBVIOUS
    <3> HIDE DEF m
    <3> QED BY <3>1, <3>2
  <2> HIDE DEF m
  <2>4. m \in Row BY <1>2, <2>2, <2>3 DEF OwnedRow
  <2> QED BY <2>4 DEF m
<1> QED BY <1>1, <1>2

LEMMA WrittenTyped ==
  ASSUME NEW Row, Row = TitleRow \/ Row = OwnedRow, NEW now, NEW new, NEW seen,
         IsTable(now, Row), IsTable(new, Row)
  PROVE  IsTable(Written(now, seen, new), Row) /\ IsTable(Flushed(now, seen, new), Row)
<1> DEFINE W == Written(now, seen, new)
           Merged(id) == [column \in DOMAIN now[id] |->
                            IF new[id][column] # seen[id][column] THEN new[id][column] ELSE now[id][column]]
<1>1. /\ DOMAIN W = DOMAIN now \cup (DOMAIN new \ DOMAIN seen)
      /\ \A id \in DOMAIN W :
           W[id] = IF id \in DOMAIN new \ DOMAIN seen THEN new[id]
                   ELSE IF id \notin DOMAIN new \cap DOMAIN seen THEN now[id] ELSE Merged(id)
  BY DEF Written
<1>2. ASSUME NEW id \in DOMAIN now \cap DOMAIN new PROVE Merged(id) \in Row
  <2> DEFINE C == {column \in DOMAIN now[id] : new[id][column] # seen[id][column]}
  <2>1. now[id] \in Row /\ new[id] \in Row BY DEF IsTable
  <2>2. Merged(id) = [column \in DOMAIN now[id] |-> IF column \in C THEN new[id][column] ELSE now[id][column]]
    OBVIOUS
  <2> HIDE DEF C, Merged
  <2> QED BY <2>1, <2>2, MergedRow
<1> HIDE DEF W, Merged
<1>3. \A id \in DOMAIN W : W[id] \in Row BY <1>1, <1>2 DEF IsTable
<1>4. DOMAIN W \subseteq Nat BY <1>1 DEF IsTable
<1>5. /\ DOMAIN Flushed(now, seen, new) \subseteq DOMAIN W
      /\ \A id \in DOMAIN Flushed(now, seen, new) : Flushed(now, seen, new)[id] = W[id]
  BY DEF Flushed, W
<1> QED BY <1>3, <1>4, <1>5 DEF IsTable, W

LEMMA FlushedUnique ==
  ASSUME NEW now, NEW new, NEW seen, ~Refused(now, seen, new)
  PROVE  UniqueNames(Flushed(now, seen, new))
<1>1. UniqueNames(Written(now, seen, new)) BY DEF Refused, UniqueNames
<1>2. /\ DOMAIN Flushed(now, seen, new) \subseteq DOMAIN Written(now, seen, new)
      /\ \A id \in DOMAIN Flushed(now, seen, new) :
           Flushed(now, seen, new)[id] = Written(now, seen, new)[id]
  BY DEF Flushed
<1> QED BY <1>1, <1>2 DEF UniqueNames

LEMMA PlaceIs ==
  ASSUME NEW row, row.name \in Name
  PROVE  Place(row) \in 1..Len(Names) /\ Len(Names) \in Nat /\ Names[Place(row)] = row.name
<1>1. DOMAIN Names = 1..Len(Names) /\ Len(Names) \in Nat BY ConstantsAssumption
<1>2. \E i \in DOMAIN Names : Names[i] = row.name BY DEF Name, Range
<1> QED BY <1>1, <1>2 DEF Place

(* Rows of different names are ranked 0, 1, ... by their names. *)
LEMMA Ranks ==
  ASSUME NEW table, IsTable(table, TitleRow), UniqueNames(table), IsFiniteSet(DOMAIN table)
  PROVE  \A i \in 1..Cardinality(DOMAIN table) :
           \E id \in DOMAIN table : Cardinality(Before(table, id)) = i - 1
<1> DEFINE D == DOMAIN table
           n == Cardinality(D)
           rank == [id \in D |-> Cardinality(Before(table, id))]
<1>1. n \in Nat BY FS_CardinalityType
<1>2. \A id \in D : /\ table[id].name \in Name /\ Place(table[id]) \in Nat
                    /\ Names[Place(table[id])] = table[id].name
  <2> TAKE id \in D
  <2>1. table[id].name \in Name BY DEF IsTable, TitleRow
  <2> QED BY <2>1, PlaceIs
<1> HIDE DEF D, n
<1>3. \A id \in D : /\ Before(table, id) \in SUBSET (D \ {id})
                    /\ IsFiniteSet(Before(table, id)) /\ Cardinality(Before(table, id)) \in 0..(n - 1)
  <2> TAKE id \in D
  <2>1. Before(table, id) \in SUBSET (D \ {id}) BY <1>2 DEF Before, D
  <2>2. IsFiniteSet(D \ {id}) /\ Cardinality(D \ {id}) = n - 1 BY FS_RemoveElement DEF D, n
  <2>3. IsFiniteSet(Before(table, id)) /\ Cardinality(Before(table, id)) <= n - 1
    BY <2>1, <2>2, FS_Subset
  <2>4. Cardinality(Before(table, id)) \in Nat BY <2>3, FS_CardinalityType
  <2> QED BY <1>1, <2>1, <2>3, <2>4
<1>4. ASSUME NEW a \in D, NEW b \in D, Place(table[a]) < Place(table[b])
      PROVE  Cardinality(Before(table, a)) < Cardinality(Before(table, b))
  <2>1. Before(table, a) \cup {a} \subseteq Before(table, b) BY <1>2, <1>4 DEF Before, D
  <2>2. a \notin Before(table, a) BY <1>3
  <2>3. Cardinality(Before(table, a) \cup {a}) = Cardinality(Before(table, a)) + 1
    BY <1>3, <2>2, FS_AddElement
  <2>4. Cardinality(Before(table, a) \cup {a}) <= Cardinality(Before(table, b))
    BY <1>3, <2>1, FS_Subset
  <2> QED BY <1>3, <2>3, <2>4
<1>5. ASSUME NEW a \in D, NEW b \in D, rank[a] = rank[b] PROVE a = b
  <2>1. rank[a] = Cardinality(Before(table, a)) /\ rank[b] = Cardinality(Before(table, b)) OBVIOUS
  <2>2. Place(table[a]) = Place(table[b]) BY <1>2, <1>3, <1>4, <1>5, <2>1
  <2>3. table[a].name = table[b].name BY <1>2, <2>2
  <2> QED BY <2>3 DEF UniqueNames, D
<1>6. rank \in Injection(D, 0..(n - 1))
  <2>1. rank \in [D -> 0..(n - 1)] BY <1>3
  <2>2. IsInjective(rank)
    <3>1. DOMAIN rank = D OBVIOUS
    <3> HIDE DEF rank
    <3> QED BY <1>5, <3>1 DEF IsInjective
  <2> QED BY <2>1, <2>2 DEF Injection
<1>7. IsFiniteSet(0..(n - 1)) /\ Cardinality(0..(n - 1)) = n BY <1>1, FS_Interval
<1>8. rank \in Surjection(D, 0..(n - 1))
  <2>1. Cardinality(D) = n BY DEF n
  <2> HIDE DEF rank
  <2> QED BY <1>6, <1>7, <2>1, FS_Injection
<1>9. \A k \in 0..(n - 1) : \E id \in D : rank[id] = k
  <2> HIDE DEF rank
  <2> QED BY <1>8 DEF Surjection
<1>10. \A k \in 0..(n - 1) : \E id \in D : Cardinality(Before(table, id)) = k BY <1>9
<1>11. \A i \in 1..n : i - 1 \in 0..(n - 1) BY <1>1
<1> HIDE DEF rank
<1> QED BY <1>10, <1>11 DEF D, n

LEMMA OrderedIs ==
  ASSUME NEW table, IsTable(table, TitleRow), UniqueNames(table), IsFiniteSet(DOMAIN table)
  PROVE  /\ DOMAIN Ordered(table) = 1..Cardinality(DOMAIN table) /\ Cardinality(DOMAIN table) \in Nat
         /\ \A i \in DOMAIN Ordered(table) : Ordered(table)[i] \in DOMAIN table
<1>1. Cardinality(DOMAIN table) \in Nat BY FS_CardinalityType
<1>2. DOMAIN Ordered(table) = 1..Cardinality(DOMAIN table) BY DEF Ordered
<1>3. ASSUME NEW i \in 1..Cardinality(DOMAIN table) PROVE Ordered(table)[i] \in DOMAIN table
  <2>1. \E id \in DOMAIN table : Cardinality(Before(table, id)) = i - 1 BY Ranks
  <2>2. Ordered(table)[i] = CHOOSE id \in DOMAIN table : Cardinality(Before(table, id)) = i - 1
    BY DEF Ordered
  <2> QED BY <2>1, <2>2
<1> QED BY <1>1, <1>2, <1>3

LEMMA SchemaOfIs ==
  ASSUME NEW table, IsTable(table, OwnedRow), NEW class
  PROVE  SchemaOf(table, class) = None
         \/ (SchemaOf(table, class) \in GoodSchema /\ SchemaOf(table, class).name \in Name)
<1> DEFINE own == {id \in DOMAIN table : table[id].owner = class}
           Late(id) == \A o \in own : Place(table[o]) <= Place(table[id])
           last == CHOOSE id \in own : Late(id)
<1>0. SchemaOf(table, class) = IF own = {} THEN None
                               ELSE [id |-> last, name |-> table[last].name,
                                     fields |-> table[last].fields, scene |-> table[last].scene]
  BY DEF SchemaOf
<1>1. CASE own = {}
  <2> HIDE DEF own, last
  <2> QED BY <1>0, <1>1
<1>2. CASE own # {}
  <2> DEFINE places == {Place(table[o]) : o \in own}
  <2>1. \A o \in own : Place(table[o]) \in 1..Len(Names) /\ Len(Names) \in Nat
    <3>1. \A o \in own : table[o].name \in Name BY DEF IsTable, OwnedRow
    <3> QED BY <3>1, PlaceIs
  <2>2. Len(Names) \in Nat BY ConstantsAssumption
  <2>3. places \in SUBSET (0..Len(Names)) /\ places # {} BY <1>2, <2>1
  <2>4. PICK p \in places : \A q \in places : q <= p
    <3> HIDE DEF places
    <3> QED BY <2>2, <2>3, GreatestNumber
  <2>5. PICK id \in own : p = Place(table[id]) BY <2>4
  <2>6. Late(id) BY <2>4, <2>5
  <2>7. last \in own
    <3> HIDE DEF Late, own
    <3> QED BY <2>6
  <2>8. SchemaOf(table, class) = [id |-> last, name |-> table[last].name,
                                  fields |-> table[last].fields, scene |-> table[last].scene]
    <3> HIDE DEF own, last
    <3> QED BY <1>0, <1>2
  <2>9. last \in Nat /\ table[last] \in OwnedRow BY <2>7 DEF IsTable
  <2>10. Name \subseteq Label BY DEF Label
  <2> HIDE DEF last
  <2> QED BY <2>8, <2>9, <2>10 DEF OwnedRow, GoodSchema
<1> QED BY <1>1, <1>2

LEMMA CatalogTyped ==
  ASSUME NEW now, IsTable(now.class, TitleRow), UniqueNames(now.class), IsFiniteSet(DOMAIN now.class),
         IsTable(now.schema, OwnedRow)
  PROVE  Catalog(now) \in Seq(ProperClass)
<1> DEFINE n == Cardinality(DOMAIN now.class)
           ids == Ordered(now.class)
           Entry(i) == [id |-> ids[i], name |-> now.class[ids[i]].name,
                        schema |-> SchemaOf(now.schema, ids[i])]
<1>1. DOMAIN ids = 1..n /\ n \in Nat /\ \A i \in 1..n : ids[i] \in DOMAIN now.class BY OrderedIs
<1>2. Catalog(now) = [i \in 1..n |-> Entry(i)] BY <1>1 DEF Catalog
<1>3. \A i \in 1..n : Entry(i) \in ProperClass
  <2> TAKE i \in 1..n
  <2> DEFINE schema == SchemaOf(now.schema, ids[i])
             name == now.class[ids[i]].name
  <2>1. ids[i] \in Nat /\ name \in Name BY <1>1 DEF IsTable, TitleRow
  <2>2. schema = None \/ (schema \in GoodSchema /\ schema.name \in Name) BY SchemaOfIs
  <2>3. Entry(i) = [id |-> ids[i], name |-> name, schema |-> schema] OBVIOUS
  <2>4. Name \subseteq Label BY DEF Label
  <2> HIDE DEF schema, name, ids, Entry
  <2> QED BY <2>1, <2>2, <2>3, <2>4 DEF ProperClass, GoodClass
<1> HIDE DEF n, Entry
<1>4. [i \in 1..n |-> Entry(i)] \in [1..n -> ProperClass] BY <1>3
<1> QED BY <1>1, <1>2, <1>4

(* A finite set of numbers that is not empty has a maximum. *)
LEMMA MaxIsNumber ==
  ASSUME NEW S \in SUBSET Nat, S # {}, IsFiniteSet(S)
  PROVE  Max(S) \in Nat
<1>1. PICK n \in Nat : ExistsBijection(1..n, S) BY FS_NatBijection
<1>2. PICK f \in Bijection(1..n, S) : TRUE BY <1>1 DEF ExistsBijection
<1>3. f \in [1..n -> S] /\ \A x \in S : \E i \in 1..n : f[i] = x
  BY <1>2 DEF Bijection, Injection, Surjection
<1> DEFINE Bounded == {k \in 0..n : \E b \in Nat : \A i \in 1..k : f[i] <= b}
<1>4. 0 \in Bounded
  <2>1. \A i \in 1..0 : f[i] <= 0 OBVIOUS
  <2> QED BY <2>1
<1>5. ASSUME NEW k \in 1..n, k - 1 \in Bounded PROVE k \in Bounded
  <2>1. PICK b \in Nat : \A i \in 1..(k - 1) : f[i] <= b BY <1>5
  <2>2. f[k] \in Nat BY <1>3
  <2> DEFINE c == IF f[k] <= b THEN b ELSE f[k]
  <2>3. c \in Nat /\ b <= c /\ f[k] <= c BY <2>1, <2>2
  <2>4. \A i \in 1..k : i \in 1..n /\ f[i] \in Nat
    <3>1. \A i \in 1..n : f[i] \in Nat BY <1>3
    <3>2. 1..k \subseteq 1..n OBVIOUS
    <3> QED BY <3>1, <3>2
  <2>5. \A i \in 1..k : f[i] <= c
    <3> HIDE DEF c
    <3> TAKE i \in 1..k
    <3>1. CASE i = k BY <2>3, <3>1
    <3>2. CASE i # k
      <4>1. i \in 1..(k - 1) /\ f[i] \in Nat BY <2>4, <3>2
      <4>2. f[i] <= b BY <2>1, <4>1
      <4> QED BY <2>1, <2>3, <4>1, <4>2
    <3> QED BY <3>1, <3>2
  <2> HIDE DEF c
  <2>6. k \in 0..n OBVIOUS
  <2> QED BY <2>3, <2>5, <2>6
<1> HIDE DEF Bounded
<1>6. n \in Bounded BY <1>4, <1>5, NumberInduction
<1>7. PICK b \in Nat : \A i \in 1..n : f[i] <= b BY <1>6 DEF Bounded
<1>8. S \in SUBSET (0..b) BY <1>3, <1>7
<1>9. PICK m \in S : \A x \in S : x <= m BY <1>8, GreatestNumber
<1>10. \A x \in S : m >= x BY <1>9
<1>11. Max(S) \in S BY <1>10 DEF Max
<1> QED BY <1>11

----------------------------------------------------------------------------
(***************************************************************************)
(* The types of the rows, of the page and of the requests, and what a      *)
(* request on its way to the backend holds.                                *)
(***************************************************************************)
Edited ==
  editor # None =>
    /\ editor.mode \in {"create", "edit"} /\ editor.dirty \in BOOLEAN
    /\ editor.index \in Nat \cup {None} /\ editor.draft \in GoodClass

Asked(s) ==
  requests[s] # None =>
    /\ requests[s].kind \in {"save", "delete"}
    /\ requests[s].phase \in {"sent", "read", "stored", "answered", "applied", "failed"}
    /\ requests[s].classes \in Seq(ProperClass)
    /\ requests[s].phase = "sent" => \A i \in DOMAIN requests[s].classes : Stable(requests[s].classes[i])

TableInv == IsTable(rows.class, TitleRow) /\ UniqueNames(rows.class) /\ IsTable(rows.schema, OwnedRow)

PageInv ==
  /\ list \in Seq(GoodClass) /\ route \in {List, New} \cup Nat /\ fresh \in Nat
  /\ Edited

Flags == {deleting, saving, reading} \subseteq BOOLEAN

Files == (file # None => file \in GoodClass) /\ (reading => file \in GoodClass)

TInv ==
  /\ TableInv /\ PageInv
  /\ dialog \in Nat \cup {None} /\ Flags
  /\ \A s \in Slot : Asked(s)
  /\ Files

LEMMA ProperAreGood == ProperClass \subseteq GoodClass /\ Seq(ProperClass) \subseteq Seq(GoodClass)
<1>1. ProperClass \subseteq GoodClass BY DEF ProperClass
<1> QED BY <1>1

LEMMA RowsCatalog ==
  ASSUME IInv, TableInv
  PROVE  Catalog(rows) \in Seq(ProperClass)
BY CatalogTyped DEF IInv, TableInv

LEMMA DraftedListTyped ==
  ASSUME NEW classes \in Seq(GoodClass)
  PROVE  [i \in DOMAIN classes |-> Drafted(classes[i])] \in Seq(GoodClass)
<1>1. ASSUME NEW i \in DOMAIN classes PROVE Drafted(classes[i]) \in GoodClass
  <2>1. classes[i] \in GoodClass OBVIOUS
  <2> QED BY <2>1, DraftedIs
<1>2. DOMAIN classes = 1..Len(classes) /\ Len(classes) \in Nat OBVIOUS
<1> QED BY <1>1, <1>2

LEMMA RenderedTyped ==
  ASSUME NEW r \in {List, New} \cup Nat, NEW classes \in Seq(GoodClass), Rendered(r, classes),
         fresh \in Nat, Edited
  PROVE  PageInv'
<1> DEFINE places == {i \in DOMAIN classes : classes[i].id = r}
           place == CHOOSE i \in places : TRUE
<1>1. route' = r /\ list' = classes BY DEF Rendered
<1>2. fresh' = fresh + 1 \/ fresh' = fresh BY DEF Rendered
<1>3. fresh' \in Nat BY <1>2
<1>4. \/ editor' = None \/ editor' = editor
      \/ editor' = Open("create", None, NewClass(fresh + 1))
      \/ places # {} /\ editor' = Open("edit", place, classes[place])
  BY DEF Rendered
<1>5. CASE editor' = None BY <1>1, <1>3, <1>5 DEF PageInv, Edited
<1>6. CASE editor' = editor BY <1>1, <1>3, <1>6 DEF PageInv, Edited
<1>7. CASE editor' = Open("create", None, NewClass(fresh + 1))
  <2>1. NewClass(fresh + 1) \in GoodClass BY BlankIsLabel DEF NewClass, GoodClass
  <2>2. Edited' BY <1>7, <2>1 DEF Edited, Open
  <2> QED BY <1>1, <1>3, <2>2 DEF PageInv
<1>8. CASE places # {} /\ editor' = Open("edit", place, classes[place])
  <2>1. place \in places
    <3> HIDE DEF places
    <3> QED BY <1>8
  <2>2. place \in Nat /\ classes[place] \in GoodClass BY <2>1
  <2> HIDE DEF place
  <2>3. Edited' BY <1>8, <2>2 DEF Edited, Open
  <2> QED BY <1>1, <1>3, <2>3 DEF PageInv
<1> QED BY <1>4, <1>5, <1>6, <1>7, <1>8

(* A list that passes the validation holds classes that have names, and serialized they are stable. *)
LEMMA SentTyped ==
  ASSUME NEW classes \in Seq(GoodClass), Valid(classes)
  PROVE  LET sent == [i \in DOMAIN classes |-> Serialized(classes[i])]
         IN  sent \in Seq(ProperClass) /\ \A i \in DOMAIN sent : Stable(sent[i])
<1> DEFINE sent == [i \in DOMAIN classes |-> Serialized(classes[i])]
<1>1. DOMAIN classes = 1..Len(classes) /\ Len(classes) \in Nat OBVIOUS
<1>2. ASSUME NEW i \in DOMAIN classes
      PROVE  Serialized(classes[i]) \in ProperClass /\ Stable(Serialized(classes[i]))
  <2> DEFINE c == classes[i]
  <2>1. c \in GoodClass OBVIOUS
  <2>2. c.name # Blank /\ (c.schema # None => ValidSchema(c.schema)) BY DEF Valid
  <2>3. c.schema # None => c.schema.name # Blank BY <2>2 DEF ValidSchema
  <2> HIDE DEF c
  <2>4. Stable(Serialized(c)) BY <2>1, <2>2, SerializedStable
  <2>5. Serialized(c) \in GoodClass /\ Serialized(c).name = c.name BY <2>1, SerializedIs
  <2>6. Serialized(c).schema # None => Serialized(c).schema.name # Blank
    <3>1. CASE c.schema = None BY <2>1, <3>1, SerializedIs
    <3>2. CASE c.schema # None
      <4>1. Serialized(c).schema =
              [id |-> c.schema.id, name |-> c.schema.name,
               fields |-> [k \in DOMAIN c.schema.fields |-> StoredField(c.schema.fields[k])],
               scene |-> StoredScene(c.schema)]
        BY <2>1, <3>2, SerializedIs
      <4> QED BY <2>3, <3>2, <4>1
    <3> QED BY <3>1, <3>2
  <2>7. Serialized(c) \in ProperClass BY <2>2, <2>5, <2>6, NamedIsProper
  <2> QED BY <2>4, <2>7 DEF c
<1>3. sent \in Seq(ProperClass) BY <1>1, <1>2
<1>4. \A i \in DOMAIN sent : Stable(sent[i]) BY <1>2
<1> QED BY <1>3, <1>4

LEMMA SendTyped ==
  ASSUME IInv, TInv, NEW s \in Slot, NEW kind \in {"save", "delete"},
         NEW classes \in Seq(GoodClass), Valid(classes), IsList(classes), Send(s, kind, classes)
  PROVE  (\A t \in Slot : Asked(t)') /\ saving' = TRUE
<1> DEFINE sent == [i \in DOMAIN classes |-> Serialized(classes[i])]
<1>1. sent \in Seq(ProperClass) /\ \A i \in DOMAIN sent : Stable(sent[i]) BY SentTyped
<1>2. Untouched(s) BY SendRequests
<1>3. requests'[s] = [kind |-> kind, phase |-> "sent", routed |-> route # List, seen |-> None,
                      classes |-> sent]
  BY DEF Send, IInv
<1> HIDE DEF sent
<1>4. Asked(s)' BY <1>1, <1>3 DEF Asked
<1>5. \A t \in Slot \ {s} : Asked(t)' BY <1>2 DEF Untouched, TInv, Asked
<1> QED BY <1>4, <1>5 DEF Send

LEMMA GoodHasId == \A c \in GoodClass : "id" \in DOMAIN c
BY DEF GoodClass

LEMMA SendStepTyped ==
  ASSUME IInv, TInv, NEW s \in Slot, Save(s) \/ ConfirmDelete(s)
  PROVE  TInv'
<1>1. list \in Seq(GoodClass) BY DEF TInv, PageInv
<1>2. UNCHANGED <<rows, page, dialog, file, reading>> BY DEF Save, ConfirmDelete
<1>3. deleting' \in BOOLEAN BY DEF Save, ConfirmDelete, TInv, Flags
<1>4. CASE Save(s)
  <2> DEFINE sent == Replaced(list, editor.index, editor.draft)
  <2>1. editor.draft \in GoodClass BY <1>4 DEF Save, ShowsEditor, TInv, PageInv, Edited
  <2>2. Append(list, editor.draft) \in Seq(GoodClass) BY <1>1, <2>1
  <2>3. [i \in DOMAIN list |-> IF i = editor.index THEN editor.draft ELSE list[i]] \in Seq(GoodClass)
    <3>1. DOMAIN list = 1..Len(list) /\ Len(list) \in Nat BY <1>1
    <3>2. \A i \in DOMAIN list : (IF i = editor.index THEN editor.draft ELSE list[i]) \in GoodClass
      BY <1>1, <2>1
    <3> QED BY <3>1, <3>2
  <2>4. sent \in Seq(GoodClass) BY <2>2, <2>3 DEF Replaced
  <2>5. Valid(sent) /\ Send(s, "save", sent) BY <1>4 DEF Save
  <2>6. IsList(sent) BY <2>4, GoodHasId, SeqIsList
  <2> HIDE DEF sent
  <2>7. (\A t \in Slot : Asked(t)') /\ saving' = TRUE BY <2>4, <2>5, <2>6, SendTyped
  <2> QED BY <1>2, <1>3, <2>7 DEF TInv, TableInv, PageInv, Edited, Flags, Files, page
<1>5. CASE ConfirmDelete(s)
  <2> DEFINE sent == Removed(list, dialog)
  <2>1. sent \in Seq(GoodClass) BY <1>1, RemovedType DEF Removed
  <2>2. Valid(sent) /\ Send(s, "delete", sent) BY <1>5 DEF ConfirmDelete
  <2>3. IsList(sent) BY <2>1, GoodHasId, SeqIsList
  <2> HIDE DEF sent
  <2>4. (\A t \in Slot : Asked(t)') /\ saving' = TRUE BY <2>1, <2>2, <2>3, SendTyped
  <2> QED BY <1>2, <1>3, <2>4 DEF TInv, TableInv, PageInv, Edited, Flags, Files, page
<1> QED BY <1>4, <1>5

(* A request that goes on, no longer on its way to the backend. *)
LEMMA GoneOnTyped ==
  ASSUME IInv, TInv, NEW s \in Slot, requests[s] # None,
         NEW request, requests' = [requests EXCEPT ![s] = request],
         request.kind = requests[s].kind,
         request.phase \in {"read", "stored", "answered", "applied", "failed"},
         request.classes \in Seq(ProperClass)
  PROVE  \A t \in Slot : Asked(t)'
<1>1. requests'[s] = request /\ Untouched(s) BY DEF IInv, Untouched
<1>2. requests[s].kind \in {"save", "delete"} BY DEF TInv, Asked
<1>3. Asked(s)' BY <1>1, <1>2 DEF Asked
<1>4. \A t \in Slot \ {s} : Asked(t)' BY <1>1 DEF Untouched, TInv, Asked
<1> QED BY <1>3, <1>4

LEMMA FlushTyped ==
  ASSUME TInv, NEW seen, NEW classes \in Seq(ProperClass),
         ~Refused(rows.class, seen.class, Rows(Range(classes)).class),
         rows' = [class |-> Flushed(rows.class, seen.class, Rows(Range(classes)).class),
                  schema |-> Flushed(rows.schema, seen.schema, Rows(Range(classes)).schema)]
  PROVE  TableInv'
<1> DEFINE new == Rows(Range(classes))
<1>1. Range(classes) \in SUBSET ProperClass BY DEF Range
<1>2. IsTable(new.class, TitleRow) /\ IsTable(new.schema, OwnedRow) BY <1>1, RowsTyped
<1>3. UniqueNames(Flushed(rows.class, seen.class, new.class)) BY FlushedUnique
<1> HIDE DEF new
<1>4. IsTable(Flushed(rows.class, seen.class, new.class), TitleRow)
  BY <1>2, WrittenTyped DEF TInv, TableInv
<1>5. IsTable(Flushed(rows.schema, seen.schema, new.schema), OwnedRow)
  BY <1>2, WrittenTyped DEF TInv, TableInv
<1>6. /\ rows'.class = Flushed(rows.class, seen.class, new.class)
      /\ rows'.schema = Flushed(rows.schema, seen.schema, new.schema)
  BY DEF new
<1> QED BY <1>3, <1>4, <1>5, <1>6 DEF TableInv

LEMMA BackendStepTyped ==
  ASSUME IInv, TInv, NEW s \in Slot, Read(s) \/ Commit(s) \/ Answer(s)
  PROVE  TInv'
<1>1. requests[s] # None BY DEF Read, Commit, Answer
<1>2. UNCHANGED <<page, dialog, deleting, saving, file, reading>> BY DEF Read, Commit, Answer
<1>3. requests[s].classes \in Seq(ProperClass) BY <1>1 DEF TInv, Asked
<1>4. {"kind", "phase", "seen", "classes"} \subseteq DOMAIN requests[s] BY <1>1 DEF IInv, Requested
<1>5. SUFFICES TableInv' /\ \A t \in Slot : Asked(t)'
  BY <1>2 DEF TInv, PageInv, Edited, Flags, Files, page
<1>6. CASE Read(s)
  <2>1. rows' = rows BY <1>6 DEF Read
  <2>2. \/ requests' = [requests EXCEPT ![s] = [requests[s] EXCEPT !.phase = "read", !.seen = rows]]
        \/ requests' = [requests EXCEPT ![s] = [requests[s] EXCEPT !.phase = "failed"]]
    BY <1>6 DEF Read
  <2>3. PICK request : /\ requests' = [requests EXCEPT ![s] = request]
                       /\ request.kind = requests[s].kind /\ request.phase \in {"read", "failed"}
                       /\ request.classes = requests[s].classes
    <3> DEFINE read == [requests[s] EXCEPT !.phase = "read", !.seen = rows]
               failed == [requests[s] EXCEPT !.phase = "failed"]
    <3>1. read.kind = requests[s].kind /\ read.phase = "read" /\ read.classes = requests[s].classes
      BY <1>4
    <3>2. failed.kind = requests[s].kind /\ failed.phase = "failed" /\ failed.classes = requests[s].classes
      BY <1>4
    <3> HIDE DEF read, failed
    <3>3. requests' = [requests EXCEPT ![s] = read] \/ requests' = [requests EXCEPT ![s] = failed]
      BY <2>2 DEF read, failed
    <3> QED BY <3>1, <3>2, <3>3
  <2>4. \A t \in Slot : Asked(t)' BY <1>1, <1>3, <2>3, GoneOnTyped
  <2> QED BY <2>1, <2>4 DEF TInv, TableInv
<1>7. CASE Commit(s)
  <2> DEFINE seen == requests[s].seen
             new == Rows(Range(requests[s].classes))
             refused == \/ Refused(rows.class, seen.class, new.class)
                        \/ Refused(rows.schema, seen.schema, new.schema)
  <2>1. requests' = [requests EXCEPT ![s] =
          [requests[s] EXCEPT !.phase = IF refused THEN "failed" ELSE "stored", !.seen = None]]
    BY <1>7 DEF Commit
  <2>2. rows' = IF refused THEN rows
                ELSE [class |-> Flushed(rows.class, seen.class, new.class),
                      schema |-> Flushed(rows.schema, seen.schema, new.schema)]
    BY <1>7 DEF Commit
  <2> DEFINE phase == IF refused THEN "failed" ELSE "stored"
             request == [requests[s] EXCEPT !.phase = phase, !.seen = None]
  <2>3. /\ request.kind = requests[s].kind /\ request.classes = requests[s].classes
        /\ request.phase \in {"stored", "failed"}
    <3> HIDE DEF refused
    <3> QED BY <1>4
  <2>4. \A t \in Slot : Asked(t)'
    <3>1. requests' = [requests EXCEPT ![s] = request] BY <2>1
    <3> HIDE DEF request
    <3> QED BY <1>1, <1>3, <2>3, <3>1, GoneOnTyped
  <2>5. CASE refused
    <3> HIDE DEF refused
    <3> QED BY <2>2, <2>4, <2>5 DEF TInv, TableInv
  <2>6. CASE ~refused
    <3>1. ~Refused(rows.class, seen.class, new.class) BY <2>6
    <3>2. rows' = [class |-> Flushed(rows.class, seen.class, new.class),
                   schema |-> Flushed(rows.schema, seen.schema, new.schema)]
      <4> HIDE DEF refused
      <4> QED BY <2>2, <2>6
    <3>3. TableInv' BY <1>3, <3>1, <3>2, FlushTyped
    <3> QED BY <2>4, <3>3
  <2> QED BY <2>5, <2>6
<1>8. CASE Answer(s)
  <2>1. /\ rows' = rows
        /\ requests' = [requests EXCEPT ![s] = [requests[s] EXCEPT !.phase = "answered", !.classes = Catalog(rows)]]
    BY <1>8 DEF Answer
  <2>2. Catalog(rows) \in Seq(ProperClass) BY RowsCatalog DEF TInv
  <2> DEFINE request == [requests[s] EXCEPT !.phase = "answered", !.classes = Catalog(rows)]
  <2>3. request.kind = requests[s].kind /\ request.phase = "answered" /\ request.classes = Catalog(rows)
    BY <1>4
  <2>4. \A t \in Slot : Asked(t)'
    <3>1. requests' = [requests EXCEPT ![s] = request] BY <2>1
    <3> HIDE DEF request
    <3> QED BY <1>1, <2>2, <2>3, <3>1, GoneOnTyped
  <2> QED BY <2>1, <2>4 DEF TInv, TableInv
<1> QED BY <1>6, <1>7, <1>8

LEMMA AnswerStepTyped ==
  ASSUME IInv, TInv, NEW s \in Slot, Apply(s) \/ Finish(s) \/ Fail(s)
  PROVE  TInv'
<1>1. requests[s] # None BY DEF Apply, Finish, Fail
<1>2. UNCHANGED <<rows, file, reading>> BY DEF Apply, Finish, Fail
<1>3. requests[s].classes \in Seq(ProperClass) BY <1>1 DEF TInv, Asked
<1>4. dialog' \in Nat \cup {None} /\ Flags' BY <1>2 DEF Apply, Finish, Fail, TInv, Flags
<1>5. SUFFICES PageInv' /\ \A t \in Slot : Asked(t)'
  BY <1>2, <1>4 DEF TInv, TableInv, Files
<1>6. CASE Apply(s)
  <2> DEFINE classes == [i \in DOMAIN requests[s].classes |-> Drafted(requests[s].classes[i])]
  <2>1. Rendered(route, classes) BY <1>6 DEF Apply
  <2>2. classes \in Seq(GoodClass) BY <1>3, ProperAreGood, DraftedListTyped
  <2> HIDE DEF classes
  <2>3. PageInv' BY <2>1, <2>2, RenderedTyped DEF TInv, PageInv
  <2>4. requests' = [requests EXCEPT ![s] = [requests[s] EXCEPT !.phase = "applied"]] BY <1>6 DEF Apply
  <2> DEFINE request == [requests[s] EXCEPT !.phase = "applied"]
  <2>5. /\ request.kind = requests[s].kind /\ request.phase = "applied"
        /\ request.classes = requests[s].classes
    BY <1>1 DEF IInv, Requested
  <2>6. \A t \in Slot : Asked(t)'
    <3> HIDE DEF request
    <3>1. requests' = [requests EXCEPT ![s] = request] BY <2>4 DEF request
    <3> QED BY <1>1, <1>3, <2>5, <3>1, GoneOnTyped
  <2> QED BY <2>3, <2>6
<1>7. CASE Finish(s) \/ Fail(s)
  <2>1. requests' = [requests EXCEPT ![s] = None] BY <1>7 DEF Finish, Fail
  <2>2. requests'[s] = None /\ \A t \in Slot \ {s} : requests'[t] = requests[t] BY <2>1 DEF IInv
  <2>3. \A t \in Slot : Asked(t)' BY <2>2 DEF TInv, Asked
  <2>4. \/ UNCHANGED page \/ Rendered(List, list)
        \/ editor' = None /\ UNCHANGED <<list, route, fresh>>
    BY <1>7 DEF Finish, Fail
  <2>5. CASE UNCHANGED page BY <2>3, <2>5 DEF page, TInv, PageInv, Edited
  <2>6. CASE Rendered(List, list)
    <3>1. PageInv' BY <2>6, RenderedTyped DEF TInv, PageInv
    <3> QED BY <2>3, <3>1
  <2>7. CASE editor' = None /\ UNCHANGED <<list, route, fresh>>
    BY <2>3, <2>7 DEF TInv, PageInv, Edited
  <2> QED BY <2>4, <2>5, <2>6, <2>7
<1> QED BY <1>6, <1>7

(* A class that was imported. *)
LEMMA ImportedTyped ==
  ASSUME file \in GoodClass, fresh \in Nat
  PROVE  Imported \in GoodClass
<1> DEFINE class == [Drafted(file) EXCEPT !.id = fresh + 1]
<1>1. Drafted(file) \in GoodClass BY DraftedIs
<1>2. class \in GoodClass BY <1>1 DEF GoodClass
<1> HIDE DEF class
<1>3. CASE class.schema = None BY <1>2, <1>3 DEF Imported, class
<1>4. CASE class.schema # None
  <2>1. class.schema \in GoodSchema BY <1>2, <1>4 DEF GoodClass
  <2> DEFINE schema == [class.schema EXCEPT !.id = fresh + 2]
  <2>2. schema \in GoodSchema BY <2>1 DEF GoodSchema
  <2>3. Imported = [class EXCEPT !.schema = schema] BY <1>2, <1>4 DEF Imported, class, GoodClass
  <2> HIDE DEF schema
  <2> QED BY <1>2, <2>2, <2>3 DEF GoodClass
<1> QED BY <1>3, <1>4

LEMMA PageStepTyped ==
  ASSUME IInv, TInv,
         \/ \E r \in {List, New} \cup DOMAIN rows.class : Browse(r)
         \/ Cancel \/ CloseDialog \/ ExportListed \/ ExportEdited \/ PickFile \/ Import
         \/ \E index \in DOMAIN list : AskDelete(index)
  PROVE  TInv'
<1>1. UNCHANGED <<rows, deleting, saving, requests>>
  BY DEF Browse, Cancel, CloseDialog, ExportListed, ExportEdited, Export, PickFile, Import, AskDelete
<1>2. TableInv' /\ \A t \in Slot : Asked(t)' BY <1>1 DEF TInv, TableInv, Asked
<1>3. DOMAIN rows.class \subseteq Nat BY DEF TInv, TableInv, IsTable
<1>4. CASE (\E r \in {List, New} \cup DOMAIN rows.class : Browse(r)) \/ Cancel
  <2>1. UNCHANGED <<dialog, file, reading>> BY <1>4 DEF Browse, Cancel
  <2>2. \/ \E r \in {List, New} \cup Nat : Rendered(r, list)
        \/ editor' = None /\ UNCHANGED <<list, route, fresh>>
    BY <1>3, <1>4 DEF Browse, Cancel
  <2>3. PageInv'
    <3>1. CASE \E r \in {List, New} \cup Nat : Rendered(r, list)
      BY <3>1, RenderedTyped DEF TInv, PageInv
    <3>2. CASE editor' = None /\ UNCHANGED <<list, route, fresh>>
      BY <3>2 DEF TInv, PageInv, Edited
    <3> QED BY <2>2, <3>1, <3>2
  <2> QED BY <1>1, <1>2, <2>1, <2>3 DEF TInv, Flags, Files
<1>5. CASE CloseDialog \/ \E index \in DOMAIN list : AskDelete(index)
  <2>1. UNCHANGED <<page, file, reading>> BY <1>5 DEF CloseDialog, AskDelete
  <2>2. DOMAIN list \subseteq Nat BY DEF TInv, PageInv
  <2>3. dialog' \in Nat \cup {None} BY <1>5, <2>2 DEF CloseDialog, AskDelete
  <2> QED BY <1>1, <1>2, <2>1, <2>3 DEF TInv, PageInv, Edited, Flags, Files, page
<1>6. CASE ExportListed \/ ExportEdited
  <2>1. PICK class \in GoodClass : Export(class)
    <3>1. CASE ExportListed BY <3>1 DEF ExportListed, TInv, PageInv
    <3>2. CASE ExportEdited BY <3>2 DEF ExportEdited, ShowsEditor, TInv, PageInv, Edited
    <3> QED BY <1>6, <3>1, <3>2
  <2>2. file' = Serialized(class) /\ UNCHANGED <<page, dialog, reading>> BY <2>1 DEF Export
  <2>3. file' \in GoodClass BY <2>2, SerializedIs
  <2> QED BY <1>1, <1>2, <2>2, <2>3 DEF TInv, PageInv, Edited, Flags, Files, page
<1>7. CASE PickFile
  <2>1. UNCHANGED <<page, dialog, file>> /\ reading' = TRUE /\ file # None BY <1>7 DEF PickFile
  <2> QED BY <1>1, <1>2, <2>1 DEF TInv, PageInv, Edited, Flags, Files, page
<1>8. CASE Import
  <2>1. UNCHANGED <<list, route, dialog, file>> /\ reading' = FALSE /\ reading BY <1>8 DEF Import
  <2>2. fresh \in Nat /\ file \in GoodClass BY <2>1 DEF TInv, PageInv, Files
  <2>3. Imported \in GoodClass BY <2>2, ImportedTyped
  <2>4. \/ editor' = Open("create", None, Imported) /\ fresh' = fresh + 2
        \/ UNCHANGED <<editor, fresh>>
    BY <1>8 DEF Import
  <2>5. Edited' /\ fresh' \in Nat
    <3>1. CASE editor' = Open("create", None, Imported) /\ fresh' = fresh + 2
      BY <2>2, <2>3, <3>1 DEF Edited, Open
    <3>2. CASE UNCHANGED <<editor, fresh>> BY <2>2, <3>2 DEF TInv, PageInv, Edited
    <3> QED BY <2>4, <3>1, <3>2
  <2> QED BY <1>1, <1>2, <2>1, <2>5 DEF TInv, PageInv, Flags, Files
<1> QED BY <1>4, <1>5, <1>6, <1>7, <1>8

LEMMA EditStepTyped ==
  ASSUME IInv, TInv, Edit
  PROVE  TInv'
<1>1. editor # None BY DEF Edit, ShowsEditor
<1>2. editor.draft \in GoodClass /\ fresh \in Nat BY <1>1 DEF TInv, PageInv, Edited
<1>3. fresh' \in Nat /\ \E d \in GoodClass : Edits(d) BY <1>1, <1>2, EditTyped
<1>4. PICK d \in GoodClass : Edits(d) BY <1>3
<1>5. /\ editor' = [editor EXCEPT !.draft = d, !.dirty = TRUE]
      /\ UNCHANGED <<rows, list, route, dialog, deleting, saving, requests, file, reading>>
  BY <1>4 DEF Edits
<1>6. {"mode", "index", "draft", "dirty"} \subseteq DOMAIN editor BY <1>1 DEF IInv, Fits
<1>7. editor'.mode = editor.mode /\ editor'.index = editor.index /\ editor'.draft = d /\ editor'.dirty = TRUE
  BY <1>5, <1>6
<1>8. Edited' BY <1>1, <1>7 DEF Edited, TInv, PageInv
<1> QED BY <1>3, <1>5, <1>8 DEF TInv, TableInv, PageInv, Flags, Files, Asked

LEMMA InitialTyped ==
  /\ Initial \in SUBSET ProperClass
  /\ UniqueNames(Rows(Initial).class)
<1>1. Initial \subseteq ProperClass
  <2> SUFFICES ASSUME NEW c \in Initial PROVE c \in ProperClass OBVIOUS
  <2>1. c \in Class /\ Shaped(c) /\ c.name # Blank /\ (c.schema # None => c.schema.name # Blank)
    BY InitialAssumption
  <2> QED BY <2>1, GoodClassIs, NamedIsProper
<1>2. UniqueNames(Rows(Initial).class)
  <2> DEFINE Titled(id) == CHOOSE c \in Initial : c.id = id
             titles == [id \in {c.id : c \in Initial} |-> [name |-> Titled(id).name]]
  <2>1. Rows(Initial).class = titles BY DEF Rows
  <2>2. ASSUME NEW a \in DOMAIN titles, NEW b \in DOMAIN titles, titles[a].name = titles[b].name
        PROVE  a = b
    <3>1. \A id \in DOMAIN titles : Titled(id) \in Initial /\ Titled(id).id = id
      <4> TAKE id \in DOMAIN titles
      <4>1. \E c \in Initial : c.id = id OBVIOUS
      <4> QED BY <4>1
    <3>2. Titled(a).name = Titled(b).name BY <2>2
    <3> HIDE DEF Titled, titles
    <3>3. Titled(a) = Titled(b) BY <3>1, <3>2, InitialAssumption
    <3> QED BY <3>1, <3>3
  <2> HIDE DEF titles
  <2> QED BY <2>1, <2>2 DEF UniqueNames
<1> QED BY <1>1, <1>2

LEMMA InitTyped ==
  ASSUME Init
  PROVE  TInv
<1>0. IInv BY InitInv
<1>1. TableInv BY InitialTyped, RowsTyped DEF Init, TableInv
<1>2. Catalog(rows) \in Seq(GoodClass) BY <1>0, <1>1, RowsCatalog, ProperAreGood
<1>3. list \in Seq(GoodClass) BY <1>2, DraftedListTyped DEF Init
<1>4. fresh \in Nat
  <2> DEFINE with == {d \in Initial : d.schema # None}
             ids == {c.id : c \in Initial}
             owned == {c.schema.id : c \in with}
             f == [c \in Initial |-> c.id]
             g == [c \in with |-> c.schema.id]
  <2>1. f \in Surjection(Initial, ids) /\ g \in Surjection(with, owned) BY DEF Surjection
  <2>2. IsFiniteSet(Initial) /\ IsFiniteSet(with) BY InitialAssumption, FS_Subset
  <2>3. IsFiniteSet(ids) /\ IsFiniteSet(owned) BY <2>1, <2>2, FS_Surjection
  <2>4. ids \subseteq Nat /\ owned \subseteq Nat
    <3>1. \A c \in Initial : c \in GoodClass BY InitialTyped, ProperAreGood
    <3>2. \A c \in Initial : c.id \in Nat /\ c.schema \in GoodSchema \cup {None} BY <3>1 DEF GoodClass
    <3>3. \A c \in with : c.schema.id \in Nat BY <3>2 DEF GoodSchema
    <3> QED BY <3>2, <3>3
  <2>5. fresh = Max({0} \cup ids \cup owned) BY DEF Init
  <2> HIDE DEF ids, owned
  <2>6. IsFiniteSet({0} \cup ids \cup owned) BY <2>3, FS_Singleton, FS_Union
  <2> QED BY <2>4, <2>5, <2>6, MaxIsNumber
<1> QED BY <1>1, <1>3, <1>4 DEF Init, TInv, PageInv, Edited, Flags, Files, Asked

LEMMA NextTyped == IInv /\ TInv /\ [Next]_vars => TInv'
<1> SUFFICES ASSUME IInv, TInv, [Next]_vars PROVE TInv' OBVIOUS
<1>1. CASE UNCHANGED vars
  BY <1>1 DEF vars, page, TInv, TableInv, PageInv, Edited, Flags, Files, Asked
<1> QED BY <1>1, BackendStepTyped, AnswerStepTyped, PageStepTyped, SendStepTyped, EditStepTyped
        DEF Next, Administrator

LEMMA InvariantsHold == Spec => [](IInv /\ TInv)
BY InitInv, InitTyped, NextInv, NextTyped, PTL DEF Spec

(* The rows are classes in the database's own terms, whatever transactions wrote and in whatever   *)
(* order; the page holds classes whose plain fields have no children, through every conversion,    *)
(* edit and import.                                                                                *)
THEOREM TypeCorrect == Spec => []TypeOK
<1>1. IInv /\ TInv => TypeOK
  <2> SUFFICES ASSUME IInv, TInv PROVE TypeOK OBVIOUS
  <2>1. Catalog(rows) \in Seq(GoodClass) /\ list \in Seq(GoodClass)
    BY RowsCatalog, ProperAreGood DEF TInv, PageInv
  <2>2. \A c \in Range(Catalog(rows)) \cup Range(list) : c \in GoodClass
    <3>1. \A classes \in Seq(GoodClass) : Range(classes) \subseteq GoodClass BY DEF Range
    <3> QED BY <2>1, <3>1
  <2>3. \A c \in Range(Catalog(rows)) \cup Range(list) : c \in Class /\ Shaped(c) BY <2>2, GoodClassIs
  <2>4. editor # None => editor.draft \in Class /\ Shaped(editor.draft)
    BY GoodClassIs DEF TInv, PageInv, Edited
  <2>5. \A s \in Slot : requests[s] # None => Range(requests[s].classes) \subseteq Class
    <3>1. ASSUME NEW s \in Slot, requests[s] # None PROVE Range(requests[s].classes) \subseteq Class
      <4>1. requests[s].classes \in Seq(GoodClass) BY <3>1, ProperAreGood DEF TInv, Asked
      <4>2. \A c \in Range(requests[s].classes) : c \in GoodClass BY <4>1 DEF Range
      <4> QED BY <4>2, GoodClassIs
    <3> QED BY <3>1
  <2> QED BY <2>3, <2>4, <2>5 DEF TypeOK, TInv, PageInv, Edited, Flags, Asked
<1> QED BY <1>1, InvariantsHold, PTL

(* What a request sends was validated and serialized, so every field, example and extraction of it *)
(* is kept when it is read back, shown and serialized again, and every value but long integers,    *)
(* which are shortened.  This needs that the names of a schema's fields are distinct, which the    *)
(* validation looks at, and that a value never becomes empty.                                      *)
THEOREM SentStable == Spec => []SentIsStable
<1>1. TInv => SentIsStable
  <2> SUFFICES ASSUME TInv PROVE SentIsStable OBVIOUS
  <2>1. ASSUME NEW s \in Slot, requests[s] # None, requests[s].phase = "sent",
               NEW c \in Range(requests[s].classes)
        PROVE  Stable(c)
    BY <2>1 DEF TInv, Asked, Range
  <2> QED BY <2>1 DEF SentIsStable, Stable
<1> QED BY <1>1, InvariantsHold, PTL

=============================================================================
