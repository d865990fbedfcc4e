-------------------------- MODULE ContentReview_proofs --------------------------
(***************************************************************************)
(* Theorems about ContentReview, for any classes, versions of the catalog  *)
(* and numbers of actions and faults.                                      *)
(*                                                                         *)
(* That two transactions which overlap undo nothing of each other rests on *)
(* two facts: what one computes differs from what it read only in columns  *)
(* of its own, and a flush writes only where they differ.  The first is an *)
(* invariant of the transactions that are open (Faithful).                 *)
(***************************************************************************)
EXTENDS ContentReview, TLAPS

Columns == {"class_system", "class_override", "class_effective", "class_review", "class_print",
            "data_class", "data_system", "data_override", "data_override_class",
            "data_effective", "data_effective_class", "data_schema", "data_review", "data_print"}

(* Whatever has the columns of a row: of their values nothing is used. *)
IsRow(r) == r = [column \in Columns |-> r[column]]

Same(a, b, columns) == \A column \in columns : a[column] = b[column]

IsSave == save = [field \in {"request", "phase", "seen", "reply"} |-> save[field]]

(* The inductive invariant: the row, and the transactions between their    *)
(* read and their commit.                                                  *)
Faithful ==
  /\ IsRow(row)
  /\ work # None => Same(work.new, work.seen, Decisions)
  /\ save # None => IsSave
  /\ save # None /\ save.phase = "read" => IsRow(save.seen)

----------------------------------------------------------------------------
(* What the operations on a row leave alone. *)

(* A completion computes no column that a reviewer decides. *)
LEMMA CompletedKeeps ==
  ASSUME NEW r, IsRow(r), NEW class, NEW schema
  PROVE  IsRow(Completed(r, class, schema)) /\ Same(Completed(r, class, schema), r, Decisions)
<1> DEFINE c == Classified(r, class)
<1>1. IsRow(c) /\ Same(c, r, Decisions)
  BY DEF IsRow, Columns, Same, Decisions, Classified
<1> HIDE DEF c
<1>2. ASSUME NEW a, NEW b, NEW d, NEW e, NEW f, NEW g
      PROVE  LET x == [c EXCEPT !.data_class = a, !.data_system = b, !.data_print = d,
                               !.data_schema = e, !.data_effective = f]
                 y == [x EXCEPT !.data_effective_class = g]
             IN  IsRow(y) /\ Same(y, r, Decisions)
  BY <1>1 DEF IsRow, Columns, Same, Decisions
<1>3. ASSUME NEW a, NEW b, NEW d, NEW e, NEW f, NEW g
      PROVE  LET y == [c EXCEPT !.data_class = a, !.data_system = b, !.data_print = d,
                               !.data_schema = e, !.data_effective = f, !.data_effective_class = g]
             IN  IsRow(y) /\ Same(y, r, Decisions)
  BY <1>1 DEF IsRow, Columns, Same, Decisions
<1>4. CASE Trusted(c, schema)
  BY <1>2, <1>4 DEF Completed, c
<1>5. CASE ~Trusted(c, schema)
  BY <1>3, <1>5 DEF Completed, c
<1> QED BY <1>4, <1>5

(* The steps of a review compute no column that a worker fills, and keep a row a row. *)
LEMMA DropsKeep ==
  ASSUME NEW r, IsRow(r), NEW mark
  PROVE  /\ IsRow(DropClass(r, mark)) /\ Same(DropClass(r, mark), r, Results)
         /\ IsRow(DropData(r, mark)) /\ Same(DropData(r, mark), r, Results)
  BY DEF IsRow, Columns, Same, Results, DropClass, DropData

LEMMA SubmittedKeeps ==
  ASSUME NEW r, IsRow(r), NEW label, NEW data
  PROVE  /\ IsRow(LabelSubmitted(r, label)) /\ Same(LabelSubmitted(r, label), r, Results)
         /\ IsRow(DataSubmitted(r, data)) /\ Same(DataSubmitted(r, data), r, Results)
<1>1. IsRow(LabelSubmitted(r, label)) /\ Same(LabelSubmitted(r, label), r, Results)
  BY DEF IsRow, Columns, Same, Results, LabelSubmitted
<1> DEFINE new == IF r.data_review = "corrected" /\ data = r.data_effective THEN r
                  ELSE IF data = r.data_system
                  THEN [r EXCEPT !.data_override = None, !.data_override_class = None,
                                 !.data_effective = data, !.data_review = "accepted"]
                  ELSE [r EXCEPT !.data_override = data, !.data_override_class = r.class_effective,
                                 !.data_effective = data, !.data_review = "corrected"]
<1>2. IsRow(new) /\ Same(new, r, Results)
  BY DEF IsRow, Columns, Same, Results
<1>3. DataSubmitted(r, data) = [new EXCEPT !.data_effective_class = EffectiveClass(new)]
  BY DEF DataSubmitted
<1> HIDE DEF new
<1>4. /\ IsRow([new EXCEPT !.data_effective_class = EffectiveClass(new)])
      /\ Same([new EXCEPT !.data_effective_class = EffectiveClass(new)], r, Results)
  BY <1>2 DEF IsRow, Columns, Same, Results
<1> QED BY <1>1, <1>3, <1>4

(* Nor does a whole review, unless it changes the class. *)
LEMMA ReviewedKeeps ==
  ASSUME NEW r, IsRow(r), NEW request, request.kind # "change_class"
  PROVE  Same(Reviewed(r, request), r, Results)
<1>1. IsRow(Labelled(r, request)) /\ Same(Labelled(r, request), r, Results)
  BY SubmittedKeeps DEF Labelled, Same
<1>2. /\ IsRow(DropClass(r, None)) /\ Same(DropClass(r, None), r, Results)
      /\ IsRow(DropClass(r, "dismissed")) /\ Same(DropClass(r, "dismissed"), r, Results)
      /\ Same(DropData(r, None), r, Results) /\ Same(DropData(r, "dismissed"), r, Results)
  BY DropsKeep
<1>3. /\ Same(DropData(DropClass(r, None), None), r, Results)
      /\ Same(DropData(DropClass(r, "dismissed"), "dismissed"), r, Results)
  <2>1. /\ Same(DropData(DropClass(r, None), None), DropClass(r, None), Results)
        /\ Same(DropData(DropClass(r, "dismissed"), "dismissed"), DropClass(r, "dismissed"), Results)
    BY <1>2, DropsKeep
  <2> QED BY <1>2, <2>1 DEF Same
<1>4. Same(DataSubmitted(Labelled(r, request), request.data), r, Results)
  <2>1. Same(DataSubmitted(Labelled(r, request), request.data), Labelled(r, request), Results)
    BY <1>1, SubmittedKeeps
  <2> QED BY <1>1, <2>1 DEF Same
<1> QED BY <1>1, <1>2, <1>3, <1>4 DEF Reviewed

(* A flush keeps the columns that the transaction did not change. *)
LEMMA FlushKeeps ==
  ASSUME NEW now, IsRow(now), NEW seen, NEW new, NEW columns \in SUBSET Columns,
         Same(new, seen, columns)
  PROVE  IsRow(Flushed(now, seen, new)) /\ Same(Flushed(now, seen, new), now, columns)
<1>1. DOMAIN now = Columns BY DEF IsRow
<1> QED BY <1>1 DEF IsRow, Same, Flushed

LEMMA FlushIsRow ==
  ASSUME NEW now, IsRow(now), NEW seen, NEW new
  PROVE  IsRow(Flushed(now, seen, new))
BY FlushKeeps, {} \in SUBSET Columns DEF Same

----------------------------------------------------------------------------
(* Faithful is an invariant. *)

LEMMA InitFaithful == Init => Faithful
<1> SUFFICES ASSUME Init PROVE Faithful OBVIOUS
<1>1. IsRow(Blanks) BY DEF IsRow, Columns, Blanks
<1>2. IsRow(Completed(Blanks, Found, Found)) BY <1>1, CompletedKeeps
<1>3. IsRow(Reviewed(Completed(Blanks, Found, Found), Correction))
  <2> DEFINE r == Completed(Blanks, Found, Found)
             l == Labelled(r, Correction)
  <2>1. IsRow(l) BY <1>2, SubmittedKeeps DEF Labelled
  <2>2. IsRow(DataSubmitted(l, Correction.data))
    BY <2>1, SubmittedKeeps
  <2> QED BY <2>1, <2>2 DEF Reviewed, Correction
<1> QED BY <1>2, <1>3 DEF Init, Faithful

(* Most steps leave the row and both transactions as they are, or only     *)
(* move the phase of a review.                                              *)
LEMMA KeptFaithful ==
  ASSUME Faithful, row' = row, work' \in {work, None}, save' \in {save, None}
  PROVE  Faithful'
<1>1. IsRow(row)' BY DEF Faithful, IsRow
<1>2. (work # None => Same(work.new, work.seen, Decisions))'
  <2>1. CASE work' = work BY <2>1 DEF Faithful, Same, Decisions
  <2>2. CASE work' = None BY <2>2
  <2> QED BY <2>1, <2>2
<1>3. (save # None => IsSave)' /\ (save # None /\ save.phase = "read" => IsRow(save.seen))'
  <2>1. CASE save' = save BY <2>1 DEF Faithful, IsSave, IsRow
  <2>2. CASE save' = None BY <2>2
  <2> QED BY <2>1, <2>2
<1> QED BY <1>1, <1>2, <1>3 DEF Faithful

(* The steps that change the row, or that read it. *)
LEMMA ReadRowFaithful == ASSUME Faithful, ReadRow PROVE Faithful'
<1>1. row' = row /\ work' = work BY DEF ReadRow, server
<1>2. IsSave /\ IsRow(row) BY DEF Faithful, ReadRow
<1>3. CASE save' = [save EXCEPT !.phase = "refused"]
  <2>1. IsSave' /\ save'.phase = "refused" BY <1>2, <1>3 DEF IsSave
  <2> QED BY <1>1, <2>1, <1>2 DEF Faithful, IsRow, Same
<1>4. CASE save' = [save EXCEPT !.phase = "read", !.seen = row]
  <2>1. IsSave' /\ save'.seen = row BY <1>2, <1>4 DEF IsSave
  <2> QED BY <1>1, <2>1, <1>2 DEF Faithful, IsRow, Same
<1> QED BY <1>3, <1>4 DEF ReadRow

LEMMA CommitReviewFaithful == ASSUME Faithful, CommitReview PROVE Faithful'
<1>1. IsSave /\ IsRow(row) /\ work' = work BY DEF Faithful, CommitReview
<1> DEFINE committed == Flushed(row, save.seen, Reviewed(save.seen, save.request))
<1>2. IsRow(committed) BY <1>1, FlushIsRow
<1> HIDE DEF committed
<1>3. row' = committed BY DEF CommitReview, committed
<1>4. IsRow(row)' BY <1>2, <1>3 DEF IsRow
<1>5. IsSave' /\ save'.phase # "read"
  <2> DEFINE answer == [Current EXCEPT !.row = committed]
  <2> HIDE DEF answer
  <2>1. \/ save' = [save EXCEPT !.phase = "queue", !.seen = None]
        \/ save' = [save EXCEPT !.phase = "done", !.seen = None, !.reply = answer]
    BY DEF CommitReview, committed, answer
  <2> QED BY <1>1, <2>1 DEF IsSave
<1> QED BY <1>1, <1>4, <1>5 DEF Faithful, Same

LEMMA QueueForcedFaithful == ASSUME Faithful, QueueForced PROVE Faithful'
<1>1. IsSave /\ row' = row /\ work' = work BY DEF Faithful, QueueForced, Enqueue
<1> DEFINE answer == [Current EXCEPT !.status = "QUEUED", !.force = save.request.label]
<1>2. save' = [save EXCEPT !.phase = "done", !.reply = answer] BY DEF QueueForced
<1> HIDE DEF answer
<1>3. IsSave' /\ save'.phase # "read" BY <1>1, <1>2 DEF IsSave
<1> QED BY <1>1, <1>3 DEF Faithful, IsRow, Same

LEMMA SendFaithful == ASSUME Faithful, NEW request, Send(request) PROVE Faithful'
<1>1. row' = row /\ work' = work BY DEF Send, server
<1>2. IsSave' /\ save'.phase # "read" BY DEF Send, IsSave
<1> QED BY <1>1, <1>2 DEF Faithful, IsRow, Same

LEMMA CompleteFaithful == ASSUME Faithful, NEW class, NEW schema, Complete(class, schema) PROVE Faithful'
<1>1. row' = row /\ save' = save BY DEF Complete
<1>2. Same(Completed(row, class, schema), row, Decisions) BY CompletedKeeps DEF Faithful
<1> DEFINE new == Completed(row, class, schema)
<1> HIDE DEF new
<1>3. work' = [seen |-> row, new |-> new] BY DEF Complete, new
<1>4. (Same(work.new, work.seen, Decisions))' BY <1>2, <1>3 DEF Same, new, Decisions
<1> QED BY <1>1, <1>4 DEF Faithful, IsSave, IsRow

LEMMA CommitCompletionFaithful == ASSUME Faithful, CommitCompletion PROVE Faithful'
<1>1. row' = Flushed(row, work.seen, work.new) /\ work' = None /\ save' = save BY DEF CommitCompletion
<1>2. IsRow(Flushed(row, work.seen, work.new)) BY FlushIsRow DEF Faithful
<1>3. IsRow(row)' BY <1>1, <1>2 DEF IsRow
<1> QED BY <1>1, <1>3 DEF Faithful, IsSave, IsRow

(* What each step does to the row and the transactions. *)
LEMMA StepKinds ==
  ASSUME [Next]_vars
  PROVE  \/ row' = row /\ work' = work /\ save' = save
         \/ NotSaved /\ row' = row /\ work' = work
         \/ Saved /\ row' = row /\ work' = work
         \/ ReadRow \/ CommitReview \/ QueueForced
         \/ \E request : Send(request)
         \/ \E class, schema \in Label : Complete(class, schema)
         \/ CommitCompletion
<1> DEFINE Kept3 == row' = row /\ work' = work /\ save' = save
<1>1. CASE Reviewer
  <2>1. ASSUME NEW field \in Class, EditField(field) PROVE Kept3 BY <2>1 DEF EditField, server
  <2>2. CASE Discard BY <2>2 DEF Discard, server
  <2>3. CASE Confirm BY <2>3 DEF Confirm
  <2>4. CASE ResetToAi \/ ResetClass \/ ResetData \/ DismissClass \/ DismissData
    BY <2>4 DEF ResetToAi, ResetClass, ResetData, DismissClass, DismissData, Ask
  <2>5. ASSUME NEW label \in Class, ChangeClass(label) PROVE \E request : Send(request)
    BY <2>5 DEF ChangeClass
  <2>6. ASSUME NEW whole \in BOOLEAN, Process(whole) PROVE Kept3 BY <2>6 DEF Process, server
  <2> QED BY <1>1, <2>1, <2>2, <2>3, <2>4, <2>5, <2>6 DEF Reviewer
<1>2. CASE ChangeCatalog BY <1>2 DEF ChangeCatalog
<1>3. CASE Backend
  <2>1. CASE QueueProcess BY <2>1 DEF QueueProcess, Enqueue
  <2>2. CASE FailTask \/ FailStaleTask BY <2>2 DEF FailTask, FailStaleTask
  <2> QED BY <1>3, <2>1, <2>2 DEF Backend, Worker
<1>4. CASE Answers
  <2>1. CASE Notified BY <2>1 DEF Notified
  <2>2. CASE Saved BY <2>2 DEF Saved, server
  <2>3. CASE NotSaved BY <2>3 DEF NotSaved, server
  <2>4. CASE Started BY <2>4 DEF Started, server
  <2>5. CASE NotStarted BY <2>5 DEF NotStarted, server
  <2>6. CASE FetchedByPath BY <2>6 DEF FetchedByPath, server
  <2>7. CASE FetchedById BY <2>7 DEF FetchedById, server
  <2> QED BY <1>4, <2>1, <2>2, <2>3, <2>4, <2>5, <2>6, <2>7 DEF Answers
<1>5. CASE Fetches BY <1>5 DEF Fetches, Poll, ReadByPath, ReadById, server
<1>6. CASE UNCHANGED vars BY <1>6 DEF vars, server
<1> QED BY <1>1, <1>2, <1>3, <1>4, <1>5, <1>6 DEF Next

LEMMA NextFaithful == Faithful /\ [Next]_vars => Faithful'
<1> SUFFICES ASSUME Faithful, [Next]_vars PROVE Faithful' OBVIOUS
<1>1. CASE row' = row /\ work' = work /\ save' = save BY <1>1, KeptFaithful
<1>2. CASE NotSaved /\ row' = row /\ work' = work BY <1>2, KeptFaithful DEF NotSaved
<1>3. CASE Saved /\ row' = row /\ work' = work BY <1>3, KeptFaithful DEF Saved
<1>4. CASE ReadRow BY <1>4, ReadRowFaithful
<1>5. CASE CommitReview BY <1>5, CommitReviewFaithful
<1>6. CASE QueueForced BY <1>6, QueueForcedFaithful
<1>7. CASE \E request : Send(request) BY <1>7, SendFaithful
<1>8. CASE \E class, schema \in Label : Complete(class, schema) BY <1>8, CompleteFaithful
<1>9. CASE CommitCompletion BY <1>9, CommitCompletionFaithful
<1> QED BY <1>1, <1>2, <1>3, <1>4, <1>5, <1>6, <1>7, <1>8, <1>9, StepKinds

----------------------------------------------------------------------------
(* What the invariant gives: the two kinds of commit. *)

LEMMA CompletionKeepsDecisions ==
  ASSUME Faithful, CommitCompletion PROVE Kept(Decisions)
<1>1. Decisions \in SUBSET Columns BY DEF Decisions, Columns
<1>2. IsRow(row) /\ Same(work.new, work.seen, Decisions) BY DEF Faithful, CommitCompletion
<1>3. Same(Flushed(row, work.seen, work.new), row, Decisions) BY <1>1, <1>2, FlushKeeps
<1>4. row' = Flushed(row, work.seen, work.new) BY DEF CommitCompletion
<1> QED BY <1>3, <1>4 DEF Kept, Same

LEMMA ReviewKeepsResults ==
  ASSUME Faithful, CommitReview, save.request.kind # "change_class" PROVE Kept(Results)
<1>1. Results \in SUBSET Columns BY DEF Results, Columns
<1>2. IsRow(row) /\ IsRow(save.seen) BY DEF Faithful, CommitReview
<1> DEFINE new == Reviewed(save.seen, save.request)
<1>3. Same(new, save.seen, Results) BY <1>2, ReviewedKeeps
<1> HIDE DEF new
<1>4. Same(Flushed(row, save.seen, new), row, Results) BY <1>1, <1>2, <1>3, FlushKeeps
<1>5. row' = Flushed(row, save.seen, new) BY DEF CommitReview, new
<1> QED BY <1>4, <1>5 DEF Kept, Same

(* A commit is the only step that ends a completion, and the only one that *)
(* a review which has read the row takes.                                  *)
LEMMA StepUndoesNothing ==
  ASSUME Faithful, [Next]_vars
  PROVE  /\ work # None /\ work' = None => Kept(Decisions)
         /\ save # None /\ save.phase = "read" /\ save' # save /\ save.request.kind # "change_class"
              => Kept(Results)
<1>1. CASE row' = row /\ work' = work /\ save' = save BY <1>1 DEF Kept
<1>2. CASE NotSaved /\ row' = row /\ work' = work BY <1>2 DEF Kept
<1>3. CASE Saved /\ row' = row /\ work' = work BY <1>3 DEF Kept
<1>4. CASE ReadRow BY <1>4 DEF ReadRow, server
<1>5. CASE CommitReview BY <1>5, ReviewKeepsResults DEF CommitReview
<1>6. CASE QueueForced BY <1>6 DEF QueueForced, Enqueue
<1>7. CASE \E request : Send(request) BY <1>7 DEF Send, server
<1>8. CASE \E class, schema \in Label : Complete(class, schema) BY <1>8 DEF Complete
<1>9. CASE CommitCompletion BY <1>9, CompletionKeepsDecisions DEF CommitCompletion
<1> QED BY <1>1, <1>2, <1>3, <1>4, <1>5, <1>6, <1>7, <1>8, <1>9, StepKinds

(* A completion leaves what a reviewer decided, and a review what a worker *)
(* found, in every behaviour: for any catalog, any number of requests,     *)
(* corrections and versions of the catalog.                                *)
THEOREM NothingIsUndone == Spec => NothingUndone
<1> DEFINE Step ==
      /\ work # None /\ work' = None => Kept(Decisions)
      /\ save # None /\ save.phase = "read" /\ save' # save /\ save.request.kind # "change_class"
           => Kept(Results)
<1>1. Init => Faithful BY InitFaithful
<1>2. Faithful /\ [Next]_vars => Faithful' BY NextFaithful
<1>3. Faithful /\ [Next]_vars => [Step]_vars BY StepUndoesNothing
<1>4. Spec => [][Step]_vars BY <1>1, <1>2, <1>3, PTL DEF Spec
<1> QED BY <1>4 DEF NothingUndone

----------------------------------------------------------------------------
(***************************************************************************)
(* Type correctness.  Beyond TypeOK, the inductive invariant says what the *)
(* requests hold besides their phase.                                      *)
(***************************************************************************)
ItemType ==
  /\ row \in Row
  /\ status \in Statuses /\ force \in Label /\ config \in 1..MaxConfig
  /\ notice \in BOOLEAN /\ work \in [seen : Row, new : Row] \cup {None}
  /\ file \in Snapshot /\ reprocessing \in BOOLEAN /\ draft \in [base : Edit, edit : Edit]

SaveType ==
  save # None =>
    /\ save \in Saving
    /\ save.seen # None <=> save.phase = "read"
    /\ save.reply # None <=> save.phase = "done"

StartType ==
  start # None => /\ start = [whole |-> start.whole, phase |-> start.phase]
                  /\ start.whole \in BOOLEAN /\ start.phase \in {"sent", "queued"}

FetchType ==
  /\ byPath \in Snapshot \cup {None, Asked}
  /\ byId = [fetch |-> byId.fetch, data |-> byId.data]
  /\ byId.fetch \in Snapshot \cup {None, Asked} /\ byId.data \in Snapshot

TypeInv == ItemType /\ SaveType /\ StartType /\ FetchType

LEMMA TypeInvImplies == TypeInv => TypeOK
  BY DEF TypeInv, TypeOK, ItemType, SaveType, StartType, FetchType

LEMMA DataIs ==
  \A d : d \in Data <=> DOMAIN d \in SUBSET Class /\ d \in [DOMAIN d -> Values]
  BY DEF Data

LEMMA SmallData ==
  /\ NoData \in Data
  /\ \A c \in Class : /\ Extracted(c) \in Data /\ [field \in {c} |-> Blank] \in Data
                      /\ [field \in {c} |-> Edited] \in Data
<1>1. NoData \in Data
  <2>1. DOMAIN NoData = {} /\ NoData \in [{} -> Values] BY DEF NoData
  <2> QED BY <2>1, DataIs
<1>2. ASSUME NEW c \in Class
      PROVE  Extracted(c) \in Data /\ [field \in {c} |-> Blank] \in Data
             /\ [field \in {c} |-> Edited] \in Data
  <2>1. \A v \in Values : [field \in {c} |-> v] \in Data
    BY DataIs
  <2> QED BY <2>1 DEF Extracted, Values
<1> QED BY <1>1, <1>2

LEMMA MergedData ==
  ASSUME NEW a \in Data, NEW b \in Data PROVE Merged(a, b) \in Data
<1>1. /\ DOMAIN a \in SUBSET Class /\ a \in [DOMAIN a -> Values]
      /\ DOMAIN b \in SUBSET Class /\ b \in [DOMAIN b -> Values]
  BY DataIs
<1>2. DOMAIN Merged(a, b) = DOMAIN a \cup DOMAIN b BY DEF Merged
<1>3. Merged(a, b) \in [DOMAIN a \cup DOMAIN b -> Values] BY <1>1 DEF Merged
<1> QED BY <1>1, <1>2, <1>3, DataIs

LEMMA RowIsRow == \A r \in Row : IsRow(r)
  BY DEF Row, IsRow, Columns

(* The operations on a row give rows. *)
LEMMA CompletedType ==
  ASSUME ConstantsAssumption, NEW r \in Row, config \in 1..MaxConfig,
         NEW class \in Label, NEW schema \in Label
  PROVE  Completed(r, class, schema) \in Row
<1> DEFINE c == Classified(r, class)
<1>1. c \in Row BY DEF Classified, Row
<1> HIDE DEF c
<1>2. CASE Trusted(c, schema)
  <2>1. schema \in Class BY <1>2 DEF Trusted, Label
  <2> DEFINE data == Extracted(schema)
             merged == Merged(Extracted(schema), First(r.data_override, NoData))
             x == [c EXCEPT !.data_class = schema, !.data_system = data,
                            !.data_print = config, !.data_schema = schema,
                            !.data_effective = merged]
  <2>2. data \in Data BY <2>1, SmallData
  <2>3. First(r.data_override, NoData) \in Data BY SmallData DEF Row, First
  <2>4. merged \in Data BY <2>2, <2>3, MergedData
  <2> HIDE DEF data, merged
  <2>5. x \in Row BY <1>1, <2>2, <2>4 DEF Row
  <2>6. Completed(r, class, schema) = [x EXCEPT !.data_effective_class = EffectiveClass(x)]
    BY <1>2 DEF Completed, c, data, merged
  <2> HIDE DEF x
  <2>7. EffectiveClass(x) \in Label BY <2>5 DEF Row, EffectiveClass, First
  <2> QED BY <2>5, <2>6, <2>7 DEF Row
<1>3. CASE ~Trusted(c, schema)
  <2>1. [c EXCEPT !.data_class = None, !.data_system = NoData, !.data_print = config,
                  !.data_schema = None, !.data_effective = NoData,
                  !.data_effective_class = None] \in Row
    BY <1>1, SmallData DEF Row, Label
  <2> QED BY <1>3, <2>1 DEF Completed, c
<1> QED BY <1>2, <1>3

LEMMA DropsType ==
  ASSUME NEW r \in Row, NEW mark \in Mark
  PROVE  DropClass(r, mark) \in Row /\ DropData(r, mark) \in Row
<1>1. DropClass(r, mark) \in Row BY DEF Row, Label, DropClass
<1>2. [r EXCEPT !.data_override = None, !.data_override_class = None, !.data_effective = NoData,
                !.data_effective_class = None] \in Row
  BY SmallData DEF Row, Label
<1>3. DropData(r, mark) \in Row BY SmallData, <1>2 DEF Row, Label, DropData
<1> QED BY <1>1, <1>3

LEMMA LabelSubmittedType ==
  ASSUME NEW r \in Row, NEW label \in Label
  PROVE  LabelSubmitted(r, label) \in Row
<1>1. ASSUME NEW override \in Label, NEW mark \in Mark
      PROVE  [r EXCEPT !.class_override = override, !.class_effective = label,
                       !.class_review = mark] \in Row
  BY DEF Row
<1>2. None \in Label /\ "accepted" \in Mark /\ "corrected" \in Mark BY DEF Label, Mark
<1> QED BY <1>1, <1>2 DEF LabelSubmitted

LEMMA DataSubmittedType ==
  ASSUME NEW r \in Row, NEW data \in Data
  PROVE  DataSubmitted(r, data) \in Row
<1> DEFINE new == IF r.data_review = "corrected" /\ data = r.data_effective THEN r
                  ELSE IF data = r.data_system
                  THEN [r EXCEPT !.data_override = None, !.data_override_class = None,
                                 !.data_effective = data, !.data_review = "accepted"]
                  ELSE [r EXCEPT !.data_override = data, !.data_override_class = r.class_effective,
                                 !.data_effective = data, !.data_review = "corrected"]
<1>0. ASSUME NEW override \in Data \cup {None}, NEW class \in Label, NEW mark \in Mark
      PROVE  [r EXCEPT !.data_override = override, !.data_override_class = class,
                       !.data_effective = data, !.data_review = mark] \in Row
  BY DEF Row
<1>1. new \in Row
  <2>1. None \in Label /\ "accepted" \in Mark /\ "corrected" \in Mark BY DEF Label, Mark
  <2>2. r.class_effective \in Label BY DEF Row
  <2> QED BY <1>0, <2>1, <2>2
<1>2. DataSubmitted(r, data) = [new EXCEPT !.data_effective_class = EffectiveClass(new)]
  BY DEF DataSubmitted
<1> HIDE DEF new
<1>3. EffectiveClass(new) \in Label BY <1>1 DEF Row, EffectiveClass, First
<1> QED BY <1>1, <1>2, <1>3 DEF Row

LEMMA ClassChangedType ==
  ASSUME NEW r \in Row, NEW label \in Label
  PROVE  ClassChanged(r, label) \in Row
<1> DEFINE c == [r EXCEPT !.class_override = label, !.class_effective = label, !.class_review = None]
<1>1. c \in Row BY DEF Row, Mark
<1> HIDE DEF c
<1>2. DropData(c, None) \in Row BY <1>1, DropsType DEF Mark
<1>3. [DropData(c, None) EXCEPT !.data_class = None, !.data_system = NoData,
                                !.data_print = None] \in Row
  BY <1>2, SmallData DEF Row, Label
<1> QED BY <1>1, <1>3 DEF ClassChanged, c

LEMMA ReviewedType ==
  ASSUME NEW r \in Row, NEW request \in Request
  PROVE  Reviewed(r, request) \in Row
<1>1. Labelled(r, request) \in Row BY LabelSubmittedType DEF Labelled, Request
<1>2. /\ DropClass(r, None) \in Row /\ DropClass(r, "dismissed") \in Row
      /\ DropData(r, None) \in Row /\ DropData(r, "dismissed") \in Row
  BY DropsType DEF Mark
<1>3. /\ DropData(DropClass(r, None), None) \in Row
      /\ DropData(DropClass(r, "dismissed"), "dismissed") \in Row
  BY <1>2, DropsType DEF Mark
<1>4. ClassChanged(r, request.label) \in Row BY ClassChangedType DEF Request
<1>5. request.data # None => DataSubmitted(Labelled(r, request), request.data) \in Row
  BY <1>1, DataSubmittedType DEF Request
<1>6. request.kind \in {"submit", "reset_class", "reset_data", "dismiss_class", "dismiss_data",
                        "change_class"}
  BY DEF Request
<1> QED BY <1>1, <1>2, <1>3, <1>4, <1>5, <1>6 DEF Reviewed

LEMMA FlushedType ==
  ASSUME NEW now \in Row, NEW seen \in Row, NEW new \in Row
  PROVE  Flushed(now, seen, new) \in Row
<1>1. DOMAIN now = Columns BY DEF Row, Columns
<1>2. Flushed(now, seen, new) =
        [column \in Columns |-> IF new[column] # seen[column] THEN new[column] ELSE now[column]]
  BY <1>1 DEF Flushed
<1> DEFINE f == Flushed(now, seen, new)
<1>3. \A column \in Columns : f[column] \in {new[column], now[column]} BY <1>2
<1>4. f = [column \in Columns |-> f[column]] BY <1>2
<1> HIDE DEF f
<1>5. f \in Row BY <1>3, <1>4 DEF Row, Columns
<1> QED BY <1>5 DEF f

(* What the page shows. *)
LEMMA ShownType ==
  ASSUME TypeOK
  PROVE  /\ Base \in Edit /\ Draft \in Edit /\ Fallback \in Data \cup {None}
         /\ Displayed \in Data \cup {None} /\ Submission \in Request
<1>1. file.row \in Row BY DEF TypeOK, Snapshot
<1>2. BaseData \in Data \cup {None} BY <1>1 DEF BaseData, Row
<1>3. Base \in Edit BY <1>1, <1>2 DEF Base, Edit, Row
<1>4. Draft \in Edit BY <1>3 DEF Draft, TypeOK
<1>5. Fallback \in Data \cup {None}
  <2>1. First(Draft.label, IF HasData THEN file.row.data_schema ELSE None) \in Label
    BY <1>1, <1>4 DEF First, Edit, Row, Label
  <2> QED BY <2>1, SmallData DEF Fallback, Label
<1>6. Displayed \in Data \cup {None}
  <2> DEFINE current == First(Draft.data, BaseData)
  <2>1. current \in Data \cup {None} BY <1>2, <1>4 DEF First, Edit
  <2>2. First(current, NoData) \in Data BY <2>1, SmallData DEF First
  <2>3. Fallback # None => Merged(Fallback, First(current, NoData)) \in Data
    BY <1>5, <2>2, MergedData
  <2> QED BY <2>1, <2>3 DEF Displayed
<1>7. Submission \in Request
  <2>1. First(Draft.data, Displayed) \in Data \cup {None} BY <1>4, <1>6 DEF First, Edit
  <2> QED BY <1>4, <2>1 DEF Submission, Request, Edit
<1> QED BY <1>3, <1>4, <1>5, <1>6, <1>7

LEMMA CurrentType == ASSUME TypeOK PROVE Current \in Snapshot
  BY DEF TypeOK, Current, Snapshot

LEMMA InitType == Init => TypeInv
<1> SUFFICES ASSUME Init PROVE TypeInv OBVIOUS
<1>0. Found \in Label /\ MaxConfig \in Nat \ {0} /\ None \in Label BY ConstantsAssumption DEF Label
<1>1. config \in 1..MaxConfig BY <1>0 DEF Init
<1>2. Blanks \in Row
  <2>1. 1 \in 1..MaxConfig BY <1>0
  <2> QED BY <1>0, <2>1, SmallData DEF Blanks, Row, Mark
<1>3. Completed(Blanks, Found, Found) \in Row BY <1>0, <1>1, <1>2, CompletedType, ConstantsAssumption
<1>4. Correction \in Request
  <2>1. [field \in {Found} |-> Edited] \in Data BY ConstantsAssumption, SmallData
  <2> QED BY <1>0, <2>1 DEF Correction, Request
<1>5. Reviewed(Completed(Blanks, Found, Found), Correction) \in Row BY <1>3, <1>4, ReviewedType
<1>6. row \in Row BY <1>3, <1>5 DEF Init
<1>7. status \in Statuses /\ force \in Label BY <1>0 DEF Init, Statuses
<1>8. Current \in Snapshot BY <1>1, <1>6, <1>7 DEF Current, Snapshot
<1>9. file \in Snapshot BY <1>8 DEF Init
<1>10. Base \in Edit
  <2>1. file.row \in Row BY <1>9 DEF Snapshot
  <2>2. BaseData \in Data \cup {None} BY <2>1 DEF BaseData, Row
  <2> QED BY <2>1, <2>2 DEF Base, Edit, Row
<1>11. draft \in [base : Edit, edit : Edit] BY <1>10 DEF Init
<1>12. ItemType
  BY <1>1, <1>6, <1>7, <1>9, <1>11 DEF Init, ItemType
<1>13. SaveType /\ StartType BY DEF Init, SaveType, StartType
<1>14. FetchType BY <1>8 DEF Init, FetchType
<1> QED BY <1>12, <1>13, <1>14 DEF TypeInv

LEMMA SendType ==
  ASSUME NEW request \in Request, Send(request)
  PROVE  SaveType'
<1>1. save' = [request |-> request, phase |-> "sent", seen |-> None, reply |-> None] BY DEF Send
<1> QED BY <1>1 DEF SaveType, Saving

LEMMA ReviewerType == ASSUME TypeInv, Reviewer PROVE TypeInv'
<1> USE DEF TypeInv
<1>0. /\ ItemType
      /\ SaveType /\ StartType /\ FetchType /\ TypeOK
  BY TypeInvImplies
<1>1. /\ Base \in Edit /\ Draft \in Edit /\ Fallback \in Data \cup {None}
      /\ Displayed \in Data \cup {None} /\ Submission \in Request
  BY <1>0, ShownType
<1>2. \A edit \in Edit : NewEdit(edit) => draft' \in [base : Edit, edit : Edit]
  BY <1>1 DEF NewEdit
<1>3. None \in Label /\ Class \subseteq Label BY DEF Label
<1>4. /\ (save' = save => SaveType') /\ (start' = start => StartType')
      /\ (UNCHANGED <<byPath, byId>> => FetchType')
  <2>1. save' = save => SaveType' BY <1>0 DEF SaveType, Saving
  <2>2. start' = start => StartType' BY <1>0 DEF StartType
  <2>3. UNCHANGED <<byPath, byId>> => FetchType' BY <1>0 DEF FetchType
  <2> QED BY <2>1, <2>2, <2>3
<1>5. UNCHANGED <<server, file>> /\ reprocessing' \in BOOLEAN /\ draft' \in [base : Edit, edit : Edit]
        => ItemType'
  BY <1>0 DEF ItemType, server
<1>6. draft' = draft => draft' \in [base : Edit, edit : Edit] BY <1>0 DEF ItemType
<1>7. reprocessing \in BOOLEAN BY <1>0 DEF ItemType
<1>8. ASSUME NEW request \in Request, Send(request), draft' \in [base : Edit, edit : Edit]
      PROVE  TypeInv'
  <2>1. SaveType' BY <1>8, SendType
  <2>2. UNCHANGED <<server, file, reprocessing, byPath, byId, start>> BY <1>8 DEF Send
  <2> QED BY <1>4, <1>5, <1>7, <1>8, <2>1, <2>2
<1>9. ASSUME NEW kind \in {"submit", "reset_class", "reset_data", "dismiss_class", "dismiss_data",
                            "change_class"},
             NEW data \in Data \cup {None}, Ask(kind, None, data)
      PROVE  TypeInv'
  <2>1. [kind |-> kind, label |-> None, data |-> data] \in Request BY <1>3 DEF Request
  <2> QED BY <1>6, <1>8, <1>9, <2>1 DEF Ask
<1>10. ASSUME NEW field \in Class, EditField(field) PROVE TypeInv'
  <2> DEFINE under == First(Draft.data, First(Fallback, NoData))
             data == Merged(under, [f \in {field} |-> Edited])
             edit == [Draft EXCEPT !.data = data]
  <2>1. under \in Data BY <1>1, SmallData DEF First, Edit
  <2>2. data \in Data BY <2>1, SmallData, MergedData
  <2>3. NewEdit(edit) BY <1>10 DEF EditField
  <2> HIDE DEF data
  <2>4. edit \in Edit BY <1>1, <2>2 DEF Edit
  <2>5. draft' \in [base : Edit, edit : Edit] BY <1>2, <2>3, <2>4
  <2>6. UNCHANGED <<server, file, reprocessing, byPath, byId, save, start>> BY <1>10 DEF EditField
  <2> QED BY <1>4, <1>5, <1>7, <2>5, <2>6
<1>11. CASE Discard
  <2>1. draft' \in [base : Edit, edit : Edit] BY <1>1, <1>2, <1>11 DEF Discard
  <2>2. UNCHANGED <<server, file, reprocessing, byPath, byId, save, start>> BY <1>11 DEF Discard
  <2> QED BY <1>4, <1>5, <1>7, <2>1, <2>2
<1>12. CASE Confirm BY <1>1, <1>6, <1>8, <1>12 DEF Confirm
<1>13. CASE ResetToAi
  <2>1. file.row.data_system \in Data BY <1>0 DEF ItemType, Snapshot, Row
  <2> QED BY <1>9, <1>13, <2>1 DEF ResetToAi
<1>14. CASE ResetClass \/ ResetData \/ DismissClass \/ DismissData
  BY <1>9, <1>14 DEF ResetClass, ResetData, DismissClass, DismissData
<1>15. ASSUME NEW label \in Class, ChangeClass(label) PROVE TypeInv'
  <2>1. [kind |-> "change_class", label |-> label, data |-> None] \in Request BY <1>3 DEF Request
  <2>2. [label |-> label, data |-> None] \in Edit BY <1>3 DEF Edit
  <2>3. draft' \in [base : Edit, edit : Edit] BY <1>2, <1>15, <2>2 DEF ChangeClass
  <2> QED BY <1>8, <1>15, <2>1, <2>3 DEF ChangeClass
<1>16. ASSUME NEW whole \in BOOLEAN, Process(whole) PROVE TypeInv'
  <2>1. StartType' BY <1>16 DEF Process, StartType
  <2>2. UNCHANGED <<server, file, draft, byPath, byId, save>> /\ reprocessing' \in BOOLEAN
    BY <1>16 DEF Process
  <2> QED BY <1>4, <1>5, <1>6, <2>1, <2>2
<1> QED BY <1>10, <1>11, <1>12, <1>13, <1>14, <1>15, <1>16 DEF Reviewer

(* A request that has changed the row is a request still. *)
LEMMA CommittedSave == ASSUME TypeInv, CommitReview \/ QueueForced PROVE save' \in Saving /\ save' # None
<1>1. ItemType /\ SaveType /\ TypeOK BY TypeInvImplies DEF TypeInv
<1>2. Current \in Snapshot BY <1>1, CurrentType
<1>3. save \in Saving BY <1>1 DEF SaveType, CommitReview, QueueForced
<1>4. CASE CommitReview
  <2> DEFINE committed == Flushed(row, save.seen, Reviewed(save.seen, save.request))
  <2>1. row \in Row /\ save.seen \in Row /\ save.request \in Request
    BY <1>1, <1>3, <1>4 DEF CommitReview, ItemType, SaveType, Saving
  <2>2. committed \in Row BY <2>1, ReviewedType, FlushedType
  <2> HIDE DEF committed
  <2> DEFINE answer == [Current EXCEPT !.row = committed]
  <2>3. answer \in Snapshot BY <1>2, <2>2 DEF Snapshot
  <2>4. \/ save' = [save EXCEPT !.phase = "queue", !.seen = None]
        \/ save' = [save EXCEPT !.phase = "done", !.seen = None, !.reply = answer]
    BY <1>4 DEF CommitReview, committed
  <2> HIDE DEF answer
  <2>5. save' \in Saving BY <1>3, <2>3, <2>4 DEF Saving
  <2> QED BY <2>5, NoneAssumption
<1>5. CASE QueueForced
  <2> DEFINE answer == [Current EXCEPT !.status = "QUEUED", !.force = save.request.label]
  <2>1. save.request.label \in Label BY <1>3 DEF Saving, Request
  <2>2. answer \in Snapshot BY <1>2, <2>1 DEF Snapshot, Statuses
  <2>3. save' = [save EXCEPT !.phase = "done", !.reply = answer] BY <1>5 DEF QueueForced
  <2> HIDE DEF answer
  <2>4. save' \in Saving BY <1>3, <2>2, <2>3 DEF Saving
  <2> QED BY <2>4, NoneAssumption
<1> QED BY <1>4, <1>5

LEMMA BackendType == ASSUME TypeInv, Backend \/ ChangeCatalog PROVE TypeInv'
<1> USE DEF TypeInv
<1>0. /\ ItemType
      /\ SaveType /\ StartType /\ FetchType /\ TypeOK /\ config \in 1..MaxConfig
  BY TypeInvImplies DEF TypeOK
<1>1. Current \in Snapshot BY <1>0, CurrentType
<1>2. None \in Label /\ Class \subseteq Label BY DEF Label
<1>3. /\ (save' = save => SaveType') /\ (start' = start => StartType')
      /\ (UNCHANGED page => FetchType')
  <2>1. save' = save => SaveType' BY <1>0 DEF SaveType, Saving
  <2>2. start' = start => StartType' BY <1>0 DEF StartType
  <2>3. UNCHANGED page => FetchType' BY <1>0 DEF FetchType, page
  <2> QED BY <2>1, <2>2, <2>3
<1>4. UNCHANGED <<server, page>>
        => ItemType'
  BY <1>0 DEF ItemType, server, page
<1>5. CASE ChangeCatalog
  <2>1. config' \in 1..MaxConfig BY <1>0, <1>5, ConstantsAssumption DEF ChangeCatalog
  <2>2. UNCHANGED <<row, status, force, work, notice, page, save, start>> BY <1>5 DEF ChangeCatalog
  <2>3. ItemType'
    BY <1>0, <2>1, <2>2 DEF ItemType, page
  <2> QED BY <1>3, <2>2, <2>3
<1>6. CASE ReadRow
  <2>1. row \in Row /\ row # None BY <1>0, NoneAssumption DEF ItemType
  <2>2. SaveType' BY <1>0, <1>6, <2>1 DEF ReadRow, SaveType, Saving
  <2>3. UNCHANGED <<server, page, start>> BY <1>6 DEF ReadRow
  <2> QED BY <1>3, <1>4, <2>2, <2>3
<1>7. CASE CommitReview
  <2> DEFINE committed == Flushed(row, save.seen, Reviewed(save.seen, save.request))
  <2>1. row \in Row /\ save.seen \in Row /\ save.request \in Request /\ save \in Saving
    BY <1>0, <1>7 DEF CommitReview, ItemType, SaveType, Saving
  <2>2. committed \in Row BY <2>1, ReviewedType, FlushedType
  <2> HIDE DEF committed
  <2> DEFINE answer == [Current EXCEPT !.row = committed]
  <2>3. answer \in Snapshot BY <1>1, <2>2 DEF Snapshot
  <2>4. answer # None BY <2>3, NoneAssumption
  <2>5. row' = committed
        /\ save' = IF save.request.kind = "change_class"
                   THEN [save EXCEPT !.phase = "queue", !.seen = None]
                   ELSE [save EXCEPT !.phase = "done", !.seen = None, !.reply = answer]
    BY <1>7 DEF CommitReview, committed
  <2> HIDE DEF answer
  <2>6. SaveType'
    <3>1. CASE save' = [save EXCEPT !.phase = "queue", !.seen = None]
      BY <1>0, <1>7, <3>1 DEF SaveType, Saving, CommitReview
    <3>2. CASE save' = [save EXCEPT !.phase = "done", !.seen = None, !.reply = answer]
      BY <1>0, <1>7, <2>3, <2>4, <3>2 DEF SaveType, Saving, CommitReview
    <3> QED BY <2>5, <3>1, <3>2
  <2>7. UNCHANGED <<status, force, config, work, notice, page, start>> BY <1>7 DEF CommitReview
  <2>8. ItemType'
    BY <1>0, <2>2, <2>5, <2>7 DEF ItemType, page
  <2> QED BY <1>3, <2>6, <2>7, <2>8
<1>8. ASSUME NEW class \in Label, Enqueue(class), UNCHANGED page
      PROVE  ItemType'
  BY <1>0, <1>8 DEF ItemType, Enqueue, page, Statuses
<1>9. CASE QueueForced
  <2> DEFINE answer == [Current EXCEPT !.status = "QUEUED", !.force = save.request.label]
  <2>1. save # None /\ save.phase = "queue" /\ save \in Saving /\ save.request.label \in Label
    BY <1>0, <1>9 DEF QueueForced, SaveType, Saving, Request
  <2>2. answer \in Snapshot BY <1>1, <2>1 DEF Snapshot, Statuses
  <2>3. answer # None BY <2>2, NoneAssumption
  <2>4. save' = [save EXCEPT !.phase = "done", !.reply = answer] BY <1>9 DEF QueueForced
  <2> HIDE DEF answer
  <2>5. SaveType' BY <1>0, <2>1, <2>2, <2>3, <2>4 DEF SaveType, Saving
  <2>6. Enqueue(save.request.label) /\ UNCHANGED <<page, start>> BY <1>9 DEF QueueForced
  <2>7. ItemType' BY <1>8, <2>1, <2>6
  <2> QED BY <1>3, <2>5, <2>6, <2>7
<1>10. CASE QueueProcess
  <2>1. (IF start.whole THEN None ELSE row.class_override) \in Label
    BY <1>0, <1>2 DEF ItemType, Row
  <2>2. ItemType'
    BY <1>8, <1>10, <2>1 DEF QueueProcess
  <2>3. StartType' BY <1>0, <1>10 DEF QueueProcess, StartType
  <2> QED BY <1>3, <1>10, <2>2, <2>3 DEF QueueProcess
<1>11. ASSUME NEW class \in Label, NEW schema \in Label, Complete(class, schema) PROVE TypeInv'
  <2> DEFINE new == Completed(row, class, schema)
  <2>1. row \in Row /\ new \in Row BY <1>0, CompletedType, ConstantsAssumption DEF ItemType
  <2>2. work' = [seen |-> row, new |-> new] BY <1>11 DEF Complete
  <2> HIDE DEF new
  <2>3. UNCHANGED <<row, status, force, config, notice, page, save, start>> BY <1>11 DEF Complete
  <2>4. ItemType'
    BY <1>0, <2>1, <2>2, <2>3 DEF ItemType, page
  <2> QED BY <1>3, <2>3, <2>4
<1>12. CASE CommitCompletion
  <2>1. row \in Row /\ work.seen \in Row /\ work.new \in Row
    BY <1>0, <1>12 DEF CommitCompletion, ItemType
  <2>2. row' \in Row BY <1>12, <2>1, FlushedType DEF CommitCompletion
  <2>3. ItemType'
    BY <1>0, <1>12, <2>2 DEF ItemType, page, CommitCompletion, Statuses
  <2> QED BY <1>3, <1>12, <2>3 DEF CommitCompletion
<1>13. CASE FailTask \/ FailStaleTask
  <2>1. ItemType'
    BY <1>0, <1>13 DEF ItemType, page, FailTask, FailStaleTask, Statuses
  <2> QED BY <1>3, <1>13, <2>1 DEF FailTask, FailStaleTask
<1> QED BY <1>5, <1>6, <1>7, <1>9, <1>10, <1>11, <1>12, <1>13 DEF Backend, Worker

LEMMA PageType == ASSUME TypeInv, Answers \/ Fetches PROVE TypeInv'
<1> USE DEF TypeInv
<1>0. /\ ItemType
      /\ SaveType /\ StartType /\ FetchType /\ TypeOK
  BY TypeInvImplies
<1>1. Current \in Snapshot BY <1>0, CurrentType
<1>2. /\ (save' \in {save, None} => SaveType') /\ (start' \in {start, None} => StartType')
      /\ (UNCHANGED <<byPath, byId>> => FetchType')
  <2>1. save' \in {save, None} => SaveType' BY <1>0 DEF SaveType, Saving
  <2>2. start' \in {start, None} => StartType' BY <1>0 DEF StartType
  <2>3. UNCHANGED <<byPath, byId>> => FetchType' BY <1>0 DEF FetchType
  <2> QED BY <2>1, <2>2, <2>3
<1>3. UNCHANGED <<row, status, force, config, work, draft>> /\ notice' \in BOOLEAN
      /\ file' \in Snapshot /\ reprocessing' \in BOOLEAN
        => ItemType'
  BY <1>0 DEF ItemType
<1>4. notice \in BOOLEAN /\ file \in Snapshot /\ reprocessing \in BOOLEAN BY <1>0 DEF ItemType
<1>5. Refresh => FetchType' BY <1>0 DEF Refresh, FetchType
<1>6. CASE Notified BY <1>2, <1>3, <1>4, <1>5, <1>6 DEF Notified
<1>7. CASE Saved
  <2>1. save.reply \in Snapshot BY <1>0, <1>7 DEF Saved, SaveType, Saving
  <2>2. FetchType' BY <1>5, <1>7 DEF Saved
  <2> QED BY <1>2, <1>3, <1>4, <1>7, <2>1, <2>2 DEF Saved, server
<1>8. CASE NotSaved
  <2>1. UNCHANGED <<server, page, start>> /\ save' = None BY <1>8 DEF NotSaved
  <2> QED BY <1>2, <1>3, <1>4, <2>1 DEF server, page
<1>9. CASE Started
  <2>1. FetchType' BY <1>0, <1>9 DEF Started, FetchType
  <2> QED BY <1>2, <1>3, <1>4, <1>9, <2>1 DEF Started, server
<1>10. CASE NotStarted BY <1>2, <1>3, <1>4, <1>10 DEF NotStarted, server
<1>11. CASE FetchedByPath
  <2>1. byPath \in Snapshot BY <1>0, <1>11 DEF FetchedByPath, FetchType
  <2>2. FetchType' BY <1>0, <1>11 DEF FetchedByPath, FetchType
  <2> QED BY <1>2, <1>3, <1>4, <1>11, <2>1, <2>2 DEF FetchedByPath, server
<1>12. CASE FetchedById
  <2>1. byId.fetch \in Snapshot BY <1>0, <1>12 DEF FetchedById, FetchType
  <2>2. FetchType' BY <1>0, <1>12, <2>1 DEF FetchedById, FetchType
  <2>3. file' \in Snapshot /\ reprocessing' \in BOOLEAN BY <1>4, <1>12, <2>1 DEF FetchedById
  <2> QED BY <1>2, <1>3, <1>4, <1>12, <2>2, <2>3 DEF FetchedById, server
<1>13. CASE Fetches
  <2>1. FetchType' BY <1>0, <1>1, <1>13 DEF Fetches, Poll, ReadByPath, ReadById, FetchType
  <2>2. UNCHANGED <<server, file, reprocessing, draft, save, start>>
    BY <1>13 DEF Fetches, Poll, ReadByPath, ReadById
  <2> QED BY <1>2, <1>3, <1>4, <2>1, <2>2 DEF server
<1> QED BY <1>6, <1>7, <1>8, <1>9, <1>10, <1>11, <1>12, <1>13 DEF Answers

LEMMA NextType == TypeInv /\ [Next]_vars => TypeInv'
<1> SUFFICES ASSUME TypeInv, [Next]_vars PROVE TypeInv' OBVIOUS
<1>1. CASE UNCHANGED vars
  <2>1. UNCHANGED <<row, status, force, config, work, notice, file, reprocessing, draft, byPath,
                    byId, save, start>>
    BY <1>1 DEF vars, server, page
  <2> QED BY <2>1 DEF TypeInv, ItemType, SaveType, StartType, FetchType
<1> QED BY <1>1, ReviewerType, BackendType, PageType DEF Next

(* The row, the copies of it that are on their way, the edits made on them *)
(* and the requests have their types in every reachable state: a flush     *)
(* that merges two transactions column by column still makes a row.        *)
THEOREM TypeCorrect == Spec => []TypeOK
  BY InitType, NextType, TypeInvImplies, PTL DEF Spec

----------------------------------------------------------------------------
(***************************************************************************)
(* The page after the last commit.  A commit that changes the row leaves   *)
(* an answer or an event on its way to the page, which fetches everything  *)
(* anew when that arrives; so where neither is under way, what was fetched *)
(* was read after the commit.  The same holds of the status, but for the   *)
(* failure that the sweep writes.                                          *)
(***************************************************************************)
Announced == notice \/ (save # None /\ save.phase \in {"queue", "done"})

Told == Announced \/ status \in {"QUEUED", "LAPSED"}

(* A copy of the item that is as new as the last commit that was announced. *)
Fresh(copy) == copy.row = row /\ (Told \/ copy.status = status)

Reads ==
  ~Announced => /\ byPath \in {None, Asked} \/ Fresh(byPath)
                /\ byId.fetch \in {None, Asked} \/ Fresh(byId.fetch)
                /\ byPath = None => Fresh(file)

CurrentInv == TypeInv /\ Reads

LEMMA CurrentStep == ASSUME TypeInv, Reads, TypeInv', [Next]_vars PROVE Reads'
<1>1. SaveType /\ FetchType BY DEF TypeInv
<1>2. Fresh(Current) /\ Current # None
  <2>1. Current \in Snapshot BY TypeInvImplies, CurrentType
  <2> QED BY <2>1, NoneAssumption DEF Fresh, Current
<1>3. CASE Reviewer
  <2>1. UNCHANGED <<server, file, byPath, byId>> /\ (save' = save \/ save = None)
    BY <1>3 DEF Reviewer, EditField, Discard, Confirm, ResetToAi, ResetClass, ResetData, DismissClass,
                DismissData, ChangeClass, Process, Ask, Send
  <2> QED BY <2>1 DEF Reads, Announced, Told, Fresh, server
<1>4. CASE ChangeCatalog
  BY <1>4 DEF ChangeCatalog, Reads, Announced, Told, Fresh, page
<1>5. CASE ReadRow
  <2>1. UNCHANGED <<server, page>> /\ save.phase = "sent" BY <1>5 DEF ReadRow
  <2> QED BY <2>1 DEF Reads, Announced, Told, Fresh, server, page
<1>6. CASE CommitReview \/ QueueForced
  <2>1. save \in Saving BY <1>1, <1>6 DEF CommitReview, QueueForced, SaveType
  <2>2. \E answer : \/ save' = [save EXCEPT !.phase = "queue", !.seen = None]
                    \/ save' = [save EXCEPT !.phase = "done", !.seen = None, !.reply = answer]
                    \/ save' = [save EXCEPT !.phase = "done", !.reply = answer]
    BY <1>6 DEF CommitReview, QueueForced
  <2>3. save'.phase \in {"queue", "done"} BY <2>1, <2>2 DEF Saving
  <2>4. save' # None BY <1>6, CommittedSave
  <2> QED BY <2>3, <2>4 DEF Reads, Announced
<1>7. CASE QueueProcess
  BY <1>7 DEF QueueProcess, Enqueue, Reads, Announced, Told, Fresh, page
<1>8. CASE Worker
  <2>1. CASE CommitCompletion \/ FailTask
    BY <2>1 DEF CommitCompletion, FailTask, Reads, Announced
  <2>2. ASSUME NEW class, NEW schema, Complete(class, schema) PROVE Reads'
    BY <2>2 DEF Complete, Reads, Announced, Told, Fresh, page
  <2> QED BY <1>8, <2>1, <2>2 DEF Worker
<1>8a. CASE FailStaleTask
  BY <1>8a DEF FailStaleTask, Reads, Announced, Told, Fresh, page
<1>9. CASE Refresh
  BY <1>1, <1>9, NoneAssumption DEF FetchType, Refresh, Reads
<1>10. CASE NotSaved
  <2>1. UNCHANGED <<server, page>> /\ save.phase \in {"refused", "sent"} BY <1>10 DEF NotSaved
  <2> QED BY <2>1 DEF Reads, Announced, Told, Fresh, server, page
<1>11. CASE Started
  BY <1>1, <1>11 DEF Started, FetchType, Reads, Announced, Told, Fresh, server
<1>12. CASE NotStarted
  BY <1>12 DEF NotStarted, Reads, Announced, Told, Fresh, server
<1>13. CASE FetchedByPath
  BY <1>13 DEF FetchedByPath, Reads, Announced, Told, Fresh, server
<1>14. CASE FetchedById
  BY <1>1, <1>14 DEF FetchedById, FetchType, Reads, Announced, Told, Fresh, server
<1>15. CASE Poll
  BY <1>15 DEF Poll, Reads, Announced, Told, Fresh, server
<1>16. CASE ReadByPath
  BY <1>2, <1>16 DEF ReadByPath, Reads, Announced, Told, Fresh, server
<1>17. CASE ReadById
  BY <1>1, <1>2, <1>17 DEF ReadById, FetchType, Reads, Announced, Told, Fresh, server
<1>18. CASE UNCHANGED vars
  BY <1>18 DEF vars, server, page, Reads, Announced, Told, Fresh
<1>19. Notified \/ Saved => Refresh BY DEF Notified, Saved
<1> QED BY <1>3, <1>4, <1>5, <1>6, <1>7, <1>8, <1>9, <1>10, <1>11, <1>12, <1>13, <1>14, <1>15, <1>16,
           <1>17, <1>18, <1>19, <1>8a DEF Next, Backend, Answers, Fetches

(* Once nothing is announced, saved or polled, the page shows the row of   *)
(* the backend, and its status unless that is active or the sweep's: no    *)
(* fetch that was answered before the last commit is applied after it.     *)
THEOREM QuietIsCurrent == Spec => []QuietPageIsCurrent
<1>1. Init => CurrentInv
  <2> SUFFICES ASSUME Init PROVE CurrentInv OBVIOUS
  <2>1. TypeInv BY InitType
  <2>2. Reads BY DEF Init, Reads, Fresh, Current
  <2> QED BY <2>1, <2>2 DEF CurrentInv
<1>2. CurrentInv /\ [Next]_vars => CurrentInv'
  BY NextType, CurrentStep DEF CurrentInv
<1>3. CurrentInv => QuietPageIsCurrent
  BY DEF CurrentInv, Reads, Announced, Told, Fresh, QuietPageIsCurrent
<1> QED BY <1>1, <1>2, <1>3, PTL DEF Spec
=============================================================================
