----------------------------- MODULE ContentReview -----------------------------
(***************************************************************************)
(* The enrichment of one content item and its review: the row of           *)
(* content_item_enrichment_states, the requests of a reviewer and the      *)
(* completions of workers that both write it, and the details page on      *)
(* which the reviewer works.                                               *)
(*                                                                         *)
(* A request and a completion each read the row, decide, and commit later. *)
(* No lock and no version is involved, and SQLAlchemy writes the columns   *)
(* whose value the transaction changed, so two that overlap each keep      *)
(* their own.                                                              *)
(*                                                                         *)
(* The page holds a copy of the item that three sources replace: the       *)
(* answer of a request, a query by path that polls while the item is       *)
(* processed, and the query by id of the page around it.  Unsaved edits    *)
(* are kept with the label and data they were made on.                     *)
(*                                                                         *)
(* A class stands for its id, its label and its extraction schema, which   *)
(* has one field, named by the class.  The task queue is module TaskQueue; *)
(* here the item has at most one task that counts.                         *)
(***************************************************************************)
EXTENDS Naturals, FiniteSets

CONSTANTS
  Class,       \* the document classes of the catalog
  Found,       \* the class that the first processing found
  Corrected,   \* whether its extraction has been corrected since
  Ai, Edited, Blank,  \* values of a field: from the model, from the reviewer, none yet
  None,
  Asked,       \* a fetch that the backend has not read for yet
  MaxUser,     \* actions of the reviewer and changes of the catalog
  MaxConfig,   \* versions of the catalog
  MaxFaults    \* requests that fail

ASSUME ConstantsAssumption == Found \in Class /\ MaxConfig \in Nat \ {0}

VARIABLES
  row,        \* the row of content_item_enrichment_states
  status,     \* processing_status; QUEUED stands for the three that are active,
              \* LAPSED for FAILED with the error of the sweep
  force,      \* forced_document_class_label of the item's last processing_config
  config,     \* the fingerprint of the catalog
  work,       \* the transaction of a completion, or None
  notice,     \* the event of a task that ended is on its way to the page
  file,       \* the page's copy of the item
  reprocessing,  \* reprocessingTriggered
  draft,      \* draftState
  byPath,     \* the fetch of the polling query: None, Asked or what it read
  byId,       \* the same of the page's query, with the data it holds
  save,       \* the review or class change that savingEnrichment waits for, or None
  start,      \* the request to process again: None, "sent" or "queued"
  count       \* actions and faults that may still happen

server == <<row, status, force, config, work, notice>>
page == <<file, reprocessing, draft, byPath, byId>>
vars == <<server, page, save, start, count>>

----------------------------------------------------------------------------
(* Extraction data. *)

Label == Class \cup {None}
Values == {Ai, Edited, Blank}
Data == UNION {[fields -> Values] : fields \in SUBSET Class}
NoData == [field \in {} |-> Blank]
Extracted(c) == [field \in {c} |-> Ai]

(* {**under, **over} of Python, {...under, ...over} of JavaScript. *)
Merged(under, over) ==
  [field \in DOMAIN under \cup DOMAIN over |->
     IF field \in DOMAIN over THEN over[field] ELSE under[field]]

First(a, b) == IF a # None THEN a ELSE b

----------------------------------------------------------------------------
(* The row. *)

Mark == {"accepted", "corrected", "dismissed", None}

Row == [class_system : Label, class_override : Label, class_effective : Label,
        class_review : Mark, class_print : 1..MaxConfig,
        data_class : Label, data_system : Data,
        data_override : Data \cup {None}, data_override_class : Label,
        data_effective : Data, data_effective_class : Label, data_schema : Label,
        data_review : Mark, data_print : 1..MaxConfig \cup {None}]

(* A new row. *)
Blanks == [class_system |-> None, class_override |-> None, class_effective |-> None,
           class_review |-> None, class_print |-> 1,
           data_class |-> None, data_system |-> NoData, data_override |-> None,
           data_override_class |-> None, data_effective |-> NoData, data_effective_class |-> None,
           data_schema |-> None, data_review |-> None, data_print |-> None]

(* What a reviewer decides, and a completion reads only. *)
Decisions == {"class_override", "class_review", "data_override", "data_override_class",
              "data_review"}

(* What a worker found, and only a change of class clears. *)
Results == {"class_system", "class_print", "data_class", "data_system", "data_print"}

(* For mutation: a flush of the whole row. *)
FlushedWhole(now, seen, new) == new

(* A flush writes the columns that the transaction changed. *)
Flushed(now, seen, new) ==
  [column \in DOMAIN now |-> IF new[column] # seen[column] THEN new[column] ELSE now[column]]

(* extraction_effective_class of a trusted result. *)
EffectiveClass(r) == First(r.data_override_class, First(r.data_class, r.class_effective))

(* complete_enrichment: class is what the worker found, None if it failed  *)
(* or was told the class; schema is the class it extracted for, None if    *)
(* the extraction failed.                                                  *)
Classified(r, class) ==
  [r EXCEPT !.class_system = class,
            !.class_print = config,
            !.class_effective = IF r.class_override = None THEN class ELSE @]

Trusted(r, schema) == schema # None /\ r.class_effective \in {None, schema}

Completed(r, class, schema) ==
  LET c == Classified(r, class)
      x == [c EXCEPT !.data_class = schema,
                     !.data_system = Extracted(schema),
                     !.data_print = config,
                     !.data_schema = schema,
                     !.data_effective = Merged(Extracted(schema), First(r.data_override, NoData))]
  IN  IF Trusted(c, schema)
      THEN [x EXCEPT !.data_effective_class = EffectiveClass(x)]
      ELSE [c EXCEPT !.data_class = None, !.data_system = NoData, !.data_print = config,
                     !.data_schema = None, !.data_effective = NoData,
                     !.data_effective_class = None]

(* _clear_classification and _dismiss_classification. *)
DropClass(r, mark) ==
  [r EXCEPT !.class_override = None, !.class_effective = None, !.class_review = mark]

(* For mutation: a null in place of the empty data. *)
DropDataNull(r, mark) ==
  [r EXCEPT !.data_override = None, !.data_override_class = None, !.data_effective = None,
            !.data_effective_class = None, !.data_schema = None, !.data_review = mark]

(* _clear_extraction and _dismiss_extraction. *)
DropData(r, mark) ==
  [r EXCEPT !.data_override = None, !.data_override_class = None, !.data_effective = NoData,
            !.data_effective_class = None, !.data_schema = None, !.data_review = mark]

(* _accept_or_correct_classification. *)
LabelSubmitted(r, label) ==
  IF r.class_review = "corrected" /\ label = r.class_effective THEN r
  ELSE IF label = r.class_system
  THEN [r EXCEPT !.class_override = None, !.class_effective = label, !.class_review = "accepted"]
  ELSE [r EXCEPT !.class_override = label, !.class_effective = label, !.class_review = "corrected"]

(* _accept_or_correct_extraction, and when it refuses. *)
ForeignData(r, data) ==
  /\ None \notin {r.class_effective, r.data_class}
  /\ r.class_effective # r.data_class
  /\ data = r.data_system

DataSubmitted(r, data) ==
  LET new == IF r.data_review = "corrected" /\ data = r.data_effective THEN r
             ELSE IF data = r.data_system
             THEN [r EXCEPT !.data_override = None, !.data_override_class = None,
                            !.data_effective = data, !.data_review = "accepted"]
             ELSE [r EXCEPT !.data_override = data, !.data_override_class = r.class_effective,
                            !.data_effective = data, !.data_review = "corrected"]
  IN  [new EXCEPT !.data_effective_class = EffectiveClass(new)]

(* verify_content_classification. *)
ClassChanged(r, label) ==
  LET c == [r EXCEPT !.class_override = label, !.class_effective = label, !.class_review = None]
  IN  IF r.data_effective_class = label THEN c
      ELSE [DropData(c, None) EXCEPT !.data_class = None, !.data_system = NoData,
                                     !.data_print = None]

(* submit_content_enrichment_review and the route around it. *)
Request == [kind : {"submit", "reset_class", "reset_data", "dismiss_class", "dismiss_data",
                    "change_class"},
            label : Label, data : Data \cup {None}]

Labelled(r, request) ==
  IF request.label = None THEN r ELSE LabelSubmitted(r, request.label)

Reviewed(r, request) ==
  LET labelled == Labelled(r, request)
  IN  CASE request.kind = "reset_class" -> DropData(DropClass(r, None), None)
        [] request.kind = "reset_data" -> DropData(r, None)
        [] request.kind = "dismiss_class" -> DropData(DropClass(r, "dismissed"), "dismissed")
        [] request.kind = "dismiss_data" -> DropData(r, "dismissed")
        [] request.kind = "change_class" -> ClassChanged(r, request.label)
        [] request.kind = "submit" /\ request.data = None -> labelled
        [] OTHER -> DataSubmitted(labelled, request.data)

StaleSystemValue(r, request) ==
  \/ request.label # None /\ request.label = r.class_system /\ r.class_print # config
  \/ request.data # None /\ request.data = r.data_system /\ r.data_print # config

Refused(r, request) ==
  /\ request.kind = "submit"
  /\ \/ StaleSystemValue(r, request)
     \/ request.data # None /\ ForeignData(Labelled(r, request), request.data)

----------------------------------------------------------------------------
(* The page: what it shows of a copy of the item. *)

Statuses == {"QUEUED", "COMPLETED", "FAILED", "LAPSED"}

Snapshot == [row : Row, status : Statuses, force : Label,
             config : 1..MaxConfig]

(* A request of the reviewer: what it read, and the copy that it returns. *)
Saving == [request : Request, phase : {"sent", "read", "queue", "done", "refused"},
           seen : Row \cup {None}, reply : Snapshot \cup {None}]

(* null is no row, no copy of an item, no request and no fetch. *)
ASSUME NoneAssumption == None \notin Row \cup Snapshot \cup Saving \cup {Asked}

(* record_to_file_info, now. *)
Current == [row |-> row, status |-> status, force |-> force, config |-> config]

Stale == {file.row.class_print, file.row.data_print} # {file.config}

HasSystemData == file.row.data_class # None \/ file.row.data_system # NoData

(* extraction_view *)
HasData == \/ HasSystemData
           \/ file.row.data_effective # NoData
           \/ file.row.data_override \notin {None, NoData}
           \/ file.row.data_review = "dismissed"

(* classification_view *)
HasClass == file.row.class_effective # None \/ file.row.class_review = "dismissed"

Mismatch == /\ None \notin {file.row.class_effective, file.row.data_class}
            /\ file.row.class_effective # file.row.data_class

BaseData == IF HasData /\ ~Mismatch THEN file.row.data_effective ELSE None

(* baseDraftKey, and the draft it selects. *)
Base == [label |-> file.row.class_effective, data |-> BaseData]
Draft == IF draft.base = Base THEN draft.edit ELSE Base
Dirty == Draft # Base

(* fallbackExtractionData: the empty fields of selectedSchema. *)
Fallback ==
  LET schema == First(Draft.label, IF HasData THEN file.row.data_schema ELSE None)
  IN  IF schema = None THEN None ELSE [field \in {schema} |-> Blank]

ForcedPending == file.status = "QUEUED" /\ file.force # None

(* displayExtractionData *)
Displayed ==
  LET current == First(Draft.data, BaseData)
  IN  IF ForcedPending \/ Mismatch THEN None
      ELSE IF Fallback = None THEN current
      ELSE Merged(Fallback, First(current, NoData))

Submission == [kind |-> "submit", label |-> Draft.label, data |-> First(Draft.data, Displayed)]

(* content_review_state, of an item that is not stale. *)
IsReviewed ==
  /\ HasClass \/ HasData
  /\ HasClass => file.row.class_review # None
  /\ HasData => file.row.data_review # None

CanConfirm ==
  /\ {Submission.label, Submission.data} # {None}
  /\ ~Stale /\ ~ForcedPending /\ ~Mismatch
  /\ Dirty \/ ~IsReviewed

CanResetToAi ==
  /\ file.row.data_review = "corrected"
  /\ HasSystemData /\ BaseData # file.row.data_system
  /\ ~Stale /\ ~ForcedPending /\ ~Mismatch

IsProcessing == file.status = "QUEUED" \/ reprocessing

----------------------------------------------------------------------------
(* The reviewer. *)

Acts == count.user > 0 /\ count' = [count EXCEPT !.user = @ - 1]

NewEdit(edit) == draft' = [base |-> Base, edit |-> edit]

(* updateExtractionField, of a field the panel shows. *)
EditField(field) ==
  /\ Acts /\ save = None
  /\ Displayed # None /\ field \in DOMAIN Displayed
  /\ Displayed[field] # Edited
  /\ NewEdit([Draft EXCEPT !.data =
       Merged(First(Draft.data, First(Fallback, NoData)), [f \in {field} |-> Edited])])
  /\ UNCHANGED <<server, file, reprocessing, byPath, byId, save, start>>

Discard ==
  /\ Acts /\ save = None /\ Dirty
  /\ NewEdit(Base)
  /\ UNCHANGED <<server, file, reprocessing, byPath, byId, save, start>>

Send(request) ==
  /\ Acts /\ save = None
  /\ save' = [request |-> request, phase |-> "sent", seen |-> None, reply |-> None]
  /\ UNCHANGED <<server, file, reprocessing, byPath, byId, start>>

Ask(kind, label, data) ==
  Send([kind |-> kind, label |-> label, data |-> data]) /\ UNCHANGED draft

Confirm == CanConfirm /\ Send(Submission) /\ UNCHANGED draft
ResetToAi == CanResetToAi /\ Ask("submit", None, file.row.data_system)
ResetClass == HasClass /\ Ask("reset_class", None, None)
ResetData == HasData /\ Ask("reset_data", None, None)
DismissClass == Ask("dismiss_class", None, None)
DismissData == Ask("dismiss_data", None, None)

(* The panel shows the class at once, and no data. *)
ChangeClass(label) ==
  /\ label # Draft.label
  /\ Send([kind |-> "change_class", label |-> label, data |-> None])
  /\ NewEdit([label |-> label, data |-> None])

(* handleProcess, for the whole item or its enrichment only. *)
Process(whole) ==
  /\ Acts /\ start = None /\ ~IsProcessing
  /\ start' = [whole |-> whole, phase |-> "sent"]
  /\ reprocessing' = TRUE
  /\ UNCHANGED <<server, file, draft, byPath, byId, save>>

----------------------------------------------------------------------------
(* The backend. *)

(* An administrator saves the catalog. *)
ChangeCatalog ==
  /\ Acts /\ config < MaxConfig
  /\ config' = config + 1
  /\ UNCHANGED <<row, status, force, work, notice, page, save, start>>

ReadRow ==
  /\ save # None /\ save.phase = "sent"
  /\ save' = IF Refused(row, save.request)
             THEN [save EXCEPT !.phase = "refused"]
             ELSE [save EXCEPT !.phase = "read", !.seen = row]
  /\ UNCHANGED <<server, page, start, count>>

(* The response is what db.refresh reads after the commit; a change of class *)
(* queues its task first.                                                    *)
CommitReview ==
  /\ save # None /\ save.phase = "read"
  /\ LET committed == Flushed(row, save.seen, Reviewed(save.seen, save.request))
     IN  /\ row' = committed
         /\ save' = IF save.request.kind = "change_class"
                    THEN [save EXCEPT !.phase = "queue", !.seen = None]
                    ELSE [save EXCEPT !.phase = "done", !.seen = None,
                                      !.reply = [Current EXCEPT !.row = committed]]
  /\ UNCHANGED <<status, force, config, work, notice, page, start, count>>

(* enqueue_process updates the item's row, which a completion holds locked. *)
Enqueue(class) ==
  /\ work = None
  /\ status' = "QUEUED"
  /\ force' = class
  /\ UNCHANGED <<row, config, work, notice>>

QueueForced ==
  /\ save # None /\ save.phase = "queue"
  /\ Enqueue(save.request.label)
  /\ save' = [save EXCEPT !.phase = "done",
                !.reply = [Current EXCEPT !.status = "QUEUED", !.force = save.request.label]]
  /\ UNCHANGED <<page, start, count>>

(* An enrichment-only run is told the class that a reviewer chose. *)
QueueProcess ==
  /\ start # None /\ start.phase = "sent"
  /\ Enqueue(IF start.whole THEN None ELSE row.class_override)
  /\ start' = [start EXCEPT !.phase = "queued"]
  /\ UNCHANGED <<page, save, count>>

(* complete_task: class is None if the worker was told one or could not tell, *)
(* and schema is None if it could not extract.                                *)
Complete(class, schema) ==
  /\ status = "QUEUED" /\ work = None
  /\ force # None => class = None /\ schema \in {force, None}
  /\ force = None => schema \in {class, None}
  /\ work' = [seen |-> row, new |-> Completed(row, class, schema)]
  /\ UNCHANGED <<row, status, force, config, notice, page, save, start, count>>

CommitCompletion ==
  /\ work # None
  /\ row' = Flushed(row, work.seen, work.new)
  /\ status' = "COMPLETED"
  /\ work' = None
  /\ notice' = TRUE
  /\ UNCHANGED <<force, config, page, save, start, count>>

(* fail_task of the worker, for good. *)
FailTask ==
  /\ status = "QUEUED" /\ work = None
  /\ status' = "FAILED"
  /\ notice' = TRUE
  /\ UNCHANGED <<row, force, config, work, page, save, start, count>>

(* fail_stale_task of the sweep, when nobody has refreshed the last claim:   *)
(* it enqueues no event.                                                     *)
FailStaleTask ==
  /\ status = "QUEUED" /\ work = None
  /\ status' = "LAPSED"
  /\ UNCHANGED <<row, force, config, work, notice, page, save, start, count>>

----------------------------------------------------------------------------
(* Answers. *)

(* For mutation: a refetch that leaves a fetch under way alone. *)
RefreshIdle ==
  /\ byPath' = IF byPath = None THEN Asked ELSE byPath
  /\ byId' = IF byId.fetch = None THEN [byId EXCEPT !.fetch = Asked] ELSE byId

(* refresh: both queries are invalidated, and fetched anew in place of what *)
(* is under way.                                                            *)
Refresh == byPath' = Asked /\ byId' = [byId EXCEPT !.fetch = Asked]

(* The bridge of module UserEvents, when the page gets the event. *)
Notified ==
  /\ notice
  /\ notice' = FALSE
  /\ Refresh
  /\ UNCHANGED <<row, status, force, config, work, file, reprocessing, draft, save, start, count>>

Saved ==
  /\ save # None /\ save.phase = "done"
  /\ file' = save.reply
  /\ reprocessing' = (reprocessing \/ save.request.kind = "change_class")
  /\ save' = None
  /\ Refresh
  /\ UNCHANGED <<server, draft, start, count>>

(* A refused request, or one that fails on its way. *)
NotSaved ==
  /\ save # None
  /\ \/ save.phase = "refused" /\ UNCHANGED count
     \/ save.phase = "sent" /\ count.faults > 0 /\ count' = [count EXCEPT !.faults = @ - 1]
  /\ save' = None
  /\ UNCHANGED <<server, page, start>>

(* refetchFile of the page. *)
Started ==
  /\ start # None /\ start.phase = "queued"
  /\ start' = None
  /\ byId' = [byId EXCEPT !.fetch = Asked]
  /\ UNCHANGED <<server, file, reprocessing, draft, byPath, save, count>>

NotStarted ==
  /\ start # None /\ start.phase = "sent"
  /\ count.faults > 0 /\ count' = [count EXCEPT !.faults = @ - 1]
  /\ start' = None
  /\ reprocessing' = FALSE
  /\ UNCHANGED <<server, file, draft, byPath, byId, save>>

Poll ==
  /\ IsProcessing /\ byPath = None
  /\ byPath' = Asked
  /\ UNCHANGED <<server, file, reprocessing, draft, byId, save, start, count>>

ReadByPath ==
  /\ byPath = Asked
  /\ byPath' = Current
  /\ UNCHANGED <<server, file, reprocessing, draft, byId, save, start, count>>

ReadById ==
  /\ byId.fetch = Asked
  /\ byId' = [byId EXCEPT !.fetch = Current]
  /\ UNCHANGED <<server, file, reprocessing, draft, byPath, save, start, count>>

(* The effect on fileQuery.data. *)
FetchedByPath ==
  /\ byPath \notin {None, Asked}
  /\ file' = byPath
  /\ reprocessing' = (reprocessing /\ byPath.status = "QUEUED")
  /\ byPath' = None
  /\ UNCHANGED <<server, draft, byId, save, start, count>>

(* The effects on initialFile, which run if the data differs. *)
FetchedById ==
  /\ byId.fetch \notin {None, Asked}
  /\ byId' = [fetch |-> None, data |-> byId.fetch]
  /\ IF byId.fetch = byId.data THEN UNCHANGED <<file, reprocessing>>
     ELSE file' = byId.fetch /\ reprocessing' = FALSE
  /\ UNCHANGED <<server, draft, byPath, save, start, count>>

----------------------------------------------------------------------------
Reviewer ==
  \/ \E field \in Class : EditField(field)
  \/ Discard \/ Confirm \/ ResetToAi \/ ResetClass \/ ResetData \/ DismissClass \/ DismissData
  \/ \E label \in Class : ChangeClass(label)
  \/ \E whole \in BOOLEAN : Process(whole)

Worker ==
  \/ \E class, schema \in Label : Complete(class, schema)
  \/ CommitCompletion \/ FailTask

Backend == ReadRow \/ CommitReview \/ QueueForced \/ QueueProcess \/ Worker \/ FailStaleTask

Answers == Notified \/ Saved \/ NotSaved \/ Started \/ NotStarted \/ FetchedByPath \/ FetchedById

Fetches == Poll \/ ReadByPath \/ ReadById

Next == Reviewer \/ ChangeCatalog \/ Backend \/ Answers \/ Fetches

(* The item was processed, and perhaps reviewed, and the page has loaded it. *)
Correction == [kind |-> "submit", label |-> Found, data |-> [field \in {Found} |-> Edited]]

Init ==
  /\ config = 1
  /\ row = LET found == Completed(Blanks, Found, Found)
           IN  IF Corrected THEN Reviewed(found, Correction) ELSE found
  /\ status = "COMPLETED" /\ force = None /\ work = None
  /\ notice = FALSE
  /\ file = Current /\ reprocessing = FALSE
  /\ draft = [base |-> Base, edit |-> Base]
  /\ byPath = None /\ byId = [fetch |-> None, data |-> Current]
  /\ save = None /\ start = None
  /\ count = [user |-> MaxUser, faults |-> MaxFaults]

Spec == Init /\ [][Next]_vars

(* The reviewer, administrators and faults owe nothing.  A task ends, by its *)
(* worker or by the sweep.                                                    *)
Fairness ==
  /\ WF_vars(ReadRow \/ CommitReview \/ QueueForced \/ Saved \/ (NotSaved /\ UNCHANGED count))
  /\ WF_vars(QueueProcess \/ Started)
  /\ WF_vars(Worker \/ FailStaleTask)
  /\ WF_vars(Notified)
  /\ WF_vars(Poll \/ ReadByPath \/ FetchedByPath)
  /\ WF_vars(ReadById \/ FetchedById)

FairSpec == Spec /\ Fairness

----------------------------------------------------------------------------
Edit == [label : Label, data : Data \cup {None}]

TypeOK ==
  /\ row \in Row
  /\ status \in Statuses /\ force \in Label /\ config \in 1..MaxConfig
  /\ notice \in BOOLEAN
  /\ work \in [seen : Row, new : Row] \cup {None}
  /\ file \in Snapshot /\ reprocessing \in BOOLEAN
  /\ draft \in [base : Edit, edit : Edit]
  /\ byPath \in Snapshot \cup {None, Asked}
  /\ byId.fetch \in Snapshot \cup {None, Asked} /\ byId.data \in Snapshot
  /\ save # None =>
       /\ save \in Saving
       /\ save.seen # None <=> save.phase = "read"
       /\ save.reply # None <=> save.phase = "done"
  /\ start # None => start.whole \in BOOLEAN /\ start.phase \in {"sent", "queued"}

(* The sweep has failed the task and told nobody, and the page no longer     *)
(* polls: its last answer was read before the task was queued.               *)
Missed == status = "LAPSED" /\ file.row = row /\ ~IsProcessing

(* The page ends with the item as the backend has it, and not processing:    *)
(* whatever polls, refetches and answers overlap, the last word is the       *)
(* backend's.  Only of a failure that nobody announces may it not hear.      *)
Settled == file.row = row /\ file.status = status /\ ~IsProcessing
DetailsSettle == <>[](save = None /\ (Settled \/ Missed))

(* Once no event of the item is on its way, no request of the reviewer waits *)
(* and no poll is under way, the page shows the row that the backend has: no *)
(* answer that was read before the last commit replaces one that was read    *)
(* after it.  It shows the status too, unless the item is being processed or *)
(* the sweep has failed its task, which is not announced.                    *)
QuietPageIsCurrent ==
  ~notice /\ save = None /\ byPath = None =>
    /\ file.row = row
    /\ status \notin {"QUEUED", "LAPSED"} => file.status = status

(* A completion leaves what a reviewer decided, and a review what a worker   *)
(* found, however the two overlap: a transaction that wrote the whole row it *)
(* had read would undo the other.                                            *)
Kept(columns) == \A column \in columns : row'[column] = row[column]
NothingUndone ==
  [][/\ work # None /\ work' = None => Kept(Decisions)
     /\ save # None /\ save.phase = "read" /\ save' # save /\ save.request.kind # "change_class"
          => Kept(Results)]_vars
=============================================================================
