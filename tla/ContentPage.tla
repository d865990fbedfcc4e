------------------------------ MODULE ContentPage ------------------------------
(***************************************************************************)
(* The content page of the web application: what the address bar, the      *)
(* router, the filters of the list, the rows selected in it and the open   *)
(* details dialog say about each other.                                    *)
(*                                                                         *)
(* The address is the source of truth, and three copies of it lag behind:  *)
(* searchParams, as the router last rendered it (a transition, so a user   *)
(* event may come first); searchParamsStringRef, which updateSearchParams  *)
(* reads and moves ahead at once; and the filters' own state, seeded from  *)
(* the address by one effect and written back to it, 300 ms after the last *)
(* keystroke, by another.                                                  *)
(*                                                                         *)
(* Conditions on extracted fields stand for the four filters that are      *)
(* written back that way; the others differ only in that every value of    *)
(* theirs is complete.  The status filter stands for those that write the  *)
(* address at once.                                                        *)
(***************************************************************************)
EXTENDS Naturals, Sequences, SequencesExt, Selection

CONSTANTS
  Value,        \* operands of a condition
  Blank,        \* the operand of a condition that is not complete
  Status,       \* values of the status filter
  Folder, File,
  None,         \* no folder, file or status
  MaxConds,     \* conditions at once
  MaxUser,      \* user actions
  MaxFaults     \* failed requests

ASSUME ConstantsAssumption ==
  /\ {MaxConds, MaxUser, MaxFaults} \subseteq Nat
  /\ Blank \notin Value /\ None \notin Status \cup Folder \cup File

VARIABLES
  nav,        \* the browser's history, the place in it, and searchParamsStringRef
  shown,      \* searchParams as last rendered
  conds,      \* fieldPredicates
  debounced,  \* debouncedFieldPredicates
  timer,      \* the 300 ms timer of the conditions is running
  status,     \* statusFilter
  rows,       \* selectedFilePaths
  selected,   \* selectedFile
  load,       \* the look-up of the selected file that is not cancelled, or None
  files,      \* the backend's files
  processing, \* batches awaiting their answer
  deleting,   \* deletions awaiting their answer
  target,     \* where the last Back or Forward led to, until something else moves the address
  count       \* user actions and faults that may still happen

filters == <<conds, debounced, timer, status>>
dialog == <<selected, load>>
requests == <<processing, deleting>>
vars == <<nav, shown, filters, rows, dialog, files, requests, target, count>>

----------------------------------------------------------------------------
(* Conditions and addresses. *)

Conditions == SeqOf(Value \cup {Blank}, MaxConds)

(* isFieldFilterComplete: the operand is given. *)
Complete == Value

(* serializeFieldFilters: the complete ones. *)
Serialize(cs) == Selected(cs, Complete)

(* The addresses a link may lead to: a condition in it need not be complete. *)
Address == [path : Folder \cup {None}, file : File \cup {None}, status : Status \cup {None},
            conds : Conditions]

(* readContentPageUrlState, of the address the browser is at. *)
Here == nav.hist[nav.at]

Push(n, u) == [hist |-> Append(SubSeq(n.hist, 1, n.at), u), at |-> n.at + 1, ref |-> u]
Replace(n, u) == [n EXCEPT !.hist[n.at] = u, !.ref = u]

(* For mutation: computed from the address as last rendered. *)
WriteBackRendered(n, c) ==
  IF [shown EXCEPT !.conds = c] = shown THEN n ELSE Push(n, [shown EXCEPT !.conds = c])

(* The effect that writes the conditions back: updateSearchParams of the ref, unless nothing changes. *)
WriteBack(n, c) ==
  IF [n.ref EXCEPT !.conds = c] = n.ref THEN n ELSE Push(n, [n.ref EXCEPT !.conds = c])

(* For mutation: only what is shown takes the address's conditions, the timer does the rest. *)
SeedShown(u) == debounced

(* The effect on initialFieldFilters: the conditions shown and those effective are the address's. *)
Seed(u) == IF u.conds # shown.conds THEN u.conds ELSE debounced

(* updateSearchParams by a handler of the page. *)
UpdateTo(u) == nav' = IF u = nav.ref THEN nav ELSE Push(nav, u)

(* For mutation: a look-up that is running is left alone. *)
LookupOnce(u, s) ==
  IF load # None THEN load
  ELSE IF u.file = None \/ s = u.file THEN None ELSE u.file

(* startContentPageSelectedFileLoad, after the cleanup of the one before. *)
Lookup(u, s) == IF u.file = None \/ s = u.file THEN None ELSE u.file

(* The details of the file in the address, never those of another. *)
ActiveFile == IF selected = shown.file THEN selected ELSE None

----------------------------------------------------------------------------
(* The user. *)

Acts == count.user > 0 /\ count' = [count EXCEPT !.user = @ - 1] /\ target' = None

(* A folder of the list or a breadcrumb; the rows selected belong to the folder before. *)
Navigate(p) ==
  /\ Acts
  /\ UpdateTo([nav.ref EXCEPT !.path = p, !.file = None])
  /\ UNCHANGED <<shown, filters, rows, dialog, files, requests>>

ClickFile(f) ==
  /\ Acts /\ f \in files
  /\ selected' = f
  /\ UpdateTo([nav.ref EXCEPT !.file = f])
  /\ load' = IF selected = f THEN load ELSE Lookup(shown, f)
  /\ UNCHANGED <<shown, filters, rows, files, requests>>

CloseDialog ==
  /\ Acts /\ shown.file # None
  /\ UpdateTo([nav.ref EXCEPT !.file = None])
  /\ UNCHANGED <<shown, filters, rows, dialog, files, requests>>

(* handleStatusFilterChange, also by the chip of the filter. *)
SetStatus(s) ==
  /\ Acts /\ s # status
  /\ status' = s /\ rows' = {}
  /\ UpdateTo([nav.ref EXCEPT !.status = s])
  /\ UNCHANGED <<shown, conds, debounced, timer, dialog, files, requests>>

(* Every change of the conditions starts the timer again. *)
EditConditions(cs) ==
  /\ Acts /\ cs # conds
  /\ conds' = cs /\ timer' = TRUE
  /\ UNCHANGED <<nav, shown, debounced, status, rows, dialog, files, requests>>

(* The menu adds complete conditions only. *)
AddCondition(v) ==
  Len(conds) < MaxConds /\ EditConditions(Append(conds, v))

(* The operand of a condition is typed, and may be emptied on the way. *)
UpdateCondition(i, v) == EditConditions([conds EXCEPT ![i] = v])

RemoveCondition(i) == EditConditions(RemoveAt(conds, i))

ToggleRow(f) ==
  /\ Acts /\ f \in files
  /\ rows' = IF f \in rows THEN rows \ {f} ELSE rows \cup {f}
  /\ UNCHANGED <<nav, shown, filters, dialog, files, requests>>

ClearRows ==
  /\ Acts /\ rows # {} /\ rows' = {}
  /\ UNCHANGED <<nav, shown, filters, dialog, files, requests>>

ProcessRows ==
  /\ Acts /\ rows # {} /\ rows \notin processing
  /\ processing' = processing \cup {rows}
  /\ UNCHANGED <<nav, shown, filters, rows, dialog, files, deleting>>

(* For mutation: without the early return. *)
DeleteUnguarded ==
  /\ Acts
  /\ deleting' = deleting \cup {ActiveFile}
  /\ UNCHANGED <<nav, shown, filters, rows, dialog, files, processing>>

(* handleDelete of the dialog, confirmed. *)
Delete ==
  /\ Acts /\ ActiveFile # None
  /\ deleting' = deleting \cup {ActiveFile}
  /\ UNCHANGED <<nav, shown, filters, rows, dialog, files, processing>>

(* The browser's Back and Forward, of an address that has been rendered.  The address changes at *)
(* once, the page when the router renders.                                                      *)
Traverse(to) ==
  /\ count.user > 0 /\ count' = [count EXCEPT !.user = @ - 1]
  /\ to \in DOMAIN nav.hist /\ shown = Here
  /\ nav' = [nav EXCEPT !.at = to]
  /\ target' = IF timer THEN None ELSE [nav.hist[to] EXCEPT !.conds = Serialize(@)]
  /\ UNCHANGED <<shown, filters, rows, dialog, files, requests>>
Back == Traverse(nav.at - 1)
Forward == Traverse(nav.at + 1)

----------------------------------------------------------------------------
(* The page. *)

(* The router renders the address.  In this order: the layout effect moves the ref, the filters  *)
(* take what changed in the address, and, since the callback is a new one, the conditions of     *)
(* this very render are written back; the state that the effects set is rendered after that,     *)
(* before any new address, and written back again if it differs.                                 *)
(* The rows selected are dropped when a filter or the folder changed.                            *)
RouterRender ==
  /\ shown # Here
  /\ shown' = Here
  /\ LET moved == Here.conds # shown.conds
         seeded == Seed(Here)
         first == WriteBack([nav EXCEPT !.ref = Here], Serialize(debounced))
         again == Serialize(seeded) # Serialize(debounced)
     IN /\ debounced' = seeded
        /\ conds' = IF moved THEN Here.conds ELSE conds
        /\ timer' = (timer \/ moved)
        /\ status' = IF Here.status # shown.status THEN Here.status ELSE status
        /\ nav' = IF again THEN WriteBack(first, Serialize(seeded)) ELSE first
        /\ rows' = IF again \/ status' # status \/ Here.path # shown.path THEN {} ELSE rows
  /\ load' = Lookup(Here, selected)
  /\ UNCHANGED <<selected, files, requests, target, count>>

(* The timer fires: the conditions become effective and are written to the address. *)
TimerFires ==
  /\ timer /\ timer' = FALSE
  /\ debounced' = conds
  /\ IF Serialize(conds) = Serialize(debounced)
     THEN UNCHANGED <<nav, rows>>
     ELSE nav' = WriteBack(nav, Serialize(conds)) /\ rows' = {}
  /\ UNCHANGED <<shown, conds, status, dialog, files, requests, target, count>>

Fault == count.faults > 0 /\ count' = [count EXCEPT !.faults = @ - 1]

LoadAnswered ==
  /\ load # None /\ load \in files
  /\ selected' = load /\ load' = Lookup(shown, load)
  /\ UNCHANGED <<nav, shown, filters, rows, files, requests, target, count>>

(* onMissingFile: whatever the reason, the file leaves the address. *)
LoadFailed ==
  /\ load # None /\ load' = None
  /\ (load \notin files /\ UNCHANGED count) \/ Fault
  /\ nav' = LET u == [nav.ref EXCEPT !.file = None] IN IF u = nav.ref THEN nav ELSE Replace(nav, u)
  /\ target' = None
  /\ UNCHANGED <<shown, filters, rows, selected, files, requests>>

(* handleProcessSelected clears the selection after the answer, whatever it is by now. *)
ProcessAnswered(b) ==
  /\ b \in processing /\ processing' = processing \ {b}
  /\ rows' = {}
  /\ UNCHANGED <<nav, shown, filters, dialog, files, deleting, target, count>>

(* runContentPageDelete: the file that was selected when the deletion began was the deleted one, *)
(* so the selection is cleared, whatever it is by now.                                           *)
DeleteAnswered(f) ==
  /\ f \in deleting /\ deleting' = deleting \ {f}
  /\ f \in files /\ files' = files \ {f}
  /\ UpdateTo([nav.ref EXCEPT !.file = None]) /\ target' = None
  /\ UNCHANGED <<shown, filters, rows, dialog, processing, count>>

DeleteFailed(f) ==
  /\ f \in deleting /\ deleting' = deleting \ {f}
  /\ (f \notin files /\ UNCHANGED count) \/ Fault
  /\ UNCHANGED <<nav, shown, filters, rows, dialog, files, processing, target>>

----------------------------------------------------------------------------
(* The page is opened with any address, a bookmark or a link. *)
Init ==
  \E u \in Address :
    /\ shown = u
    /\ nav = WriteBack([hist |-> <<u>>, at |-> 1, ref |-> u], Serialize(u.conds))
    /\ conds = u.conds /\ debounced = u.conds /\ timer = TRUE
    /\ status = u.status
    /\ rows = {} /\ selected = None /\ load = u.file
    /\ files = File /\ processing = {} /\ deleting = {}
    /\ target = None
    /\ count = [user |-> MaxUser, faults |-> MaxFaults]

User ==
  \/ \E p \in Folder \cup {None} : Navigate(p)
  \/ \E f \in File : ClickFile(f) \/ ToggleRow(f)
  \/ CloseDialog \/ ClearRows \/ ProcessRows \/ Delete \/ Back \/ Forward
  \/ \E s \in Status \cup {None} : SetStatus(s)
  \/ \E v \in Value : AddCondition(v)
  \/ \E i \in DOMAIN conds : RemoveCondition(i) \/ \E v \in Value \cup {Blank} : UpdateCondition(i, v)

Page ==
  \/ RouterRender \/ TimerFires \/ LoadAnswered \/ LoadFailed
  \/ \E b \in processing : ProcessAnswered(b)
  \/ \E f \in deleting : DeleteAnswered(f) \/ DeleteFailed(f)

Next == User \/ Page
Spec == Init /\ [][Next]_vars

(* The browser renders, timers fire and look-ups are answered. *)
Fairness == WF_vars(RouterRender) /\ WF_vars(TimerFires) /\ WF_vars(LoadAnswered \/ LoadFailed)
FairSpec == Spec /\ Fairness

----------------------------------------------------------------------------
(* Properties. *)

(* The types of the page's state. *)
TypeOK ==
  /\ nav.hist \in Seq(Address) /\ nav.at \in DOMAIN nav.hist /\ nav.ref \in Address
  /\ shown \in Address /\ target \in Address \cup {None}
  /\ conds \in Conditions /\ debounced \in Conditions /\ timer \in BOOLEAN
  /\ status \in Status \cup {None} /\ rows \subseteq File
  /\ selected \in File \cup {None} /\ load \in File \cup {None}
  /\ files \subseteq File /\ processing \subseteq SUBSET File /\ deleting \subseteq File

(* A page that shows the address it is at says the same as the address: the next change of the     *)
(* address starts from it, the status and the conditions in effect are those it names, the         *)
(* conditions shown too unless the timer is still to make them effective, and its file is shown or *)
(* is being looked up.                                                                             *)
AddressAgrees ==
  shown = Here =>
    /\ nav.ref = Here
    /\ status = Here.status /\ Serialize(debounced) = Here.conds
    /\ timer \/ conds = debounced
    /\ Here.file \in {ActiveFile, load}

(* Whatever the order of typing, picking, navigating and rendering, the write-back of the filters  *)
(* and the seeding from the address do not chase each other for ever: in the end the address, the  *)
(* page rendered and the filters of the list agree.                                               *)
FiltersSettle ==
  <>[](/\ shown = Here /\ nav.ref = Here
       /\ conds = debounced /\ Serialize(debounced) = Here.conds /\ status = Here.status)

(* Back and Forward lead where they point: although the conditions of the page that is left are    *)
(* written on top of the address that is entered, the page ends at that address.                  *)
BackReturns == <>[](target # None => Here = target)

(* The dialog does not load for ever: in the end it shows the file in the address, or the address  *)
(* names none, also when look-ups are cancelled and begun again on the way.                       *)
DialogSettles == <>[](ActiveFile = Here.file)

=============================================================================
