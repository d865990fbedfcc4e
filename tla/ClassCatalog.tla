------------------------------ MODULE ClassCatalog ------------------------------
(***************************************************************************)
(* The catalog of document classes and the page on which an administrator  *)
(* edits it: the address chooses the class whose editor is open, a save or *)
(* a deletion sends the page's whole list with one change, and the answer  *)
(* replaces the list.                                                      *)
(*                                                                         *)
(* The editor knows its class by its place in the list, the dialog of a    *)
(* deletion too, and only their buttons wait for answers, so a list that   *)
(* has changed meanwhile must not make them write another class.           *)
(*                                                                         *)
(* What is stored and what is edited have different forms.  A sample is an *)
(* example of a field or an extraction of the scene; the field decides     *)
(* whether its value is a text or one text per child.  A schema has one    *)
(* scene.  Descriptions, aliases and versions are left out.                *)
(***************************************************************************)
EXTENDS Naturals, Sequences, SequencesExt, FiniteSetsExt, Selection

CONSTANTS
  Names,      \* the names of classes, schemas and fields, as the database sorts them
  Key,        \* each name without regard to case
  Blank,      \* no name
  Initial,    \* the classes in the catalog
  List, New,  \* the addresses of the list and of a new class
  None,
  Slot,       \* requests that may be on their way at once
  MaxUser,    \* actions of the administrator other than edits
  MaxEdits,
  MaxFields,  \* fields of a schema; a field has at most one example and one child
  MaxFaults

ASSUME ConstantsAssumption ==
  /\ Names \in Seq(Range(Names)) /\ \A i, j \in DOMAIN Names : Names[i] = Names[j] => i = j
  /\ None \notin Nat

Name == Range(Names)
Label == Name \cup {Blank}

VARIABLES
  rows,     \* document_classes and extraction_schemas, each from ids to rows
  list,     \* documentClassesDraft
  route,    \* List, New or the id of a class
  editor,   \* editorState
  dialog,   \* deleteIndex
  deleting, \* deletingClass
  saving,   \* savingDocumentClasses
  requests, \* replaceContentEnrichmentCatalog, by slot
  file,     \* the settings that were exported last
  reading,  \* whether a file is being read
  fresh,    \* the last id that was given
  count

page == <<list, route, editor, fresh>>
vars == <<rows, page, dialog, deleting, saving, requests, file, reading, count>>

----------------------------------------------------------------------------
(* Samples.  A plain field, and a child, is one of type int: only there    *)
(* does a value change when it is shown and stored again.  What is typed   *)
(* is "raw" until it is stored, then "clean"; or it has the "digits" of an *)
(* integer of 1e21 or more, which is stored as a number and shown with an  *)
(* "exponent", of which parseInt keeps the digits before the point.        *)

Typed == {"", "raw", "clean", "digits", "exponent"}
NoValues == [child \in {} |-> ""]

(* coerceExampleScalarValue; a number that it gave is written as it will   *)
(* be shown.                                                               *)
Coerced(text) == CASE text = "raw" -> "clean"
                   [] text = "digits" -> "exponent"
                   [] text = "exponent" -> "clean"
                   [] OTHER -> text

(* The anchor is a part of the passage, or is not, or was left out.  field *)
(* is Blank in an example.                                                 *)
Sample == [field : Label, anchor : {"in", "out", "none"}, value : Typed,
           child : UNION {[labels -> Typed] : labels \in SUBSET Label}]

EmptySample(field) == [field |-> field, anchor |-> "none", value |-> "", child |-> NoValues]

Field == [name : Label, type : {"plain", "object_list"}, children : Seq(Label),
          examples : Seq(Sample)]

EmptyField == [name |-> Blank, type |-> "plain", children |-> <<>>, examples |-> <<>>]

Schema == [id : Nat, name : Label, fields : Seq(Field), scene : Seq(Sample)]
Class == [id : Nat, name : Label, schema : Schema \cup {None}]

(* Plain fields have no children. *)
Shaped(class) ==
  class.schema # None =>
    \A f \in Range(class.schema.fields) : f.type = "plain" => f.children = <<>>

(* The names of classes are unique in the database. *)
ASSUME InitialAssumption ==
  /\ None \notin Schema
  /\ IsFiniteSet(Initial) /\ Initial \subseteq Class
  /\ \A c \in Initial :
       Shaped(c) /\ c.name # Blank /\ (c.schema # None => c.schema.name # Blank)
  /\ \A c, d \in Initial : c.name = d.name => c = d

(* serializeSceneExtractionValue and serializeExampleValue. *)
Stored(field, sample) ==
  IF field.type = "object_list"
  THEN LET filled == {c \in Range(field.children) \cap DOMAIN sample.child : c # Blank /\ sample.child[c] # ""}
       IN  [sample EXCEPT !.value = "", !.child = [c \in filled |-> Coerced(sample.child[c])]]
  ELSE [sample EXCEPT !.value = Coerced(sample.value), !.child = NoValues]

HasValue(sample) == sample.value # "" \/ sample.child # NoValues

(* exampleValueToDraftString of one value or of each child's. *)
Shown(type, sample) ==
  IF type = "object_list" THEN [sample EXCEPT !.value = ""]
  ELSE [sample EXCEPT !.value = IF sample.child = NoValues THEN @ ELSE "clean",
                      !.child = NoValues]

----------------------------------------------------------------------------
(* Classes: serialized, drafted, and valid. *)

Named(fields, name) == {f \in Range(fields) : f.name = name}

(* fieldsByName, of a name that is there. *)
FieldOf(fields, name) == CHOOSE f \in Named(fields, name) : TRUE

(* serializeSceneDrafts: what has no field of its name, no anchor or no    *)
(* value is left out.                                                      *)
StoredScene(schema) ==
  LET Entry(s) == Stored(FieldOf(schema.fields, s.field), s)
      kept == Selected(schema.scene, {s \in Range(schema.scene) :
                Named(schema.fields, s.field) # {} /\ s.anchor # "none" /\ HasValue(Entry(s))})
  IN  [i \in DOMAIN kept |-> Entry(kept[i])]

StoredField(field) ==
  LET stored == [i \in DOMAIN field.examples |-> Stored(field, field.examples[i])]
  IN  [field EXCEPT !.children = IF field.type = "object_list" THEN @ ELSE <<>>,
                    !.examples = Selected(stored, {s \in Range(stored) : HasValue(s)})]

Serialized(class) ==
  IF class.schema = None THEN class
  ELSE [class EXCEPT !.schema.fields = [i \in DOMAIN @ |-> StoredField(@[i])],
                     !.schema.scene = StoredScene(class.schema)]

(* For mutation: values of a scene shown as those of plain fields. *)
DraftedPlain(class) ==
  IF class.schema = None THEN class
  ELSE [class EXCEPT !.schema.scene = [i \in DOMAIN @ |-> Shown("plain", @[i])]]

TypeOf(fields, name) == IF Named(fields, name) = {} THEN "plain" ELSE FieldOf(fields, name).type

DraftedField(f) == [f EXCEPT !.examples = [i \in DOMAIN @ |-> Shown(f.type, @[i])]]

(* toDocumentClassDrafts *)
Drafted(class) ==
  IF class.schema = None THEN class
  ELSE LET fields == class.schema.fields
       IN  [class EXCEPT !.schema.fields = [i \in DOMAIN @ |-> DraftedField(@[i])],
                         !.schema.scene = [i \in DOMAIN @ |-> Shown(TypeOf(fields, @[i].field), @[i])]]

Distinct(names) == Cardinality({Key[names[i]] : i \in DOMAIN names}) = Len(names)

ValidField(field) ==
  field.type = "object_list" =>
    field.children # <<>> /\ Blank \notin Range(field.children) /\ Distinct(field.children)

(* Here, the name of a field is compared without regard to case. *)
ValidSample(fields, sample) ==
  \/ sample.field = Blank
  \/ \E f \in Range(fields) :
       /\ Key[f.name] = Key[sample.field]
       /\ sample.anchor # "out"
       /\ sample.anchor = "in" => HasValue(Stored(f, sample))

ValidSchema(schema) ==
  LET names == [i \in DOMAIN schema.fields |-> schema.fields[i].name]
  IN  /\ schema.name # Blank
      /\ Blank \notin Range(names) /\ Distinct(names)
      /\ \A f \in Range(schema.fields) : ValidField(f)
      /\ \A s \in Range(schema.scene) : ValidSample(schema.fields, s)

(* For mutation: ids are not compared. *)
ValidNames(classes) ==
  /\ \A i \in DOMAIN classes : classes[i].name # Blank
  /\ \A i, j \in DOMAIN classes : i # j => Key[classes[i].name] # Key[classes[j].name]
  /\ \A i \in DOMAIN classes : classes[i].schema # None => ValidSchema(classes[i].schema)

(* validateContentEnrichmentDrafts *)
Valid(classes) ==
  LET schemas == {i \in DOMAIN classes : classes[i].schema # None}
  IN  /\ \A i \in DOMAIN classes : classes[i].name # Blank
      /\ \A i, j \in DOMAIN classes : i # j =>
           classes[i].id # classes[j].id /\ Key[classes[i].name] # Key[classes[j].name]
      /\ \A i \in schemas : ValidSchema(classes[i].schema)
      /\ \A i, j \in schemas : i # j =>
           /\ classes[i].schema.id # classes[j].schema.id
           /\ Key[classes[i].schema.name] # Key[classes[j].schema.name]

----------------------------------------------------------------------------
(* The backend.  Class rows hold the name; schema rows all but the id, and *)
(* their class.                                                            *)

SchemaRow(class) == [name |-> class.schema.name, owner |-> class.id,
                     fields |-> class.schema.fields, scene |-> class.schema.scene]

Rows(classes) ==
  LET with == {c \in classes : c.schema # None}
      Owner(id) == CHOOSE c \in with : c.schema.id = id
      Titled(id) == CHOOSE c \in classes : c.id = id
  IN  [class |-> [id \in {c.id : c \in classes} |-> [name |-> Titled(id).name]],
       schema |-> [id \in {c.schema.id : c \in with} |-> SchemaRow(Owner(id))]]

(* Rows are read by name. *)
Place(row) == CHOOSE i \in DOMAIN Names : Names[i] = row.name

Before(table, id) == {o \in DOMAIN table : Place(table[o]) < Place(table[id])}

Ordered(table) ==
  [i \in 1..Cardinality(DOMAIN table) |->
     CHOOSE id \in DOMAIN table : Cardinality(Before(table, id)) = i - 1]

(* The last schema that names the class. *)
SchemaOf(table, class) ==
  LET own == {id \in DOMAIN table : table[id].owner = class}
      last == CHOOSE id \in own : \A o \in own : Place(table[o]) <= Place(table[id])
  IN  IF own = {} THEN None
      ELSE [id |-> last, name |-> table[last].name,
            fields |-> table[last].fields, scene |-> table[last].scene]

(* get_catalog *)
Catalog(now) ==
  LET ids == Ordered(now.class)
  IN  [i \in DOMAIN ids |-> [id |-> ids[i], name |-> now.class[ids[i]].name,
                             schema |-> SchemaOf(now.schema, ids[i])]]

(* The body of a request: an example's anchor must be in its text. *)
Wellformed(classes) ==
  \A c \in Range(classes) : c.schema # None =>
    \A f \in Range(c.schema.fields) : \A s \in Range(f.examples) : s.anchor # "out"

(* The flush of one table: the columns that the transaction changed, then  *)
(* its new rows, then its deletions.                                       *)
Written(now, seen, new) ==
  [id \in DOMAIN now \cup (DOMAIN new \ DOMAIN seen) |->
     IF id \in DOMAIN new \ DOMAIN seen THEN new[id]
     ELSE IF id \notin DOMAIN new \cap DOMAIN seen THEN now[id]
     ELSE [column \in DOMAIN now[id] |->
             IF new[id][column] # seen[id][column] THEN new[id][column] ELSE now[id][column]]]

(* A row that is updated must be there still, a new one must not, and no   *)
(* two may have one name, the rows about to be deleted included.           *)
Refused(now, seen, new) ==
  LET written == Written(now, seen, new)
  IN  \/ \E id \in DOMAIN new \cap DOMAIN seen : new[id] # seen[id] /\ id \notin DOMAIN now
      \/ (DOMAIN new \ DOMAIN seen) \cap DOMAIN now # {}
      \/ \E a, b \in DOMAIN written : a # b /\ written[a].name = written[b].name

Flushed(now, seen, new) ==
  LET gone == DOMAIN seen \ DOMAIN new
      written == Written(now, seen, new)
  IN  [id \in DOMAIN written \ gone |-> written[id]]

(* replace_catalog *)
Read(s) ==
  /\ requests[s] # None /\ requests[s].phase = "sent"
  /\ requests' = [requests EXCEPT ![s] =
       IF Wellformed(@.classes) THEN [@ EXCEPT !.phase = "read", !.seen = rows]
       ELSE [@ EXCEPT !.phase = "failed"]]
  /\ UNCHANGED <<rows, page, dialog, deleting, saving, file, reading, count>>

Commit(s) ==
  /\ requests[s] # None /\ requests[s].phase = "read"
  /\ LET seen == requests[s].seen
         new == Rows(Range(requests[s].classes))
         refused == \/ Refused(rows.class, seen.class, new.class)
                    \/ Refused(rows.schema, seen.schema, new.schema)
     IN  /\ rows' = IF refused THEN rows
                    ELSE [class |-> Flushed(rows.class, seen.class, new.class),
                          schema |-> Flushed(rows.schema, seen.schema, new.schema)]
         /\ requests' = [requests EXCEPT ![s] =
              [@ EXCEPT !.phase = IF refused THEN "failed" ELSE "stored", !.seen = None]]
  /\ UNCHANGED <<page, dialog, deleting, saving, file, reading, count>>

Answer(s) ==
  /\ requests[s] # None /\ requests[s].phase = "stored"
  /\ requests' = [requests EXCEPT ![s] = [@ EXCEPT !.phase = "answered", !.classes = Catalog(rows)]]
  /\ UNCHANGED <<rows, page, dialog, deleting, saving, file, reading, count>>

----------------------------------------------------------------------------
(* The page. *)

Acts == count.user > 0 /\ count' = [count EXCEPT !.user = @ - 1]

Open(mode, index, draft) == [mode |-> mode, index |-> index, draft |-> draft, dirty |-> mode = "create"]

NewClass(id) == [id |-> id, name |-> Blank, schema |-> None]

(* What a rendering makes of the address and the list. *)
Rendered(r, classes) ==
  LET places == {i \in DOMAIN classes : classes[i].id = r}
      place == CHOOSE i \in places : TRUE
      keeps == editor # None /\ IF r = New THEN editor.mode = "create"
                                ELSE editor.mode = "edit" /\ editor.draft.id = r
  IN  /\ route' = r
      /\ list' = classes
      /\ fresh' = IF r = New /\ ~keeps THEN fresh + 1 ELSE fresh
      /\ editor' = IF r = List THEN None
                   ELSE IF r = New THEN IF keeps THEN editor ELSE Open("create", None, NewClass(fresh + 1))
                   ELSE IF places = {} THEN None
                   ELSE IF keeps THEN editor
                   ELSE Open("edit", place, classes[place])

(* A link, a row, or the browser's history. *)
Browse(r) ==
  /\ Acts /\ r # route
  /\ Rendered(r, list)
  /\ UNCHANGED <<rows, dialog, deleting, saving, requests, file, reading>>

(* The dialog covers the page. *)
Reachable == dialog = None
ShowsList == Reachable /\ route = List /\ editor = None
ShowsEditor == Reachable /\ editor # None

Cancel ==
  /\ Acts /\ ShowsEditor /\ ~saving
  /\ IF route = List THEN editor' = None /\ UNCHANGED <<list, route, fresh>>
     ELSE Rendered(List, list)
  /\ UNCHANGED <<rows, dialog, deleting, saving, requests, file, reading>>

Send(s, kind, classes) ==
  /\ requests[s] = None
  /\ requests' = [requests EXCEPT ![s] =
       [kind |-> kind, phase |-> "sent", routed |-> route # List, seen |-> None,
        classes |-> [i \in DOMAIN classes |-> Serialized(classes[i])]]]
  /\ saving' = TRUE

(* replaceDocumentClassDraft *)
Replaced(classes, index, draft) ==
  IF index = None THEN Append(classes, draft)
  ELSE [i \in DOMAIN classes |-> IF i = index THEN draft ELSE classes[i]]

(* handleSaveEditor, of what is valid: the rest is refused with a message. *)
Save(s) ==
  /\ Acts /\ ShowsEditor /\ editor.dirty /\ ~saving
  /\ LET classes == Replaced(list, editor.index, editor.draft)
     IN  Valid(classes) /\ Send(s, "save", classes)
  /\ UNCHANGED <<rows, page, dialog, deleting, file, reading>>

AskDelete(index) ==
  /\ Acts /\ ShowsList
  /\ dialog' = index
  /\ UNCHANGED <<rows, page, deleting, saving, requests, file, reading>>

(* Its button waits for a deletion, the key that closes it does not. *)
CloseDialog ==
  /\ Acts /\ dialog # None
  /\ dialog' = None
  /\ UNCHANGED <<rows, page, deleting, saving, requests, file, reading>>

Removed(classes, index) == IF index \in DOMAIN classes THEN RemoveAt(classes, index) ELSE classes

ConfirmDelete(s) ==
  /\ Acts /\ dialog # None /\ ~deleting
  /\ Valid(Removed(list, dialog)) /\ Send(s, "delete", Removed(list, dialog))
  /\ deleting' = TRUE
  /\ UNCHANGED <<rows, page, dialog, file, reading>>

(* The list is shown before the count of stale items is fetched. *)
Apply(s) ==
  /\ requests[s] # None /\ requests[s].phase = "answered"
  /\ Rendered(route, [i \in DOMAIN requests[s].classes |-> Drafted(requests[s].classes[i])])
  /\ requests' = [requests EXCEPT ![s] = [@ EXCEPT !.phase = "applied"]]
  /\ UNCHANGED <<rows, dialog, deleting, saving, file, reading, count>>

(* closeEditor is that of the rendering in which the save was asked for: it *)
(* leaves the address of a class, or closes the editor over the list.       *)
Finish(s) ==
  /\ requests[s] # None /\ requests[s].phase = "applied"
  /\ saving' = FALSE
  /\ IF requests[s].kind = "delete"
     THEN dialog' = None /\ deleting' = FALSE /\ UNCHANGED page
     ELSE /\ UNCHANGED <<dialog, deleting>>
          /\ \/ requests[s].routed /\ route # List /\ Rendered(List, list)
             \/ requests[s].routed /\ route = List /\ UNCHANGED page
             \/ ~requests[s].routed /\ editor' = None /\ UNCHANGED <<list, route, fresh>>
  /\ requests' = [requests EXCEPT ![s] = None]
  /\ UNCHANGED <<rows, file, reading, count>>

(* A request that the backend refuses, that is lost on its way, or whose   *)
(* answer is: then the rows have changed, and the page keeps its list.     *)
Fail(s) ==
  /\ requests[s] # None
  /\ \/ requests[s].phase = "failed" /\ UNCHANGED count
     \/ /\ requests[s].phase \in {"sent", "stored", "answered"} /\ count.faults > 0
        /\ count' = [count EXCEPT !.faults = @ - 1]
  /\ saving' = FALSE
  /\ deleting' = (deleting /\ requests[s].kind = "save")
  /\ requests' = [requests EXCEPT ![s] = None]
  /\ UNCHANGED <<rows, page, dialog, file, reading>>

----------------------------------------------------------------------------
(* Exporting and importing the settings of a class.  An import gets ids of *)
(* its own.                                                                *)

Export(class) ==
  /\ Acts
  /\ file' = Serialized(class)
  /\ UNCHANGED <<rows, page, dialog, deleting, saving, requests, reading>>

ExportListed == ShowsList /\ \E i \in DOMAIN list : Export(list[i])
ExportEdited == ShowsEditor /\ Export(editor.draft)

PickFile ==
  /\ Acts /\ ShowsList /\ ~saving /\ file # None /\ ~reading
  /\ reading' = TRUE
  /\ UNCHANGED <<rows, page, dialog, deleting, saving, requests, file>>

(* applyClassSettingsImport *)
Imported ==
  LET class == [Drafted(file) EXCEPT !.id = fresh + 1]
  IN  IF class.schema = None THEN class ELSE [class EXCEPT !.schema.id = fresh + 2]

Import ==
  /\ reading /\ reading' = FALSE
  /\ IF Valid(<<Imported>>)
     THEN editor' = Open("create", None, Imported) /\ fresh' = fresh + 2
     ELSE UNCHANGED <<editor, fresh>>
  /\ UNCHANGED <<rows, list, route, dialog, deleting, saving, requests, file, count>>

----------------------------------------------------------------------------
(* Editing the draft. *)

Edits(draft) ==
  /\ ShowsEditor
  /\ count.edits > 0 /\ count' = [count EXCEPT !.edits = @ - 1]
  /\ editor' = [editor EXCEPT !.draft = draft, !.dirty = TRUE]
  /\ UNCHANGED <<rows, list, route, dialog, deleting, saving, requests, file, reading>>

RenameClass(name) ==
  /\ name # editor.draft.name
  /\ Edits([editor.draft EXCEPT !.name = name]) /\ UNCHANGED fresh

(* The switch of the extraction: a new schema is named after the class. *)
EmptySchema(id, name) == [id |-> id, name |-> name, fields |-> <<EmptyField>>, scene |-> <<>>]

SwitchExtraction ==
  /\ fresh' = fresh + 1
  /\ Edits([editor.draft EXCEPT !.schema =
       IF @ = None THEN EmptySchema(fresh + 1, editor.draft.name) ELSE None])

EditsSchema(schema) == Edits([editor.draft EXCEPT !.schema = schema]) /\ UNCHANGED fresh

RenameSchema(schema, name) ==
  name # schema.name /\ EditsSchema([schema EXCEPT !.name = name])

AddField(schema) ==
  /\ Len(schema.fields) < MaxFields
  /\ EditsSchema([schema EXCEPT !.fields = Append(@, EmptyField)])

RemoveField(schema, i) == EditsSchema([schema EXCEPT !.fields = RemoveAt(@, i)])

EditsField(schema, i, field) == EditsSchema([schema EXCEPT !.fields[i] = field])

RenameField(schema, i, name) ==
  /\ name # schema.fields[i].name
  /\ EditsField(schema, i, [schema.fields[i] EXCEPT !.name = name])

(* For mutation: a plain field keeps its children. *)
SetTypeOnly(schema, i, type) ==
  /\ type # schema.fields[i].type
  /\ EditsField(schema, i, [schema.fields[i] EXCEPT !.type = type])

SetType(schema, i, type) ==
  /\ type # schema.fields[i].type
  /\ EditsField(schema, i, [schema.fields[i] EXCEPT
       !.type = type, !.children = IF type = "object_list" THEN <<Blank>> ELSE <<>>])

(* The one child that is modelled: added, renamed or removed. *)
SetChildren(schema, i, children) ==
  /\ schema.fields[i].type = "object_list" /\ children # schema.fields[i].children
  /\ EditsField(schema, i, [schema.fields[i] EXCEPT !.children = children])

(* What may be typed into a sample. *)
Retyped(field, sample) ==
  {[sample EXCEPT !.anchor = anchor] : anchor \in {"in", "out"}}
  \cup IF field.type = "plain" THEN {[sample EXCEPT !.value = text] : text \in {"raw", "digits"}}
       ELSE {[sample EXCEPT !.child = [label \in DOMAIN @ \cup {c} |-> IF label = c THEN text ELSE @[label]]] :
               c \in Range(field.children), text \in {"raw", "digits"}}

SetExample(schema, i, samples) ==
  /\ samples # schema.fields[i].examples
  /\ EditsField(schema, i, [schema.fields[i] EXCEPT !.examples = samples])

EditExample(schema, i) ==
  LET field == schema.fields[i]
  IN  IF field.examples = <<>> THEN SetExample(schema, i, <<EmptySample(Blank)>>)
      ELSE \/ SetExample(schema, i, <<>>)
           \/ \E s \in Retyped(field, field.examples[1]) : SetExample(schema, i, <<s>>)

EditsScene(schema, scene) == scene # schema.scene /\ EditsSchema([schema EXCEPT !.scene = scene])

AddExtraction(schema) ==
  /\ schema.scene = <<>>
  /\ EditsScene(schema, <<EmptySample(IF schema.fields = <<>> THEN Blank ELSE schema.fields[1].name)>>)

RemoveExtraction(schema) == schema.scene # <<>> /\ EditsScene(schema, <<>>)

(* Choosing the field clears the value. *)
PickField(schema) ==
  /\ schema.scene # <<>>
  /\ \E f \in Range(schema.fields) :
       /\ f.name # Blank
       /\ EditsScene(schema, <<[schema.scene[1] EXCEPT !.field = f.name, !.value = "", !.child = NoValues]>>)

(* The field of the row is the one of exactly that name. *)
EditExtraction(schema) ==
  /\ schema.scene # <<>>
  /\ LET sample == schema.scene[1]
         plain == [EmptyField EXCEPT !.type = "object_list"]
         named == Named(schema.fields, sample.field)
     IN  \E f \in IF named = {} THEN {plain} ELSE named :
           \E s \in Retyped(f, sample) : EditsScene(schema, <<s>>)

EditSchema(schema) ==
  \/ \E name \in Name : RenameSchema(schema, name)
  \/ AddField(schema) \/ AddExtraction(schema) \/ RemoveExtraction(schema)
  \/ PickField(schema) \/ EditExtraction(schema)
  \/ \E i \in DOMAIN schema.fields :
       \/ RemoveField(schema, i)
       \/ \E name \in Name : RenameField(schema, i, name)
       \/ \E type \in {"plain", "object_list"} : SetType(schema, i, type)
       \/ \E children \in {<<>>, <<Blank>>} \cup {<<name>> : name \in Name} : SetChildren(schema, i, children)
       \/ EditExample(schema, i)

Edit ==
  /\ ShowsEditor
  /\ \/ \E name \in Name : RenameClass(name)
     \/ SwitchExtraction
     \/ editor.draft.schema # None /\ EditSchema(editor.draft.schema)

----------------------------------------------------------------------------
Init ==
  /\ rows = Rows(Initial)
  /\ list = [i \in DOMAIN Catalog(rows) |-> Drafted(Catalog(rows)[i])]
  /\ route = List /\ editor = None /\ dialog = None
  /\ deleting = FALSE /\ saving = FALSE
  /\ requests = [s \in Slot |-> None]
  /\ file = None /\ reading = FALSE
  /\ fresh = Max({0} \cup {c.id : c \in Initial} \cup {c.schema.id : c \in {d \in Initial : d.schema # None}})
  /\ count = [user |-> MaxUser, edits |-> MaxEdits, faults |-> MaxFaults]

Administrator ==
  \/ \E r \in {List, New} \cup DOMAIN rows.class : Browse(r)
  \/ Cancel \/ CloseDialog \/ ExportListed \/ ExportEdited \/ PickFile \/ Edit
  \/ \E index \in DOMAIN list : AskDelete(index)
  \/ \E s \in Slot : Save(s) \/ ConfirmDelete(s)

Next ==
  \/ Administrator \/ Import
  \/ \E s \in Slot : Read(s) \/ Commit(s) \/ Answer(s) \/ Apply(s) \/ Finish(s) \/ Fail(s)

Spec == Init /\ [][Next]_vars

----------------------------------------------------------------------------
(* Types; and plain fields have no children, in the catalog, in the list   *)
(* and in the editor, where fieldDtypePatch keeps it so.                   *)
TypeOK ==
  /\ \A c \in Range(Catalog(rows)) \cup Range(list) : c \in Class /\ Shaped(c)
  /\ route \in {List, New} \cup Nat
  /\ editor # None => /\ editor.mode \in {"create", "edit"} /\ editor.dirty \in BOOLEAN
                      /\ editor.index \in Nat \cup {None}
                      /\ editor.draft \in Class /\ Shaped(editor.draft)
  /\ dialog \in Nat \cup {None}
  /\ {deleting, saving, reading} \subseteq BOOLEAN
  /\ \A s \in Slot : requests[s] # None =>
       /\ requests[s].kind \in {"save", "delete"}
       /\ requests[s].phase \in {"sent", "read", "stored", "answered", "applied", "failed"}
       /\ Range(requests[s].classes) \subseteq Class

Others(classes, id) == {c \in Range(classes) : c.id # id}

(* A save edits no class but the one in the editor, whatever has become of *)
(* the list since the editor was opened at its place in it: the others are *)
(* sent as the list shows them.                                            *)
SavesOwnClass ==
  [][\A s \in Slot : requests[s] = None /\ requests'[s] # None /\ requests'[s].kind = "save" =>
       Others(requests'[s].classes, editor.draft.id)
         = {Serialized(c) : c \in Others(list, editor.draft.id)}]_vars

(* What becomes of values that are loaded and saved without an edit. *)
Shortened(sample) ==
  LET Short(text) == IF text = "exponent" THEN "clean" ELSE text
  IN  [sample EXCEPT !.value = Short(@), !.child = [c \in DOMAIN @ |-> Short(@[c])]]

AllShortened(samples) == [i \in DOMAIN samples |-> Shortened(samples[i])]

ShortenedField(field) == [field EXCEPT !.examples = AllShortened(@)]

ShortenedClass(class) ==
  IF class.schema = None THEN class
  ELSE [class EXCEPT !.schema.fields = [i \in DOMAIN @ |-> ShortenedField(@[i])],
                     !.schema.scene = AllShortened(@)]

(* What a request sends is in the form in which it will be read back: to   *)
(* load it and to save it again keeps every field, example and extraction, *)
(* and every value but integers of 1e21 or more, which lose all digits     *)
(* after the first.  And every extraction of a scene names a field of the  *)
(* schema, which the backend does not check.                               *)
SentIsStable ==
  \A s \in Slot : requests[s] # None /\ requests[s].phase = "sent" =>
    \A c \in Range(requests[s].classes) :
      /\ Serialized(Drafted(c)) = ShortenedClass(c)
      /\ c.schema # None => \A e \in Range(c.schema.scene) : Named(c.schema.fields, e.field) # {}
=============================================================================
