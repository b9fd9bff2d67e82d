----------------------------- MODULE GenericRows -----------------------------
(***************************************************************************)
(* One row under the generated CRUD.  A full or a partial update reads the *)
(* row, applies the request, passes the write guard and only then saves,   *)
(* while verbs, which know no guard, and the migration that adds the       *)
(* declared CHECKs run in between.  A client edits a copy it fetched       *)
(* earlier; an upsert carries a create request to the stored row, and a    *)
(* bulk create is a create for each of its rows.  The tables of            *)
(* GenericTables say which columns take part; what the framework behind    *)
(* the handlers does with them (in which order it reads, checks and saves, *)
(* whether a save writes the whole row or the changed columns, whether an  *)
(* upsert spares the protected columns) is not in the repository: the      *)
(* order is the one its write guard needs, the rest is left open.          *)
(***************************************************************************)
EXTENDS GenericTables

CONSTANTS Mounts,    \* what the host may serve: "all_crud", "readonly", "entity_routes"
          Varied,    \* per kind, the columns that take more than one value
          None, Unborn, Purged

ASSUME GenericRowsAssumption ==
  /\ Mounts \subseteq {"all_crud", "readonly", "entity_routes"}
  /\ DOMAIN Varied \subseteq Kinds
  /\ \A k \in DOMAIN Varied : Varied[k] \subseteq DOMAIN Columns[k]

VARIABLES kind,      \* the entity of the row
          mount,     \* what the host serves
          row,       \* the stored row, or Unborn, or Purged
          checked,   \* the declared rules the database has a CHECK for
          copy,      \* the columns a client fetched, or None
          edit,      \* an update that passed the guard and is not saved yet, or None
          upserted   \* whether an upsert has found the row

vars == <<kind, mount, row, checked, copy, edit, upserted>>

\* The values that matter to the rules; "null" only where the source has an Option.
Values(sort) ==
  CASE sort \in {"uuid", "moment", "flag"} -> {"ok", "other"}
    [] sort \in {"uuid?", "moment?", "json?"} -> {"ok", "null"}
    [] sort = "count" -> {"ok", "other", "negative"}
    [] sort = "text" -> {"ok", "other", "long", "blank"}
    [] sort = "slug" -> {"ok", "long", "blank", "misshapen"}
    [] sort = "day" -> {"ok", "other", "midday"}
    [] OTHER -> {"ok", "long", "null"}   \* "text?"
AnyValue == {"ok", "other", "long", "blank", "negative", "null", "misshapen", "midday"}

\* The marks of a row that is not there are no rows.
ASSUME MarksAssumption ==
  /\ Unborn /= Purged
  /\ \A k \in DOMAIN Varied :
       \A m \in {Unborn, Purged} :
         m \notin [cells : [DOMAIN Columns[k] -> AnyValue], trashed : BOOLEAN]

Fields == DOMAIN Columns[kind]
Parses(c, v) == v \in Values(Columns[kind][c])
Cells == {[c \in Fields |-> IF c \in Varied[kind] THEN f[c] ELSE "ok"] :
            f \in {g \in [Varied[kind] -> AnyValue] : \A c \in Varied[kind] : Parses(c, g[c])}}

Stored == row \notin {Unborn, Purged}
Live == Stored /\ ~row.trashed

-----------------------------------------------------------------------------
(* Rules *)

\* Whether value v breaks what a rule asks; a null breaks only "required", and an empty slug
\* is misshapen as well.
Breaks(v, asked) ==
  CASE asked = "required" -> v \in {"null", "blank"}
    [] asked = "max_length" -> v = "long"
    [] asked = "non_negative" -> v = "negative"
    [] asked = "shape" -> v \in {"blank", "misshapen"}
    [] asked = "day" -> v = "midday"
Fits(cells, rules) == \A r \in rules : ~Breaks(cells[r[1]], r[2])

\* The guard of an update looks at the rules of the columns that change.
GuardsWholeRow(before, after) == Fits(after, Guarded[kind])
GuardAllows(before, after) ==
  Fits(after, {r \in Guarded[kind] : after[r[1]] /= before[r[1]]})

-----------------------------------------------------------------------------
(* Generic requests *)

MayWrite == kind \in Writable(mount)

Fetch ==
  /\ Live
  /\ copy' = [c \in Shown[kind] |-> row.cells[c]]
  /\ UNCHANGED <<kind, mount, row, checked, edit, upserted>>

\* The row a create request makes.
FromDto(dto) == [c \in Fields |-> IF c \in CreateDto[kind] \intersect FromCreate[kind]
                                  THEN dto[c] ELSE "null"]

\* A create, or an upsert that finds no row, is checked against every rule, then by the
\* database.
Create ==
  /\ MayWrite
  /\ row = Unborn
  /\ \E dto \in Cells :
       /\ Fits(FromDto(dto), Guarded[kind] \union checked)
       /\ row' = [cells |-> FromDto(dto), trashed |-> FALSE]
  /\ UNCHANGED <<kind, mount, checked, copy, edit, upserted>>

\* An update that the guard lets pass; one it refuses changes nothing.  It remembers in which
\* columns the request was written on an older row than the one that is there.
Accept(asked, stale, after) ==
  /\ MayWrite
  /\ Live
  /\ edit = None
  /\ GuardAllows(row.cells, after)
  /\ edit' = [asked |-> asked, before |-> row.cells, after |-> after, stale |-> stale]
  /\ UNCHANGED <<kind, mount, row, checked, copy>>

\* An upsert that finds the row, which may spare the protected columns.
Upsert ==
  /\ Live
  /\ \E dto \in Cells : \E spared \in {{}, Protected(kind)} :
       Accept(None, {}, [c \in Fields |-> IF c \in spared THEN row.cells[c]
                                                          ELSE FromDto(dto)[c]])
  /\ upserted' = TRUE

\* What a full update makes of the row.
Updated(dto) == [d \in Fields |-> IF d \in Applied[kind] \intersect UpdateDto[kind]
                                  THEN dto[d] ELSE row.cells[d]]

\* PUT: the client sends its copy with one column changed.
Put ==
  /\ Live
  /\ copy /= None
  /\ \E c \in Varied[kind] \intersect UpdateDto[kind] :
       \E v \in Values(Columns[kind][c]) :
         Accept([column |-> c, value |-> v], {d \in Fields : copy[d] /= row.cells[d]},
                Updated([copy EXCEPT ![c] = v]))
  /\ UNCHANGED upserted

\* PATCH: one column; a protected column, an unknown key and a value that does not parse are
\* ignored.
Heeded(c, v) == c \notin Protected(kind) /\ Parses(c, v)
Patch ==
  /\ Live
  /\ \E c \in Varied[kind] : \E v \in AnyValue :
       Accept([column |-> c, value |-> IF Heeded(c, v) THEN v ELSE row.cells[c]], {},
              [d \in Fields |-> IF d = c /\ c \in Patched[kind] /\ Heeded(c, v)
                                THEN v ELSE row.cells[d]])
  /\ UNCHANGED upserted

\* Another client's update, read, checked and saved while one is in flight.
Overtake ==
  /\ MayWrite
  /\ Live
  /\ edit /= None
  /\ \E dto \in Cells :
       /\ GuardAllows(row.cells, Updated(dto))
       /\ Fits(Updated(dto), checked)
       /\ row' = [row EXCEPT !.cells = Updated(dto)]
  /\ UNCHANGED <<kind, mount, checked, copy, edit, upserted>>

\* What a save makes of the row as it is now: the whole row, or what the update changed.
WholeRow(now) == edit.after
ChangedColumns(now) ==
  [c \in Fields |-> IF edit.after[c] /= edit.before[c] THEN edit.after[c] ELSE now[c]]

\* The database has the last word; a row that went to the trash is not found.
Save ==
  /\ edit /= None
  /\ edit' = None
  /\ \/ /\ Live
        /\ \E cells \in {WholeRow(row.cells), ChangedColumns(row.cells)} :
             row' = IF Fits(cells, checked) THEN [row EXCEPT !.cells = cells] ELSE row
     \/ ~Live /\ UNCHANGED row
  /\ UNCHANGED <<kind, mount, checked, copy, upserted>>

Delete ==
  /\ MayWrite
  /\ Live
  /\ row' = IF HasTrash(kind) THEN [row EXCEPT !.trashed = TRUE] ELSE Purged
  /\ UNCHANGED <<kind, mount, checked, copy, edit, upserted>>

Restore ==
  /\ MayWrite
  /\ Stored
  /\ row.trashed
  /\ row' = [row EXCEPT !.trashed = FALSE]
  /\ UNCHANGED <<kind, mount, checked, copy, edit, upserted>>

EmptyTrash ==
  /\ MayWrite
  /\ Stored
  /\ row.trashed
  /\ row' = Purged
  /\ UNCHANGED <<kind, mount, checked, copy, edit, upserted>>

-----------------------------------------------------------------------------
(* The others that write the row *)

\* The verbs refuse blank texts, but for a new title of a post, let long ones pass, and
\* count visits up from zero.
VerbValues(c) == Values(Columns[kind][c]) \ {"blank", "negative"}
NewValues(c) == VerbValues(c) \union (IF c = "title" THEN {"blank"} ELSE {})

VerbCreate ==
  /\ row = Unborn
  /\ \E cells \in Cells :
       /\ \A c \in Varied[kind] : cells[c] \in VerbValues(c)
       /\ Fits(cells, checked)
       /\ row' = [cells |-> cells, trashed |-> FALSE]
  /\ UNCHANGED <<kind, mount, checked, copy, edit, upserted>>

\* No verb rewrites a link or a receipt.
VerbWrite ==
  /\ Stored
  /\ \E c \in Varied[kind] \intersect (IF Live THEN VerbColumns(kind) ELSE Swept(kind)) :
       \E v \in NewValues(c) :
         LET cells == [row.cells EXCEPT ![c] = v]
         IN  /\ c \in PatchArms => v /= "null"
             /\ Fits(cells, checked)
             /\ row' = [row EXCEPT !.cells = cells]
  /\ UNCHANGED <<kind, mount, checked, copy, edit, upserted>>

\* Posts have no delete; links and expired receipts go whether in the trash or not.
VerbDelete ==
  /\ \/ kind \in {"Blog", "TagCategory", "Tag"} /\ Live
     \/ kind \in {"PostTag", "PostViewReceipt"} /\ Stored
  /\ row' = Purged
  /\ UNCHANGED <<kind, mount, checked, copy, edit, upserted>>

\* The migration adds each CHECK that no stored row breaks, trash included.
KeepsLive(r) == Live => ~Breaks(row.cells[r[1]], r[2])
KeepsRows(r) == Stored => ~Breaks(row.cells[r[1]], r[2])
Migrate ==
  /\ checked' = checked \union {r \in Declared[kind] : KeepsRows(r)}
  /\ UNCHANGED <<kind, mount, row, copy, edit, upserted>>

-----------------------------------------------------------------------------
Init ==
  /\ kind \in DOMAIN Varied
  /\ mount \in Mounts
  /\ row = Unborn
  /\ checked = Shapes[kind] \union Inline(kind)
  /\ copy = None
  /\ edit = None
  /\ upserted = FALSE

Next ==
  \/ Fetch
  \/ Create
  \/ Upsert
  \/ Put
  \/ Patch
  \/ Overtake
  \/ Save
  \/ Delete
  \/ Restore
  \/ EmptyTrash
  \/ VerbCreate
  \/ VerbWrite
  \/ VerbDelete
  \/ Migrate

Spec == Init /\ [][Next]_vars

-----------------------------------------------------------------------------
(* Properties *)

\* Types: the row and the update in flight have the columns of the entity, with values of
\* their sorts, and the CHECKs are those of the two migrations.
TypeOK ==
  /\ kind \in DOMAIN Varied
  /\ mount \in Mounts
  /\ Stored => row \in [cells : Cells, trashed : BOOLEAN]
  /\ checked \subseteq Declared[kind] \union Shapes[kind]
  /\ copy = None \/ copy \in Cells
  /\ edit /= None => edit.before \in Cells /\ edit.after \in Cells
  /\ upserted \in BOOLEAN

\* Why an update the guard let pass may still meet the CHECK of rule r: it rewrites a slug or
\* a receipt's day, whose shape no row rule asks for; or it saves the whole row and takes a
\* column back that others have rewritten since it was checked.
Asks(c) == edit.after[c] /= edit.before[c]
ShapeAsked(r) == r \in Shapes[kind] /\ Asks(r[1])
Overtaken(r) == ~Asks(r[1]) /\ row.cells[r[1]] /= edit.before[r[1]]

\* The state is well typed, and a database error for what should be a 422 has one of two
\* causes: when the CHECKs, whichever were added since, refuse an update the guard let pass,
\* it wrote a misshapen slug or receipt day, or it is a save of the whole row that undoes
\* others' writes.  A save of the changed columns meets no CHECK but the shapes, whatever
\* the verbs did to the row in between.
GuardSparesChecks ==
  /\ TypeOK
  /\ edit /= None /\ Live =>
       \A r \in checked :
         /\ Breaks(ChangedColumns(row.cells)[r[1]], r[2]) => ShapeAsked(r)
         /\ Breaks(WholeRow(row.cells)[r[1]], r[2]) => ShapeAsked(r) \/ Overtaken(r)

\* An update is what was asked: it gives the one column its value, and a full update changes
\* no other column but those the client's copy is stale in, a partial update none at all.
WritesAsAsked ==
  edit /= None /\ edit.asked /= None =>
    /\ edit.after[edit.asked.column] = edit.asked.value
    /\ \A c \in Fields \ {edit.asked.column} : Asks(c) => c \in edit.stale

\* The key that a visit is told from its repetitions by is written once, even where a host
\* serves the write routes of receipts: until an upsert, whose create request carries it, finds
\* the receipt, no full or partial update, no verb and no migration rewrites the token.
TokenStandsUntilUpsert ==
  [][kind = "PostViewReceipt" /\ Stored /\ Stored' /\ ~upserted' =>
       row'.cells["view_token"] = row.cells["view_token"]]_vars

\* A row that a verb stored against the rules stays editable: a change of a column to a value
\* its rules and CHECKs allow passes the guard and the CHECKs, whatever the other columns
\* hold.
LegacyRowsEditable ==
  Live => \A c \in Varied[kind] : \A v \in Values(Columns[kind][c]) :
            LET after == [row.cells EXCEPT ![c] = v]
            IN  Fits(after, {r \in Declared[kind] \union Shapes[kind] : r[1] = c}) =>
                  GuardAllows(row.cells, after) /\ Fits(after, checked)
=============================================================================
