-------------------------- MODULE GenericRowsProofs --------------------------
(***************************************************************************)
(* Theorems about GenericRows, for any mounts, any columns that vary and   *)
(* either extent of a save.                                                *)
(***************************************************************************)
EXTENDS GenericRows, TLAPS

-----------------------------------------------------------------------------
(* The tables *)

\* The lists of columns an entity's requests and responses carry are its columns, but for a
\* receipt's token, and what the write guard asks is what the schema declares.
LEMMA TablesAgree ==
  ASSUME NEW k \in Kinds
  PROVE  /\ CreateDto[k] \intersect FromCreate[k] = DOMAIN Columns[k]
         /\ Patched[k] = DOMAIN Columns[k]
         /\ Shown[k] = DOMAIN Columns[k]
         /\ Applied[k] = UpdateDto[k]
         /\ Declared[k] = Guarded[k]
         /\ Inline(k) \subseteq Declared[k]
         /\ k = "PostViewReceipt" =>
              /\ "view_token" \notin UpdateDto[k]
              /\ "view_token" \in DOMAIN Columns[k]
<1>1. CASE k = "Blog"
  BY <1>1 DEF CreateDto, BlogCreateDto, FromCreate, BlogFromCreate, Columns, Patched,
     BlogPatched, Shown, BlogShown, Applied, BlogApplied, UpdateDto, BlogUpdateDto, Declared,
     Guarded, BlogRules, Inline
<1>2. CASE k = "Post"
  BY <1>2 DEF CreateDto, PostCreateDto, FromCreate, PostFromCreate, Columns, Patched,
     PostPatched, Shown, PostShown, Applied, PostApplied, UpdateDto, PostUpdateDto, Declared,
     Guarded, PostRules, Inline
<1>3. CASE k = "PostTag"
  BY <1>3 DEF CreateDto, PostTagCreateDto, FromCreate, PostTagFromCreate, Columns, Patched,
     PostTagPatched, Shown, PostTagShown, Applied, PostTagApplied, UpdateDto,
     PostTagUpdateDto, Declared, Guarded, PostTagRules, Inline
<1>4. CASE k = "PostViewReceipt"
  BY <1>4 DEF CreateDto, ReceiptCreateDto, FromCreate, ReceiptFromCreate, Columns, Patched,
     ReceiptPatched, Shown, ReceiptShown, Applied, ReceiptApplied, UpdateDto,
     ReceiptUpdateDto, Declared, Guarded, ReceiptRules, ReceiptColumns, Inline
<1>5. CASE k = "TagCategory"
  BY <1>5 DEF CreateDto, CategoryCreateDto, FromCreate, CategoryFromCreate, Columns, Patched,
     CategoryPatched, Shown, CategoryShown, Applied, CategoryApplied, UpdateDto,
     CategoryUpdateDto, Declared, Guarded, CategoryRules, Inline
<1>6. CASE k = "Tag"
  BY <1>6 DEF CreateDto, TagCreateDto, FromCreate, TagFromCreate, Columns, Patched,
     TagPatched, Shown, TagShown, Applied, TagApplied, UpdateDto, TagUpdateDto, Declared,
     Guarded, TagRules, Inline
<1> QED
  BY <1>1, <1>2, <1>3, <1>4, <1>5, <1>6 DEF Kinds

\* The CHECKs are of columns of the entity.
LEMMA RulesOfColumns ==
  ASSUME NEW k \in Kinds, NEW r \in Guarded[k] \union Shapes[k]
  PROVE  r[1] \in DOMAIN Columns[k]
<1>1. CASE k = "Blog"
  BY <1>1 DEF Guarded, Shapes, BlogRules, Required, AtMost, Columns, BlogColumns
<1>2. CASE k = "Post"
  BY <1>2 DEF Guarded, Shapes, PostRules, Required, AtMost, Columns, PostColumns
<1>3. CASE k = "PostTag"
  BY <1>3 DEF Guarded, Shapes, PostTagRules, Required, AtMost, Columns, PostTagColumns
<1>4. CASE k = "PostViewReceipt"
  BY <1>4 DEF Guarded, Shapes, ReceiptRules, Required, AtMost, Columns, ReceiptColumns
<1>5. CASE k = "TagCategory"
  BY <1>5 DEF Guarded, Shapes, CategoryRules, Required, AtMost, Columns, CategoryColumns
<1>6. CASE k = "Tag"
  BY <1>6 DEF Guarded, Shapes, TagRules, Required, AtMost, Columns, TagColumns
<1> QED
  BY <1>1, <1>2, <1>3, <1>4, <1>5, <1>6 DEF Kinds

\* Only a post has a title, and it is a text.
LEMMA TitleIsText ==
  ASSUME NEW k \in Kinds, "title" \in DOMAIN Columns[k]
  PROVE  Columns[k]["title"] = "text"
BY DEF Kinds, Columns, BlogColumns, PostColumns, PostTagColumns, ReceiptColumns,
   CategoryColumns, TagColumns

\* No sort has a value beyond AnyValue.
LEMMA ValuesAny == ASSUME NEW s PROVE Values(s) \subseteq AnyValue
BY DEF Values, AnyValue

-----------------------------------------------------------------------------
(* Rows *)

Varies(c) == c \in Varied[kind]

\* A row of cells gives every column a value of its sort, and the fixed one where it does
\* not vary.
LEMMA CellsShape ==
  ASSUME kind \in DOMAIN Varied
  PROVE  \A x : x \in Cells <=>
           /\ x \in [Fields -> AnyValue]
           /\ \A c \in Fields : IF Varies(c) THEN Parses(c, x[c]) ELSE x[c] = "ok"
<1> DEFINE Fixed(f) == [c \in Fields |-> IF c \in Varied[kind] THEN f[c] ELSE "ok"]
<1>1. Varied[kind] \subseteq Fields
  BY GenericRowsAssumption DEF Fields
<1>2. ASSUME NEW x, x \in Cells
      PROVE  /\ x \in [Fields -> AnyValue]
             /\ \A c \in Fields : IF Varies(c) THEN Parses(c, x[c]) ELSE x[c] = "ok"
  <2>1. PICK f \in [Varied[kind] -> AnyValue] :
          (\A c \in Varied[kind] : Parses(c, f[c])) /\ x = Fixed(f)
    BY <1>2 DEF Cells
  <2>2. "ok" \in AnyValue
    BY DEF AnyValue
  <2> QED
    BY <1>1, <2>1, <2>2 DEF Varies
<1>3. ASSUME NEW x, x \in [Fields -> AnyValue],
             \A c \in Fields : IF Varies(c) THEN Parses(c, x[c]) ELSE x[c] = "ok"
      PROVE  x \in Cells
  <2> DEFINE f == [c \in Varied[kind] |-> x[c]]
  <2>1. f \in [Varied[kind] -> AnyValue] /\ \A c \in Varied[kind] : Parses(c, f[c])
    BY <1>1, <1>3 DEF Varies
  <2>2. x = Fixed(f)
    BY <1>1, <1>3 DEF Varies
  <2> HIDE DEF f
  <2> QED
    BY <2>1, <2>2 DEF Cells
<1> QED
  BY <1>2, <1>3

\* A row stays one when a column that varies takes a value of its sort.
LEMMA CellsExcept ==
  ASSUME kind \in DOMAIN Varied, NEW x \in Cells, NEW c \in Varied[kind],
         NEW v \in Values(Columns[kind][c])
  PROVE  [x EXCEPT ![c] = v] \in Cells
<1>1. c \in Fields /\ v \in AnyValue
  BY GenericRowsAssumption, ValuesAny DEF Fields
<1> QED
  BY <1>1, CellsShape DEF Parses, Varies

\* A row made of the columns of two rows is one.
LEMMA CellsMixed ==
  ASSUME kind \in DOMAIN Varied, NEW x \in Cells, NEW y \in Cells, NEW S
  PROVE  [c \in Fields |-> IF c \in S THEN x[c] ELSE y[c]] \in Cells
BY CellsShape

\* A create takes every column from its request.
LEMMA FromDtoIsDto ==
  ASSUME kind \in DOMAIN Varied, NEW dto \in Cells
  PROVE  FromDto(dto) = dto
BY CellsShape, TablesAgree, GenericRowsAssumption DEF FromDto, Fields

\* A full update makes a row of it, and no other token.
LEMMA UpdatedIsRow ==
  ASSUME kind \in DOMAIN Varied, row.cells \in Cells, NEW dto \in Cells
  PROVE  /\ Updated(dto) \in Cells
         /\ kind = "PostViewReceipt" => Updated(dto)["view_token"] = row.cells["view_token"]
<1>1. Updated(dto) \in Cells
  BY CellsMixed DEF Updated
<1>2. kind \in Kinds
  BY GenericRowsAssumption
<1> QED
  BY <1>1, <1>2, TablesAgree DEF Updated, Fields

\* A row is no mark.
LEMMA RowsAreStored ==
  ASSUME kind \in DOMAIN Varied, NEW x \in Cells, NEW b \in BOOLEAN
  PROVE  [cells |-> x, trashed |-> b] \notin {Unborn, Purged}
BY CellsShape, MarksAssumption DEF Fields

-----------------------------------------------------------------------------
(* The inductive invariant *)

\* Nobody edits a row that was never there, a stored row meets the CHECKs the database has,
\* an update in flight has passed the guard, and until an upsert finds a receipt it leaves the
\* token alone.
Unedited == row = Unborn => edit = None
RowFits == Stored => Fits(row.cells, checked)
EditGuarded == edit /= None => GuardAllows(edit.before, edit.after)
TokenKept ==
  kind = "PostViewReceipt" /\ edit /= None /\ ~upserted /\ Stored =>
    edit.after["view_token"] = row.cells["view_token"]

IInv == TypeOK /\ Unedited /\ RowFits /\ EditGuarded /\ WritesAsAsked /\ TokenKept

\* Which entity the row is of never changes, nor what the host serves.
Frame == kind' = kind /\ mount' = mount /\ Cells' = Cells

\* No step changes the kind of the row or the mount.
LEMMA FrameKept == [Next]_vars => Frame
<1> SUFFICES ASSUME [Next]_vars PROVE kind' = kind /\ mount' = mount
  BY DEF Frame, Cells, Fields, Parses
<1> QED
  BY DEF Next, vars, Fetch, Create, Upsert, Put, Patch, Overtake, Accept, Save, Delete, Restore,
     EmptyTrash, VerbCreate, VerbWrite, VerbDelete, Migrate

\* The invariant holds of a row that is not yet there.
LEMMA InitIInv == Init => IInv
<1> SUFFICES ASSUME Init PROVE IInv
  OBVIOUS
<1>1. kind \in Kinds /\ Inline(kind) \subseteq Declared[kind]
  BY TablesAgree, GenericRowsAssumption DEF Init
<1> QED
  BY <1>1 DEF Init, IInv, TypeOK, Unedited, RowFits, EditGuarded, WritesAsAsked, TokenKept, Stored

\* What the row becomes is all that matters to the invariant when the update in flight and
\* the copy stay.
LEMMA RowChanges ==
  ASSUME IInv, Frame, checked' = checked, copy' = copy, edit' = edit,
         row' \in [cells : Cells, trashed : BOOLEAN],
         Fits(row'.cells, checked),
         upserted' = upserted,
         row = Unborn => edit = None,
         kind = "PostViewReceipt" =>
           row = Unborn \/ row'.cells["view_token"] = row.cells["view_token"],
         Stored \/ row = Unborn
  PROVE  IInv'
<1> USE DEF IInv, Frame
<1>1. TypeOK'
  BY DEF TypeOK
<1>2. row' \notin {Unborn, Purged}
  BY RowsAreStored DEF TypeOK
<1>3. Unedited' /\ RowFits'
  BY <1>2 DEF Unedited, RowFits, Fits, Breaks
<1>4. EditGuarded'
  BY DEF EditGuarded, GuardAllows, Fits, Breaks
<1>5. WritesAsAsked'
  BY DEF WritesAsAsked, Asks, Fields
<1>6. TokenKept'
  BY DEF TokenKept, Stored
<1> QED
  BY <1>1, <1>3, <1>4, <1>5, <1>6

\* The row is gone.
LEMMA RowGoes ==
  ASSUME IInv, Frame, checked' = checked, copy' = copy, edit' = edit,
         upserted' = upserted, row' = Purged
  PROVE  IInv'
BY MarksAssumption DEF IInv, Frame, TypeOK, Stored, Unedited, RowFits, EditGuarded,
   GuardAllows, Fits, Breaks, WritesAsAsked, Asks, Fields, TokenKept

-----------------------------------------------------------------------------
(* Every action keeps it *)

\* A create, of the CRUD or a verb, keeps the invariant.
LEMMA CreateIInv == IInv /\ Frame /\ (Create \/ VerbCreate) => IInv'
<1> SUFFICES ASSUME IInv, Frame, Create \/ VerbCreate PROVE IInv'
  OBVIOUS
<1>1. kind \in DOMAIN Varied /\ kind \in Kinds
  BY GenericRowsAssumption DEF IInv, TypeOK
<1>2. CASE Create
  <2>1. PICK dto \in Cells : /\ Fits(FromDto(dto), Guarded[kind] \union checked)
                             /\ row' = [cells |-> FromDto(dto), trashed |-> FALSE]
    BY <1>2 DEF Create
  <2>2. FromDto(dto) = dto
    BY <1>1, FromDtoIsDto
  <2>3. Fits(dto, checked) /\ row' = [cells |-> dto, trashed |-> FALSE]
    BY <2>1, <2>2 DEF Fits
  <2> QED
    BY <1>2, <2>3, RowChanges DEF Create, IInv, Unedited
<1>3. CASE VerbCreate
  <2>1. PICK cells \in Cells : Fits(cells, checked) /\ row' = [cells |-> cells, trashed |-> FALSE]
    BY <1>3 DEF VerbCreate
  <2> QED
    BY <1>3, <2>1, RowChanges DEF VerbCreate, IInv, Unedited
<1> QED
  BY <1>2, <1>3

\* An update passes the guard against the row as it is now.
LEMMA AcceptIInv ==
  ASSUME IInv, Frame, NEW asked, NEW stale, NEW after \in Cells, Accept(asked, stale, after),
         upserted' \in BOOLEAN,
         asked /= None =>
           /\ after[asked.column] = asked.value
           /\ \A c \in Fields \ {asked.column} : after[c] /= row.cells[c] => c \in stale,
         kind = "PostViewReceipt" /\ ~upserted' => after["view_token"] = row.cells["view_token"]
  PROVE  IInv'
<1> USE DEF IInv, Frame, Accept
<1>1. row.cells \in Cells /\ row /= Unborn
  BY DEF TypeOK, Live, Stored
<1>2. TypeOK'
  BY <1>1 DEF TypeOK, Stored
<1>3. Unedited' /\ RowFits'
  BY <1>1 DEF Unedited, RowFits, Fits, Breaks, Stored
<1>4. EditGuarded'
  BY DEF EditGuarded, GuardAllows, Fits, Breaks
<1>5. WritesAsAsked'
  BY DEF WritesAsAsked, Asks, Fields
<1>6. TokenKept'
  BY DEF TokenKept, Stored
<1> QED
  BY <1>2, <1>3, <1>4, <1>5, <1>6

\* An upsert keeps the invariant.
LEMMA UpsertIInv == IInv /\ Frame /\ Upsert => IInv'
<1> SUFFICES ASSUME IInv, Frame, Upsert PROVE IInv'
  OBVIOUS
<1>1. kind \in DOMAIN Varied /\ kind \in Kinds /\ row.cells \in Cells
  BY GenericRowsAssumption DEF IInv, TypeOK, Upsert, Live
<1>2. PICK dto \in Cells, spared \in {{}, Protected(kind)} :
        Accept(None, {}, [c \in Fields |-> IF c \in spared THEN row.cells[c]
                                                            ELSE FromDto(dto)[c]])
  BY DEF Upsert
<1> DEFINE after == [c \in Fields |-> IF c \in spared THEN row.cells[c] ELSE FromDto(dto)[c]]
<1>3. after \in Cells
  BY <1>1, FromDtoIsDto, CellsMixed
<1>4. upserted' = TRUE
  BY DEF Upsert
<1> HIDE DEF after
<1> QED
  BY <1>2, <1>3, <1>4, AcceptIInv DEF after

\* A PUT keeps the invariant.
LEMMA PutIInv == IInv /\ Frame /\ Put => IInv'
<1> SUFFICES ASSUME IInv, Frame, Put PROVE IInv'
  OBVIOUS
<1>1. kind \in DOMAIN Varied /\ kind \in Kinds /\ row.cells \in Cells /\ copy \in Cells
  BY GenericRowsAssumption DEF IInv, TypeOK, Put, Live
<1>0. PICK c \in Varied[kind] \intersect UpdateDto[kind] :
        \E v \in Values(Columns[kind][c]) :
          Accept([column |-> c, value |-> v], {d \in Fields : copy[d] /= row.cells[d]},
                 Updated([copy EXCEPT ![c] = v]))
  BY DEF Put
<1>2. PICK v \in Values(Columns[kind][c]) :
        Accept([column |-> c, value |-> v], {d \in Fields : copy[d] /= row.cells[d]},
               Updated([copy EXCEPT ![c] = v]))
  BY <1>0
<1> DEFINE dto == [copy EXCEPT ![c] = v]
           after == Updated(dto)
           stale == {d \in Fields : copy[d] /= row.cells[d]}
<1>3. dto \in Cells
  BY <1>1, CellsExcept
<1>4. after \in Cells /\ (kind = "PostViewReceipt" => after["view_token"] = row.cells["view_token"])
  <2> HIDE DEF dto
  <2> QED
    BY <1>1, <1>3, UpdatedIsRow
<1>5. c \in Fields /\ c \in Applied[kind] \intersect UpdateDto[kind]
  BY <1>1, TablesAgree, GenericRowsAssumption DEF Fields
<1>6. after[c] = v
  BY <1>1, <1>5, CellsShape DEF Updated
<1>7. \A d \in Fields \ {c} : after[d] /= row.cells[d] => d \in stale
  BY <1>1, <1>5, CellsShape DEF Updated
<1>8. upserted' \in BOOLEAN
  BY DEF Put, IInv, TypeOK
<1> DEFINE asked == [column |-> c, value |-> v]
<1>9. asked.column = c /\ asked.value = v
  OBVIOUS
<1> HIDE DEF after, stale, asked
<1> QED
  BY <1>2, <1>4, <1>6, <1>7, <1>8, <1>9, AcceptIInv DEF after, stale, asked

\* A PATCH keeps the invariant.
LEMMA PatchIInv == IInv /\ Frame /\ Patch => IInv'
<1> SUFFICES ASSUME IInv, Frame, Patch PROVE IInv'
  OBVIOUS
<1>1. kind \in DOMAIN Varied /\ kind \in Kinds /\ row.cells \in Cells
  BY GenericRowsAssumption DEF IInv, TypeOK, Patch, Live
<1>2. PICK c \in Varied[kind], v \in AnyValue :
        Accept([column |-> c, value |-> IF Heeded(c, v) THEN v ELSE row.cells[c]], {},
               [d \in Fields |-> IF d = c /\ c \in Patched[kind] /\ Heeded(c, v)
                                 THEN v ELSE row.cells[d]])
  BY DEF Patch
<1> DEFINE new == IF Heeded(c, v) THEN v ELSE row.cells[c]
           asked == [column |-> c, value |-> new]
           after == [d \in Fields |-> IF d = c /\ c \in Patched[kind] /\ Heeded(c, v)
                                      THEN v ELSE row.cells[d]]
<1>3. c \in Fields /\ c \in Patched[kind]
  BY <1>1, TablesAgree, GenericRowsAssumption DEF Fields
<1>4. after = [row.cells EXCEPT ![c] = new]
  BY <1>1, <1>3, CellsShape
<1>5. new \in Values(Columns[kind][c])
  BY <1>1, <1>3, CellsShape DEF Heeded, Parses, Varies
<1>6. after \in Cells
  BY <1>1, <1>4, <1>5, CellsExcept
<1>7. kind = "PostViewReceipt" => after["view_token"] = row.cells["view_token"]
  BY <1>1, TablesAgree DEF Fields, Heeded, Protected, ReceiptProtected
<1>8. upserted' \in BOOLEAN
  BY DEF Patch, IInv, TypeOK
<1>9. after[c] = new /\ \A d \in Fields \ {c} : after[d] = row.cells[d]
  BY <1>1, <1>3
<1>10. asked.column = c /\ asked.value = new
  OBVIOUS
<1> HIDE DEF after, new, asked
<1> QED
  BY <1>2, <1>6, <1>7, <1>8, <1>9, <1>10, AcceptIInv DEF after, new, asked

\* Another client's update is a row that meets the CHECKs.
LEMMA OvertakeIInv == IInv /\ Frame /\ Overtake => IInv'
<1> SUFFICES ASSUME IInv, Frame, Overtake PROVE IInv'
  OBVIOUS
<1>1. /\ kind \in DOMAIN Varied /\ kind \in Kinds
      /\ row \in [cells : Cells, trashed : BOOLEAN]
  BY GenericRowsAssumption DEF IInv, TypeOK, Overtake, Live
<1>2. PICK dto \in Cells : /\ Fits(Updated(dto), checked)
                           /\ row' = [row EXCEPT !.cells = Updated(dto)]
  BY DEF Overtake
<1>3. /\ Updated(dto) \in Cells
      /\ kind = "PostViewReceipt" => Updated(dto)["view_token"] = row.cells["view_token"]
  BY <1>1, UpdatedIsRow
<1>4. row' \in [cells : Cells, trashed : BOOLEAN] /\ row'.cells = Updated(dto)
  BY <1>1, <1>2, <1>3
<1> QED
  BY <1>2, <1>3, <1>4, RowChanges DEF Overtake, Live, IInv, Unedited

\* The write of a guarded edit keeps the invariant.
LEMMA SaveIInv == IInv /\ Frame /\ Save => IInv'
<1> SUFFICES ASSUME IInv, Frame, Save PROVE IInv'
  OBVIOUS
<1> USE DEF IInv, Frame
<1>1. /\ checked' = checked /\ copy' = copy /\ edit' = None /\ edit /= None
      /\ upserted' = upserted
      /\ kind \in DOMAIN Varied
  BY DEF Save, TypeOK
<1>2. \/ row' = row
      \/ row' \in [cells : Cells, trashed : BOOLEAN] /\ Fits(row'.cells, checked)
  <2>1. CASE Live
    <3>1. /\ row \in [cells : Cells, trashed : BOOLEAN]
          /\ row.cells \in Cells
          /\ edit.after \in Cells
      BY <1>1, <2>1 DEF TypeOK, Live
    <3>2. PICK cells \in {WholeRow(row.cells), ChangedColumns(row.cells)} :
            row' = IF Fits(cells, checked) THEN [row EXCEPT !.cells = cells] ELSE row
      BY <2>1 DEF Save
    <3>3. ChangedColumns(row.cells) \in Cells
      <4> DEFINE S == {c \in Fields : edit.after[c] /= edit.before[c]}
      <4>1. ChangedColumns(row.cells)
              = [c \in Fields |-> IF c \in S THEN edit.after[c] ELSE row.cells[c]]
        BY DEF ChangedColumns
      <4> HIDE DEF S
      <4> DEFINE x == edit.after
                 y == row.cells
      <4>2. x \in Cells /\ y \in Cells
        BY <3>1
      <4> HIDE DEF x, y
      <4>3. [c \in Fields |-> IF c \in S THEN x[c] ELSE y[c]] \in Cells
        BY ONLY <1>1, <4>2, CellsMixed
      <4> QED
        BY <4>1, <4>3 DEF x, y
    <3>4. cells \in Cells
      BY <3>1, <3>3 DEF WholeRow
    <3> QED
      BY <3>1, <3>2, <3>4
  <2>2. CASE ~Live
    BY <2>2 DEF Save
  <2> QED
    BY <2>1, <2>2
<1>3. TypeOK'
  BY <1>1, <1>2 DEF TypeOK, Stored
<1>4. RowFits'
  BY <1>1, <1>2 DEF RowFits, Stored, Fits, Breaks
<1>5. Unedited' /\ EditGuarded' /\ WritesAsAsked' /\ TokenKept'
  BY <1>1 DEF Unedited, EditGuarded, WritesAsAsked, TokenKept
<1> QED
  BY <1>3, <1>4, <1>5

\* To the trash, back, and out of it.
LEMMA TrashIInv == IInv /\ Frame /\ (Delete \/ Restore \/ EmptyTrash \/ VerbDelete) => IInv'
<1> SUFFICES ASSUME IInv, Frame, Delete \/ Restore \/ EmptyTrash \/ VerbDelete PROVE IInv'
  OBVIOUS
<1>1. CASE Delete \/ Restore
  <2>1. /\ Stored
        /\ row' = Purged \/ \E b \in BOOLEAN : row' = [row EXCEPT !.trashed = b]
        /\ UNCHANGED <<checked, copy, edit, upserted>>
    BY <1>1 DEF Delete, Restore, Live
  <2>2. ASSUME NEW b \in BOOLEAN, row' = [row EXCEPT !.trashed = b] PROVE IInv'
    <3>1. row \in [cells : Cells, trashed : BOOLEAN] /\ Fits(row.cells, checked)
      BY <2>1 DEF IInv, TypeOK, RowFits
    <3>2. row' \in [cells : Cells, trashed : BOOLEAN] /\ row'.cells = row.cells
      BY <2>2, <3>1
    <3> QED
      BY <2>1, <3>1, <3>2, RowChanges DEF Stored
  <2> QED
    BY <2>1, <2>2, RowGoes
<1>2. CASE EmptyTrash \/ VerbDelete
  BY <1>2, RowGoes DEF EmptyTrash, VerbDelete
<1> QED
  BY <1>1, <1>2

\* A verb sets a column to a value of its sort.
LEMMA VerbWriteIInv == IInv /\ Frame /\ VerbWrite => IInv'
<1> SUFFICES ASSUME IInv, Frame, VerbWrite PROVE IInv'
  OBVIOUS
<1>1. /\ kind \in DOMAIN Varied /\ kind \in Kinds
      /\ row \in [cells : Cells, trashed : BOOLEAN]
  BY GenericRowsAssumption DEF IInv, TypeOK, VerbWrite
<1>2. PICK c \in Varied[kind] \intersect (IF Live THEN VerbColumns(kind) ELSE Swept(kind)) :
        \E v \in NewValues(c) :
          LET cells == [row.cells EXCEPT ![c] = v]
          IN  /\ c \in PatchArms => v /= "null"
              /\ Fits(cells, checked)
              /\ row' = [row EXCEPT !.cells = cells]
  BY DEF VerbWrite
<1>3. PICK v \in NewValues(c) :
        LET cells == [row.cells EXCEPT ![c] = v]
        IN  Fits(cells, checked) /\ row' = [row EXCEPT !.cells = cells]
  BY <1>2
<1>4. v \in Values(Columns[kind][c])
  <2>1. CASE c = "title"
    <3>1. Columns[kind][c] = "text"
      BY <1>1, <2>1, TitleIsText, GenericRowsAssumption
    <3> QED
      BY <3>1 DEF NewValues, VerbValues, Values
  <2>2. CASE c /= "title"
    BY <2>2 DEF NewValues, VerbValues
  <2> QED
    BY <2>1, <2>2
<1>5. [row.cells EXCEPT ![c] = v] \in Cells
  BY <1>1, <1>4, CellsExcept
<1>6. row' \in [cells : Cells, trashed : BOOLEAN] /\ Fits(row'.cells, checked)
  BY <1>1, <1>3, <1>5
<1>7. kind /= "PostViewReceipt"
  BY DEF VerbWrite, VerbColumns, Swept
<1> QED
  BY <1>6, <1>7, RowChanges DEF VerbWrite, Stored

\* A migration that adds CHECKs beside legacy rows keeps the invariant.
LEMMA MigrateIInv == IInv /\ Frame /\ Migrate => IInv'
<1> SUFFICES ASSUME IInv, Frame, Migrate PROVE IInv'
  OBVIOUS
<1> USE DEF IInv, Frame
<1>1. /\ checked' = checked \union {r \in Declared[kind] : KeepsRows(r)}
      /\ UNCHANGED <<row, copy, edit, upserted>>
  BY DEF Migrate
<1>2. TypeOK'
  BY <1>1 DEF TypeOK, Stored
<1>3. RowFits'
  BY <1>1 DEF RowFits, Stored, Fits, Breaks, KeepsRows
<1>4. Unedited' /\ EditGuarded' /\ WritesAsAsked' /\ TokenKept'
  BY <1>1 DEF Unedited, EditGuarded, GuardAllows, Fits, Breaks, WritesAsAsked, Asks,
     Fields, TokenKept, Stored
<1> QED
  BY <1>2, <1>3, <1>4

\* A read for an edit keeps the invariant.
LEMMA FetchIInv == IInv /\ Frame /\ Fetch => IInv'
<1> SUFFICES ASSUME IInv, Frame, Fetch PROVE IInv'
  OBVIOUS
<1> USE DEF IInv, Frame
<1>1. copy' = row.cells /\ row.cells \in Cells
  BY TablesAgree, CellsShape, GenericRowsAssumption DEF Fetch, Live, TypeOK, Fields
<1>2. UNCHANGED <<row, checked, edit, upserted>>
  BY DEF Fetch
<1>3. TypeOK'
  BY <1>1, <1>2 DEF TypeOK, Stored
<1>4. RowFits' /\ Unedited' /\ EditGuarded' /\ WritesAsAsked' /\ TokenKept'
  BY <1>2 DEF RowFits, Stored, Fits, Breaks, Unedited, EditGuarded, GuardAllows,
     WritesAsAsked, Asks, Fields, TokenKept
<1> QED
  BY <1>3, <1>4

\* Every step keeps the inductive invariant.
LEMMA NextIInv == IInv /\ [Next]_vars => IInv'
<1> SUFFICES ASSUME IInv, [Next]_vars PROVE IInv'
  OBVIOUS
<1>1. Frame
  BY FrameKept
<1>2. CASE Next
  BY <1>1, <1>2, CreateIInv, UpsertIInv, PutIInv, PatchIInv, OvertakeIInv, SaveIInv, TrashIInv, VerbWriteIInv,
     MigrateIInv, FetchIInv DEF Next
<1>3. CASE UNCHANGED vars
  <2>1. UNCHANGED <<kind, mount, row, checked, copy, edit, upserted, Cells>>
    BY <1>1, <1>3 DEF vars, Frame
  <2>2. TypeOK'
    BY <2>1 DEF IInv, TypeOK, Stored
  <2>3. RowFits' /\ EditGuarded'
    BY <2>1 DEF IInv, RowFits, EditGuarded, GuardAllows, Fits, Breaks, Stored
  <2>4. Unedited' /\ WritesAsAsked' /\ TokenKept'
    BY <2>1 DEF IInv, Unedited, WritesAsAsked, Asks, Fields, TokenKept, Stored
  <2> QED
    BY <2>2, <2>3, <2>4 DEF IInv
<1> QED
  BY <1>2, <1>3

-----------------------------------------------------------------------------
(* Theorems *)

\* The inductive invariant holds in every reachable state.
THEOREM RowInvariance == Spec => []IInv
<1> QED
  BY InitIInv, NextIInv, PTL DEF Spec

\* A database error for what should be a 422 comes of a slug or a receipt's day, whose shape no
\* row rule asks for, or of a whole row saved over others' writes: for every other column the
\* guard asks all the schema declares of what changes, and what does not change is stored
\* under the CHECKs there are, whichever the migration added since.
THEOREM GuardSpeaksForChecks == Spec => []GuardSparesChecks
<1>1. IInv => GuardSparesChecks
  <2> SUFFICES ASSUME IInv, edit /= None, Live, NEW r \in checked
               PROVE  /\ Breaks(ChangedColumns(row.cells)[r[1]], r[2]) => ShapeAsked(r)
                      /\ Breaks(WholeRow(row.cells)[r[1]], r[2]) => ShapeAsked(r) \/ Overtaken(r)
    BY DEF IInv, GuardSparesChecks
  <2>1. /\ kind \in Kinds
        /\ r \in Guarded[kind] \/ r \in Shapes[kind]
    BY TablesAgree, GenericRowsAssumption DEF IInv, TypeOK
  <2>2. ~Breaks(row.cells[r[1]], r[2])
    BY DEF IInv, RowFits, Live, Fits
  <2>3. r[1] \in Fields
    BY <2>1, RulesOfColumns DEF Fields
  <2>4. CASE Asks(r[1])
    <3>1. ChangedColumns(row.cells)[r[1]] = edit.after[r[1]]
      BY <2>3, <2>4 DEF ChangedColumns, Asks
    <3>2. Breaks(edit.after[r[1]], r[2]) => r \in Shapes[kind]
      BY <2>1, <2>4 DEF IInv, EditGuarded, GuardAllows, Fits, Asks
    <3> QED
      BY <2>4, <3>1, <3>2 DEF WholeRow, ShapeAsked
  <2>5. CASE ~Asks(r[1])
    <3>1. ChangedColumns(row.cells)[r[1]] = row.cells[r[1]]
      BY <2>3, <2>5 DEF ChangedColumns, Asks
    <3>2. row.cells[r[1]] = edit.before[r[1]] => WholeRow(row.cells)[r[1]] = row.cells[r[1]]
      BY <2>5 DEF WholeRow, Asks
    <3> QED
      BY <2>2, <2>5, <3>1, <3>2 DEF Overtaken
  <2> QED
    BY <2>4, <2>5
<1> QED
  BY <1>1, RowInvariance, PTL

\* An update gives the column it was asked for its value, and what else it changes is what the
\* client's copy was stale in.
THEOREM UpdatesAreAsAsked == Spec => []WritesAsAsked
<1>1. IInv => WritesAsAsked
  BY DEF IInv
<1> QED
  BY <1>1, RowInvariance, PTL

\* A row that a verb stored against the rules stays editable in its other columns.
THEOREM LegacyRowsStayEditable == Spec => []LegacyRowsEditable
<1>1. IInv => LegacyRowsEditable
  <2> SUFFICES ASSUME IInv, Live, NEW c \in Varied[kind], NEW v \in Values(Columns[kind][c]),
                      Fits([row.cells EXCEPT ![c] = v],
                           {r \in Declared[kind] \union Shapes[kind] : r[1] = c})
               PROVE  /\ GuardAllows(row.cells, [row.cells EXCEPT ![c] = v])
                      /\ Fits([row.cells EXCEPT ![c] = v], checked)
    BY DEF LegacyRowsEditable
  <2> DEFINE after == [row.cells EXCEPT ![c] = v]
  <2>1. /\ kind \in Kinds /\ kind \in DOMAIN Varied
        /\ checked \subseteq Declared[kind] \union Shapes[kind]
        /\ Declared[kind] = Guarded[kind]
        /\ row.cells \in Cells
    BY TablesAgree, GenericRowsAssumption DEF IInv, TypeOK, Live
  <2>2. \A d : d /= c => after[d] = row.cells[d]
    BY <2>1, CellsShape
  <2>3. ASSUME NEW r \in Declared[kind] \union Shapes[kind], r[1] = c
        PROVE  ~Breaks(after[r[1]], r[2])
    BY <2>3 DEF Fits
  <2> HIDE DEF after
  <2>4. GuardAllows(row.cells, after)
    BY <2>1, <2>2, <2>3 DEF GuardAllows, Fits
  <2>5. Fits(after, checked)
    BY <2>1, <2>2, <2>3 DEF Fits, IInv, RowFits, Live
  <2> QED
    BY <2>4, <2>5 DEF after
<1> QED
  BY <1>1, RowInvariance, PTL

\* Until an upsert finds a receipt, no step rewrites its token: a full update does not carry it,
\* a partial one does not heed it, and the updates that save late save what they read.
THEOREM TokensStand == Spec => TokenStandsUntilUpsert
<1> DEFINE Kept == kind = "PostViewReceipt" /\ Stored /\ Stored' /\ ~upserted' =>
                     row'.cells["view_token"] = row.cells["view_token"]
<1>1. IInv /\ [Next]_vars => [Kept]_vars
  <2> SUFFICES ASSUME IInv, Next, kind = "PostViewReceipt", Stored, Stored', ~upserted'
               PROVE  row'.cells["view_token"] = row.cells["view_token"]
    OBVIOUS
  <2>1. /\ kind \in DOMAIN Varied
        /\ row \in [cells : Cells, trashed : BOOLEAN]
        /\ "view_token" \in Fields
    BY TablesAgree, GenericRowsAssumption DEF IInv, TypeOK, Fields, Kinds
  <2>2. CASE Save
    <3>1. edit.after["view_token"] = row.cells["view_token"]
      BY <2>2 DEF IInv, TokenKept, Save
    <3>2. \A cells \in {WholeRow(row.cells), ChangedColumns(row.cells)} :
            cells["view_token"] = row.cells["view_token"]
      BY <2>1, <3>1 DEF WholeRow, ChangedColumns
    <3>3. row' = row \/ \E cells \in {WholeRow(row.cells), ChangedColumns(row.cells)} :
                          row' = [row EXCEPT !.cells = cells]
      BY <2>2 DEF Save
    <3> QED
      BY <2>1, <3>2, <3>3
  <2>3. CASE Delete \/ Restore
    <3>1. row' = Purged \/ \E b \in BOOLEAN : row' = [row EXCEPT !.trashed = b]
      BY <2>3 DEF Delete, Restore
    <3> QED
      BY <2>1, <3>1 DEF Stored
  <2>4. CASE EmptyTrash \/ VerbDelete \/ Create \/ VerbCreate
    BY <2>4 DEF EmptyTrash, VerbDelete, Create, VerbCreate, Stored
  <2>5. CASE VerbWrite
    BY <2>5 DEF VerbWrite, VerbColumns, Swept
  <2>6. CASE Fetch \/ Upsert \/ Put \/ Patch \/ Migrate
    BY <2>6 DEF Fetch, Upsert, Put, Patch, Accept, Migrate
  <2>7. CASE Overtake
    <3>1. PICK dto \in Cells : row' = [row EXCEPT !.cells = Updated(dto)]
      BY <2>7 DEF Overtake
    <3>2. Updated(dto)["view_token"] = row.cells["view_token"]
      BY <2>1, UpdatedIsRow
    <3> QED
      BY <2>1, <3>1, <3>2
  <2> QED
    BY <2>2, <2>3, <2>4, <2>5, <2>6, <2>7 DEF Next
<1> QED
  BY <1>1, RowInvariance, PTL DEF Spec, TokenStandsUntilUpsert
=============================================================================
