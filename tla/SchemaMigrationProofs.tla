------------------------ MODULE SchemaMigrationProofs ------------------------
(***************************************************************************)
(* The migrations of SchemaMigration keep the rows, rebuild only what does *)
(* not fit, and end with the columns that are declared: for any programs,  *)
(* tables, models and numbers of migrations and records.                   *)
(*                                                                         *)
(* Between BEGIN IMMEDIATE and COMMIT the invariant compares the draft     *)
(* with the database and the models, table by table: each operation that   *)
(* is left explains a difference, and no operation touches another table.  *)
(***************************************************************************)
EXTENDS SchemaMigration, FiniteSetTheorems, TLAPS

Fields == {"type", "required", "key", "refs"}

TableOK(tab) ==
    /\ DOMAIN tab = {"cols", "rows"}
    /\ \A c \in DOMAIN tab.cols : DOMAIN tab.cols[c] = Fields /\ tab.cols[c].key \in BOOLEAN
    /\ \A r \in tab.rows : DOMAIN r = DOMAIN tab.cols

DatabaseOK(d) ==
    /\ DOMAIN d = {"tables", "indexes"}
    /\ IsFiniteSet(DOMAIN d.tables)
    /\ \A n \in DOMAIN d.tables : TableOK(d.tables[n])

\* One program at most is in a transaction.
ProgramsOK ==
    /\ prog \in [Programs -> {"closed", "open", "outdated", "migrating"}]
    /\ DOMAIN plan = Programs
    /\ \A p \in Programs : prog[p] = "migrating" <=> writer = p
    /\ DOMAIN history = {"rows", "removed"} /\ DOMAIN history.removed = Tables

\* The row is there, with every column that no migration removed.
Recorded(t, row, kept) ==
    /\ Live(t) \in DOMAIN db.tables
    /\ kept \subseteq Columns(db, t)
    /\ \E r \in db.tables[Live(t)].rows : \A c \in kept : r[c] = row[c]

AllRecorded ==
    \A rec \in history.rows :
        rec[1] \in Tables /\ Recorded(rec[1], rec[2], DOMAIN rec[2] \ history.removed[rec[1]])

Creation(t) == Op("create table", t, "")
Rebuilding(t) == Op("rebuild", t, "")

\* The rows are still there, with the columns that the draft still has.
RowsCarried(t) ==
    Live(t) \in DOMAIN db.tables =>
        /\ Live(t) \in DOMAIN draft.tables
        /\ \A r \in db.tables[Live(t)].rows : \E s \in draft.tables[Live(t)].rows :
              \A c \in Columns(db, t) \cap Columns(draft, t) : s[c] = r[c]

\* What has to be done to a table is still to be done, or it has been done.
Underway(p, t) ==
    LET want == Models[p][t].cols
        added == {c \in DOMAIN want : Op("add column", t, c) \in plan[p]}
    IN  /\ Creation(t) \in plan[p] => Live(t) \notin DOMAIN draft.tables
        /\ Rebuilding(t) \in plan[p] => Columns(draft, t) = Columns(db, t)
        /\ Creation(t) \notin plan[p] /\ Rebuilding(t) \notin plan[p] =>
              /\ Live(t) \in DOMAIN draft.tables
              /\ Columns(draft, t) \cup added = DOMAIN want
              /\ \A c \in Columns(draft, t) :
                    /\ draft.tables[Live(t)].cols[c].type = want[c].type
                    /\ draft.tables[Live(t)].cols[c].key = want[c].key

SetAsideIfDifferent(p, t) ==
    \/ Archived(draft, t) = Archived(db, t)
    \/ NeedsRebuild(Models[p][t].cols, db.tables[Live(t)].cols)

Transaction(p) ==
    /\ DatabaseOK(draft)
    /\ plan[p] \subseteq ComputeOps(db, p)
    /\ \A t \in Tables : RowsCarried(t) /\ Underway(p, t) /\ SetAsideIfDifferent(p, t)

IInv ==
    /\ ProgramsOK /\ DatabaseOK(db) /\ AllRecorded
    /\ \A p \in Programs : writer = p => Transaction(p)

-----------------------------------------------------------------------------
(* What the operations do to the tables *)

LEMMA ModelTyped ==
    ASSUME NEW p \in Programs, NEW t \in Tables, NEW c \in DOMAIN Models[p][t].cols
    PROVE  /\ DOMAIN Models[p][t].cols[c] = Fields /\ Models[p][t].cols[c].key \in BOOLEAN
           /\ DOMAIN Column(Models[p][t].cols[c]) = Fields
           /\ Column(Models[p][t].cols[c]).key = Models[p][t].cols[c].key
           /\ Column(Models[p][t].cols[c]).type = Models[p][t].cols[c].type
BY ModelsAssumption DEF Column, Fields

LEMMA ArchiveNames ==
    ASSUME NEW d, DatabaseOK(d), NEW t
    PROVE  Archive(d, t)[1] = t /\ \A u : Archive(d, t) # Live(u)
<1>1. IsFiniteSet(Archived(d, t))
  BY FS_Subset DEF DatabaseOK, Archived
<1>2. Cardinality(Archived(d, t)) \in Nat
  BY <1>1, FS_CardinalityType
<1> QED BY <1>2 DEF Archive, Live

\* Of the tables there are only those of u, and a new one, that changed.
ChangedOnly(d, e, u, name) ==
    /\ name[1] = u /\ DOMAIN e.tables = DOMAIN d.tables \cup {name}
    /\ \A n \in DOMAIN d.tables \ {Live(u), name} :
          /\ e.tables[n].rows = d.tables[n].rows
          /\ DOMAIN e.tables[n].cols = DOMAIN d.tables[n].cols
          /\ \A c \in DOMAIN d.tables[n].cols :
               /\ e.tables[n].cols[c].type = d.tables[n].cols[c].type
               /\ e.tables[n].cols[c].key = d.tables[n].cols[c].key

LEMMA TableCreated ==
    ASSUME NEW p \in Programs, NEW t \in Tables, NEW d, DatabaseOK(d), Live(t) \notin DOMAIN d.tables
    PROVE  LET e == CreateTable(d, t, Models[p][t])
           IN  /\ DatabaseOK(e)
               /\ ChangedOnly(d, e, t, Live(t))
               /\ e.tables[Live(t)].cols =
                      [c \in DOMAIN Models[p][t].cols |-> Column(Models[p][t].cols[c])]
               /\ e.tables[Live(t)].rows = {}
<1> DEFINE model == Models[p][t]
           e == CreateTable(d, t, model)
<1>1. e = [d EXCEPT !.tables = With(@, Live(t), Bare(model))]
  BY DEF CreateTable
<1>2. DOMAIN e = {"tables", "indexes"} /\ e.tables = With(d.tables, Live(t), Bare(model))
  BY <1>1 DEF DatabaseOK
<1>3. /\ DOMAIN e.tables = DOMAIN d.tables \cup {Live(t)}
      /\ \A n \in DOMAIN d.tables : e.tables[n] = d.tables[n]
      /\ e.tables[Live(t)] = Bare(model)
  BY <1>2 DEF With
<1>4. IsFiniteSet(DOMAIN e.tables)
  BY <1>3, FS_AddElement DEF DatabaseOK
<1>5. /\ Bare(model).cols = [c \in DOMAIN model.cols |-> Column(model.cols[c])]
      /\ Bare(model).rows = {} /\ DOMAIN Bare(model) = {"cols", "rows"}
  BY DEF Bare
<1>6. TableOK(Bare(model))
  BY <1>5, ModelTyped DEF TableOK
<1>7. ChangedOnly(d, e, t, Live(t))
  BY <1>3 DEF ChangedOnly, Live
<1> QED BY <1>2, <1>3, <1>4, <1>5, <1>6, <1>7 DEF DatabaseOK

\* The table has the column, which is null in every row.
WithColumn(d, e, t, c, col) ==
    /\ DatabaseOK(e) /\ ChangedOnly(d, e, t, Live(t))
    /\ e.tables[Live(t)].cols = With(d.tables[Live(t)].cols, c, Column(col))
    /\ e.tables[Live(t)].rows = {With(r, c, Null) : r \in d.tables[Live(t)].rows}

LEMMA ColumnAdded ==
    ASSUME NEW p \in Programs, NEW t \in Tables, NEW c \in DOMAIN Models[p][t].cols,
           NEW d, DatabaseOK(d), Live(t) \in DOMAIN d.tables
    PROVE  WithColumn(d, AddColumn(d, t, c, Models[p][t].cols[c]), t, c, Models[p][t].cols[c])
<1> DEFINE col == Models[p][t].cols[c]
           e == AddColumn(d, t, c, col)
           old == d.tables[Live(t)]
           tab == [cols |-> With(old.cols, c, Column(col)), rows |-> {With(r, c, Null) : r \in old.rows}]
<1>1. DOMAIN e = {"tables", "indexes"} /\ e.tables = With(d.tables, Live(t), tab)
  BY DEF AddColumn, DatabaseOK
<1>2. /\ DOMAIN e.tables = DOMAIN d.tables
      /\ \A n \in DOMAIN d.tables : n # Live(t) => e.tables[n] = d.tables[n]
      /\ e.tables[Live(t)] = tab
  BY <1>1 DEF With
<1>3. /\ TableOK(old) /\ DOMAIN Column(col) = Fields /\ Column(col).key \in BOOLEAN
  BY ModelTyped DEF DatabaseOK
<1>4. TableOK(tab)
  <2>1. DOMAIN tab = {"cols", "rows"} /\ DOMAIN tab.cols = DOMAIN old.cols \cup {c}
    BY DEF With
  <2>2. ASSUME NEW x \in DOMAIN tab.cols
        PROVE  DOMAIN tab.cols[x] = Fields /\ tab.cols[x].key \in BOOLEAN
    <3>1. tab.cols[x] = IF x = c THEN Column(col) ELSE old.cols[x]
      BY <2>1 DEF With
    <3> QED BY <1>3, <2>1, <3>1 DEF TableOK
  <2>3. ASSUME NEW r \in tab.rows
        PROVE  DOMAIN r = DOMAIN tab.cols
    <3>1. PICK s \in old.rows : r = With(s, c, Null)
      BY <2>3
    <3>2. DOMAIN s = DOMAIN old.cols /\ DOMAIN r = DOMAIN s \cup {c}
      BY <1>3, <3>1 DEF TableOK, With
    <3> QED BY <2>1, <3>2
  <2> HIDE DEF tab
  <2> QED BY <2>1, <2>2, <2>3 DEF TableOK
<1> HIDE DEF tab
<1>5. \A n \in DOMAIN e.tables : TableOK(e.tables[n])
  BY <1>2, <1>4 DEF DatabaseOK
<1>6. DatabaseOK(e)
  BY <1>1, <1>2, <1>5 DEF DatabaseOK
<1>7. /\ tab.cols = With(old.cols, c, Column(col))
      /\ tab.rows = {With(r, c, Null) : r \in old.rows}
  BY DEF tab
<1>8. ChangedOnly(d, e, t, Live(t))
  BY <1>2 DEF ChangedOnly, Live
<1> QED BY <1>2, <1>6, <1>7, <1>8 DEF WithColumn

LEMMA IndexesOnly ==
    ASSUME NEW d, DatabaseOK(d), NEW t, NEW indexes, NEW i
    PROVE  /\ DatabaseOK(CreateIndexes(d, t, indexes)) /\ CreateIndexes(d, t, indexes).tables = d.tables
           /\ DatabaseOK(DropIndex(d, i)) /\ DropIndex(d, i).tables = d.tables
BY DEF DatabaseOK, CreateIndexes, DropIndex

LEMMA TableRenamed ==
    ASSUME NEW d, DatabaseOK(d), NEW from \in DOMAIN d.tables, NEW to, to # from
    PROVE  LET e == Renamed(d, from, to)
           IN  /\ DatabaseOK(e)
               /\ DOMAIN e.tables = (DOMAIN d.tables \ {from}) \cup {to}
               /\ \A n \in DOMAIN d.tables \ {from, to} :
                    /\ e.tables[n].rows = d.tables[n].rows
                    /\ DOMAIN e.tables[n].cols = DOMAIN d.tables[n].cols
                    /\ \A c \in DOMAIN d.tables[n].cols :
                         /\ e.tables[n].cols[c].type = d.tables[n].cols[c].type
                         /\ e.tables[n].cols[c].key = d.tables[n].cols[c].key
<1> DEFINE e == Renamed(d, from, to)
           Referring(tab) == [cols |-> [c \in DOMAIN tab.cols |-> Followed(tab.cols[c], from, to)],
                              rows |-> tab.rows]
<1>1. /\ DOMAIN e = {"tables", "indexes"}
      /\ DOMAIN e.tables = (DOMAIN d.tables \ {from}) \cup {to}
      /\ \A n \in DOMAIN e.tables : e.tables[n] = Referring(d.tables[IF n = to THEN from ELSE n])
  BY DEF Renamed
<1>2. ASSUME NEW tab, TableOK(tab)
      PROVE  /\ TableOK(Referring(tab)) /\ Referring(tab).rows = tab.rows
             /\ DOMAIN Referring(tab).cols = DOMAIN tab.cols
             /\ \A c \in DOMAIN tab.cols : /\ Referring(tab).cols[c].type = tab.cols[c].type
                                           /\ Referring(tab).cols[c].key = tab.cols[c].key
  <2>1. /\ DOMAIN Referring(tab) = {"cols", "rows"} /\ Referring(tab).rows = tab.rows
        /\ DOMAIN Referring(tab).cols = DOMAIN tab.cols
        /\ \A c \in DOMAIN tab.cols : Referring(tab).cols[c] = Followed(tab.cols[c], from, to)
    OBVIOUS
  <2>2. ASSUME NEW c \in DOMAIN tab.cols
        PROVE  /\ DOMAIN Followed(tab.cols[c], from, to) = Fields
               /\ Followed(tab.cols[c], from, to).key = tab.cols[c].key
               /\ Followed(tab.cols[c], from, to).type = tab.cols[c].type
    BY <1>2 DEF TableOK, Followed, Fields
  <2> HIDE DEF Referring
  <2> QED BY <1>2, <2>1, <2>2 DEF TableOK
<1> HIDE DEF Referring
<1>3. \A n \in DOMAIN e.tables : TableOK(e.tables[n])
  BY <1>1, <1>2 DEF DatabaseOK
<1>4. IsFiniteSet(DOMAIN e.tables)
  <2>1. IsFiniteSet(DOMAIN d.tables \ {from})
    BY FS_Subset DEF DatabaseOK
  <2>2. IsFiniteSet((DOMAIN d.tables \ {from}) \cup {to})
    BY <2>1, FS_AddElement
  <2> QED BY <1>1, <2>2
<1>5. DatabaseOK(e)
  BY <1>1, <1>3, <1>4 DEF DatabaseOK
<1>6. \A n \in DOMAIN d.tables \ {from, to} :
          e.tables[n] = Referring(d.tables[n]) /\ TableOK(d.tables[n])
  BY <1>1 DEF DatabaseOK
<1> QED BY <1>1, <1>2, <1>5, <1>6

LEMMA TableRebuilt ==
    ASSUME NEW p \in Programs, NEW t \in Tables, NEW d, DatabaseOK(d), Live(t) \in DOMAIN d.tables
    PROVE  LET e == Rebuild(d, t, Models[p][t])
           IN  /\ DatabaseOK(e)
               /\ ChangedOnly(d, e, t, Archive(d, t))
               /\ e.tables[Live(t)].cols =
                      [c \in DOMAIN Models[p][t].cols |-> Column(Models[p][t].cols[c])]
               /\ e.tables[Live(t)].rows = {Copied(row, Models[p][t]) : row \in d.tables[Live(t)].rows}
<1> DEFINE model == Models[p][t]
           renamed == Renamed(d, Live(t), Archive(d, t))
           bare == CreateTable(renamed, t, model)
           indexed == CreateIndexes(bare, t, model.indexes)
           copies == {Copied(row, model) : row \in d.tables[Live(t)].rows}
           cols == [c \in DOMAIN model.cols |-> Column(model.cols[c])]
           e == Rebuild(d, t, model)
<1>1. /\ DatabaseOK(renamed)
      /\ DOMAIN renamed.tables = (DOMAIN d.tables \ {Live(t)}) \cup {Archive(d, t)}
      /\ \A n \in DOMAIN d.tables \ {Live(t), Archive(d, t)} :
            /\ renamed.tables[n].rows = d.tables[n].rows
            /\ DOMAIN renamed.tables[n].cols = DOMAIN d.tables[n].cols
            /\ \A c \in DOMAIN d.tables[n].cols :
                 /\ renamed.tables[n].cols[c].type = d.tables[n].cols[c].type
                 /\ renamed.tables[n].cols[c].key = d.tables[n].cols[c].key
  BY ArchiveNames, TableRenamed
<1>2. Live(t) \notin DOMAIN renamed.tables /\ Live(t) # Archive(d, t)
  BY <1>1, ArchiveNames
<1> HIDE DEF renamed
<1>3. /\ DatabaseOK(bare)
      /\ ChangedOnly(renamed, bare, t, Live(t))
      /\ bare.tables[Live(t)].cols = cols
  BY <1>1, <1>2, TableCreated
<1> HIDE DEF bare
<1>4. DatabaseOK(indexed) /\ indexed.tables = bare.tables
  BY <1>3, IndexesOnly
<1> DEFINE tab == [cols |-> cols, rows |-> copies]
<1>5. e = [indexed EXCEPT !.tables = With(@, Live(t), [cols |-> @[Live(t)].cols, rows |-> copies])]
  BY DEF Rebuild, bare, renamed
<1> HIDE DEF indexed, copies, e
<1>6. DOMAIN e = {"tables", "indexes"} /\ e.tables = With(bare.tables, Live(t), tab)
  BY <1>3, <1>4, <1>5 DEF DatabaseOK
<1>7. /\ DOMAIN e.tables = DOMAIN bare.tables
      /\ \A n \in DOMAIN bare.tables : n # Live(t) => e.tables[n] = bare.tables[n]
      /\ e.tables[Live(t)] = tab
  BY <1>3, <1>6 DEF With, ChangedOnly
<1>8. TableOK(tab)
  <2>1. \A r \in copies : DOMAIN r = DOMAIN model.cols
    BY DEF copies, Copied
  <2>2. \A c \in DOMAIN cols : DOMAIN cols[c] = Fields /\ cols[c].key \in BOOLEAN
    BY ModelTyped
  <2> QED BY <2>1, <2>2 DEF TableOK
<1>9. DatabaseOK(e)
  BY <1>3, <1>6, <1>7, <1>8 DEF DatabaseOK
<1>10. DOMAIN e.tables = DOMAIN d.tables \cup {Archive(d, t)}
  BY <1>1, <1>3, <1>7 DEF ChangedOnly
<1>11. ASSUME NEW n \in DOMAIN d.tables \ {Live(t), Archive(d, t)}
       PROVE  /\ e.tables[n].rows = d.tables[n].rows
              /\ DOMAIN e.tables[n].cols = DOMAIN d.tables[n].cols
              /\ \A c \in DOMAIN d.tables[n].cols :
                   /\ e.tables[n].cols[c].type = d.tables[n].cols[c].type
                   /\ e.tables[n].cols[c].key = d.tables[n].cols[c].key
  <2>1. n \in DOMAIN renamed.tables \ {Live(t)} /\ n \in DOMAIN bare.tables
    BY <1>1, <1>3 DEF ChangedOnly
  <2>2. e.tables[n] = bare.tables[n]
    BY <1>7, <2>1
  <2> QED BY <1>1, <1>3, <2>1, <2>2 DEF ChangedOnly
<1>12. ChangedOnly(d, e, t, Archive(d, t))
  BY <1>10, <1>11, ArchiveNames DEF ChangedOnly
<1> QED BY <1>7, <1>9, <1>12 DEF e, copies

-----------------------------------------------------------------------------
(* What is to be done *)

LEMMA OpsOf ==
    ASSUME NEW p \in Programs, NEW op \in ComputeOps(db, p)
    PROVE  LET t == op.table
               want == Models[p][t].cols
               have == db.tables[Live(t)].cols
           IN  /\ t \in Tables
               /\ \/ /\ op = Creation(t) /\ Live(t) \notin DOMAIN db.tables
                  \/ /\ op = Rebuilding(t) /\ Live(t) \in DOMAIN db.tables
                     /\ NeedsRebuild(want, have)
                  \/ /\ op = Op("add column", t, op.what)
                     /\ Live(t) \in DOMAIN db.tables /\ ~NeedsRebuild(want, have)
                     /\ op.what \in DOMAIN want \ DOMAIN have
                  \/ /\ op.kind \in {"create index", "drop index"}
                     /\ Live(t) \in DOMAIN db.tables => ~NeedsRebuild(want, have)
<1>1. PICK t \in Tables : op \in DiffTable(db, t, Models[p][t])
  BY DEF ComputeOps
<1> DEFINE model == Models[p][t]
           have == db.tables[Live(t)].cols
<1>2. ASSUME NEW kind, NEW names, op \in Ops(kind, t, names)
      PROVE  op.kind = kind /\ op.table = t /\ op.what \in names /\ op = Op(kind, t, op.what)
  BY <1>2 DEF Ops, Op
<1>3. /\ Creation(t).table = t /\ Rebuilding(t).table = t
      /\ Creation(t).kind = "create table" /\ Rebuilding(t).kind = "rebuild"
  BY DEF Creation, Rebuilding, Op
<1>4. CASE Live(t) \notin DOMAIN db.tables
  <2>1. op = Creation(t) \/ op \in Ops("create index", t, DOMAIN model.indexes)
    BY <1>1, <1>4 DEF DiffTable, Creation
  <2> QED BY <1>2, <1>3, <1>4, <2>1
<1>5. CASE Live(t) \in DOMAIN db.tables /\ NeedsRebuild(model.cols, have)
  <2>1. op = Rebuilding(t)
    BY <1>1, <1>5 DEF DiffTable, Rebuilding
  <2> QED BY <1>3, <1>5, <2>1
<1>6. CASE Live(t) \in DOMAIN db.tables /\ ~NeedsRebuild(model.cols, have)
  <2>1. \/ op \in Ops("add column", t, DOMAIN model.cols \ DOMAIN have)
        \/ op \in IndexOps(db, t, model.indexes)
    BY <1>1, <1>6 DEF DiffTable
  <2>2. op \in IndexOps(db, t, model.indexes) =>
            \E kind \in {"create index", "drop index"} : \E names : op \in Ops(kind, t, names)
    BY DEF IndexOps
  <2> QED BY <1>2, <1>6, <2>1, <2>2
<1> QED BY <1>4, <1>5, <1>6

\* What the invariant says of a table is the same in both databases.
SameTable(d, e, t) ==
    /\ Live(t) \in DOMAIN d.tables <=> Live(t) \in DOMAIN e.tables
    /\ Archived(d, t) = Archived(e, t)
    /\ Live(t) \in DOMAIN d.tables =>
          /\ d.tables[Live(t)].rows = e.tables[Live(t)].rows
          /\ DOMAIN d.tables[Live(t)].cols = DOMAIN e.tables[Live(t)].cols
          /\ \A c \in DOMAIN d.tables[Live(t)].cols :
               /\ d.tables[Live(t)].cols[c].type = e.tables[Live(t)].cols[c].type
               /\ d.tables[Live(t)].cols[c].key = e.tables[Live(t)].cols[c].key

LEMMA OtherTable ==
    ASSUME NEW p \in Programs, NEW t \in Tables, SameTable(draft, draft', t), db' = db,
           \A kind \in {"create table", "rebuild", "add column"} : \A what :
               Op(kind, t, what) \in plan[p] <=> Op(kind, t, what) \in plan'[p],
           RowsCarried(t), Underway(p, t), SetAsideIfDifferent(p, t)
    PROVE  RowsCarried(t)' /\ Underway(p, t)' /\ SetAsideIfDifferent(p, t)'
<1>1. Columns(draft, t) = Columns(draft', t) /\ Columns(db, t) = Columns(db', t)
  BY DEF Columns, SameTable
<1>2. RowsCarried(t)'
  <2>1. CASE Live(t) \notin DOMAIN db.tables
    BY <2>1 DEF RowsCarried
  <2>2. CASE Live(t) \in DOMAIN db.tables
    <3>1. /\ Live(t) \in DOMAIN draft'.tables
          /\ draft'.tables[Live(t)].rows = draft.tables[Live(t)].rows
      BY <2>2 DEF RowsCarried, SameTable
    <3>2. ASSUME NEW r \in db.tables[Live(t)].rows
          PROVE  \E s \in draft'.tables[Live(t)].rows :
                    \A c \in Columns(db', t) \cap Columns(draft', t) : s[c] = r[c]
      <4>1. PICK s \in draft.tables[Live(t)].rows :
                \A c \in Columns(db, t) \cap Columns(draft, t) : s[c] = r[c]
        BY <2>2 DEF RowsCarried
      <4> QED BY <1>1, <3>1, <4>1
    <3> QED BY <3>1, <3>2 DEF RowsCarried
  <2> QED BY <2>1, <2>2
<1>3. SetAsideIfDifferent(p, t)'
  BY DEF SetAsideIfDifferent, SameTable
<1>4. Creation(t) \in plan[p] <=> Creation(t) \in plan'[p]
  BY DEF Creation
<1>5. Rebuilding(t) \in plan[p] <=> Rebuilding(t) \in plan'[p]
  BY DEF Rebuilding
<1>6. \A c : Op("add column", t, c) \in plan[p] <=> Op("add column", t, c) \in plan'[p]
  OBVIOUS
<1>7. Live(t) \in DOMAIN draft.tables => Columns(draft, t) = DOMAIN draft.tables[Live(t)].cols
  BY DEF Columns
<1>8. Underway(p, t)'
  BY <1>1, <1>4, <1>5, <1>6, <1>7 DEF Underway, SameTable
<1> QED BY <1>2, <1>3, <1>8

LEMMA ElsewhereTheSame ==
    ASSUME NEW d, NEW e, NEW u, NEW name, ChangedOnly(d, e, u, name), NEW t, t # u
    PROVE  SameTable(d, e, t)
<1>1. Live(t)[1] = t /\ Live(u)[1] = u /\ Live(t) # Live(u) /\ Live(t) # name
  BY DEF Live, ChangedOnly
<1>2. Archived(d, t) = Archived(e, t)
  BY DEF Archived, ChangedOnly
<1> QED BY <1>1, <1>2 DEF SameTable, ChangedOnly

-----------------------------------------------------------------------------
(* Executing an operation *)

\* What the operation leaves true of its own table, and of the others.
Done(p, u) ==
    /\ DatabaseOK(draft)
    /\ RowsCarried(u) /\ Underway(p, u) /\ SetAsideIfDifferent(p, u)

LEMMA CreationDone ==
    ASSUME NEW p \in Programs, NEW u \in Tables, DatabaseOK(draft), db' = db,
           Live(u) \notin DOMAIN db.tables, Live(u) \notin DOMAIN draft.tables,
           SetAsideIfDifferent(p, u), draft' = CreateTable(draft, u, Models[p][u]),
           Creation(u) \notin plan'[p], Rebuilding(u) \notin plan'[p]
    PROVE  Done(p, u)' /\ ChangedOnly(draft, draft', u, Live(u))
<1> DEFINE want == Models[p][u].cols
<1>1. /\ DatabaseOK(draft') /\ ChangedOnly(draft, draft', u, Live(u))
      /\ draft'.tables[Live(u)].cols = [c \in DOMAIN want |-> Column(want[c])]
  BY TableCreated
<1>2. Live(u) \in DOMAIN draft'.tables
  BY <1>1 DEF ChangedOnly
<1>3. Columns(draft', u) = DOMAIN want
  BY <1>1, <1>2 DEF Columns
<1>4. Archived(draft', u) = Archived(draft, u)
  BY <1>1 DEF Archived, ChangedOnly
<1>5. RowsCarried(u)'
  BY DEF RowsCarried
<1>6. SetAsideIfDifferent(p, u)'
  BY <1>4 DEF SetAsideIfDifferent
<1>7. \A c \in DOMAIN want : /\ draft'.tables[Live(u)].cols[c].type = want[c].type
                             /\ draft'.tables[Live(u)].cols[c].key = want[c].key
  BY <1>1, ModelTyped
<1>8. Underway(p, u)'
  BY <1>2, <1>3, <1>7 DEF Underway
<1> QED BY <1>1, <1>5, <1>6, <1>8 DEF Done

LEMMA RebuildingDone ==
    ASSUME NEW p \in Programs, NEW u \in Tables, DatabaseOK(draft), db' = db,
           Live(u) \in DOMAIN db.tables, NeedsRebuild(Models[p][u].cols, db.tables[Live(u)].cols),
           RowsCarried(u), Columns(draft, u) = Columns(db, u),
           draft' = Rebuild(draft, u, Models[p][u]),
           Creation(u) \notin plan'[p], Rebuilding(u) \notin plan'[p]
    PROVE  Done(p, u)' /\ ChangedOnly(draft, draft', u, Archive(draft, u))
<1> DEFINE want == Models[p][u].cols
<1>0. Live(u) \in DOMAIN draft.tables
  BY DEF RowsCarried
<1>1. /\ DatabaseOK(draft') /\ ChangedOnly(draft, draft', u, Archive(draft, u))
      /\ draft'.tables[Live(u)].cols = [c \in DOMAIN want |-> Column(want[c])]
      /\ draft'.tables[Live(u)].rows = {Copied(row, Models[p][u]) : row \in draft.tables[Live(u)].rows}
  BY <1>0, TableRebuilt
<1>2. Live(u) \in DOMAIN draft'.tables
  BY <1>0, <1>1 DEF ChangedOnly
<1>3. Columns(draft', u) = DOMAIN want
  BY <1>1, <1>2 DEF Columns
<1>4. ASSUME NEW r \in db.tables[Live(u)].rows
      PROVE  \E s \in draft'.tables[Live(u)].rows :
                 \A c \in Columns(db', u) \cap Columns(draft', u) : s[c] = r[c]
  <2>1. PICK s \in draft.tables[Live(u)].rows :
            \A c \in Columns(db, u) \cap Columns(draft, u) : s[c] = r[c]
    BY DEF RowsCarried
  <2>2. DOMAIN s = Columns(draft, u)
    BY <1>0 DEF DatabaseOK, TableOK, Columns
  <2>3. \A c \in Columns(db, u) \cap DOMAIN want : Copied(s, Models[p][u])[c] = r[c]
    BY <2>1, <2>2 DEF Copied
  <2> QED BY <1>1, <1>3, <2>3
<1>5. RowsCarried(u)'
  BY <1>2, <1>4 DEF RowsCarried
<1>6. SetAsideIfDifferent(p, u)'
  BY DEF SetAsideIfDifferent
<1>7. \A c \in DOMAIN want : /\ draft'.tables[Live(u)].cols[c].type = want[c].type
                             /\ draft'.tables[Live(u)].cols[c].key = want[c].key
  BY <1>1, ModelTyped
<1>8. Underway(p, u)'
  BY <1>2, <1>3, <1>7 DEF Underway
<1> QED BY <1>1, <1>5, <1>6, <1>8 DEF Done

\* The operation is taken off the list.
Taken(p, op) == plan'[p] = plan[p] \ {op}

LEMMA ColumnDone ==
    ASSUME NEW p \in Programs, NEW u \in Tables, NEW c \in DOMAIN Models[p][u].cols,
           DatabaseOK(draft), db' = db,
           Live(u) \in DOMAIN db.tables, c \notin Columns(db, u),
           RowsCarried(u), Underway(p, u), SetAsideIfDifferent(p, u),
           WithColumn(draft, draft', u, c, Models[p][u].cols[c]),
           Creation(u) \notin plan[p], Rebuilding(u) \notin plan[p],
           Taken(p, Op("add column", u, c))
    PROVE  Done(p, u)' /\ ChangedOnly(draft, draft', u, Live(u))
<1> DEFINE want == Models[p][u].cols
           old == draft.tables[Live(u)]
           new == draft'.tables[Live(u)]
<1>0. Live(u) \in DOMAIN draft.tables
  BY DEF RowsCarried
<1>1. /\ DatabaseOK(draft') /\ ChangedOnly(draft, draft', u, Live(u))
      /\ new.cols = With(old.cols, c, Column(want[c]))
      /\ new.rows = {With(r, c, Null) : r \in old.rows}
  BY DEF WithColumn
<1>2. Live(u) \in DOMAIN draft'.tables
  BY <1>1 DEF ChangedOnly
<1>3. /\ Columns(draft, u) = DOMAIN old.cols
      /\ Columns(draft', u) = Columns(draft, u) \cup {c}
      /\ \A x \in Columns(draft', u) : new.cols[x] = IF x = c THEN Column(want[c]) ELSE old.cols[x]
  BY <1>0, <1>1, <1>2 DEF Columns, With
<1>4. Archived(draft', u) = Archived(draft, u)
  BY <1>0, <1>1 DEF Archived, ChangedOnly
<1>5. ASSUME NEW r \in db.tables[Live(u)].rows
      PROVE  \E s \in new.rows : \A x \in Columns(db', u) \cap Columns(draft', u) : s[x] = r[x]
  <2>1. PICK s \in old.rows : \A x \in Columns(db, u) \cap Columns(draft, u) : s[x] = r[x]
    BY DEF RowsCarried
  <2>2. DOMAIN s = Columns(draft, u)
    BY <1>0 DEF DatabaseOK, TableOK, Columns
  <2>3. \A x \in Columns(db, u) \cap Columns(draft', u) : With(s, c, Null)[x] = r[x]
    BY <1>3, <2>1, <2>2 DEF With
  <2> QED BY <1>1, <2>3
<1>6. RowsCarried(u)'
  BY <1>2, <1>5 DEF RowsCarried
<1>7. SetAsideIfDifferent(p, u)'
  BY <1>4 DEF SetAsideIfDifferent
<1>8. /\ Columns(draft, u) \cup {x \in DOMAIN want : Op("add column", u, x) \in plan[p]} = DOMAIN want
      /\ \A x \in Columns(draft, u) : old.cols[x].type = want[x].type /\ old.cols[x].key = want[x].key
  BY DEF Underway
<1>9. ASSUME NEW x \in Columns(draft', u)
      PROVE  new.cols[x].type = want[x].type /\ new.cols[x].key = want[x].key
  <2>1. CASE x = c
    <3>1. new.cols[x] = Column(want[c])
      BY <1>3, <2>1
    <3>2. Column(want[c]).type = want[c].type /\ Column(want[c]).key = want[c].key
      BY ModelTyped
    <3> QED BY <2>1, <3>1, <3>2
  <2>2. CASE x # c
    <3>1. x \in Columns(draft, u) /\ new.cols[x] = old.cols[x]
      BY <1>3, <2>2
    <3> QED BY <1>8, <3>1
  <2> QED BY <2>1, <2>2
<1>10. Columns(draft', u) \cup {x \in DOMAIN want : Op("add column", u, x) \in plan'[p]} = DOMAIN want
  <2>1. \A x : x # c => Op("add column", u, x) # Op("add column", u, c)
    BY DEF Op
  <2> QED BY <1>3, <1>8, <2>1 DEF Taken
<1>11. Underway(p, u)'
  BY <1>2, <1>9, <1>10 DEF Underway, Taken
<1> QED BY <1>1, <1>6, <1>7, <1>11 DEF Done

LEMMA OtherTableDone ==
    ASSUME NEW p \in Programs, NEW op, Transaction(p), db' = db, Taken(p, op),
           NEW u \in Tables, NEW name, ChangedOnly(draft, draft', u, name), op.table = u,
           NEW t \in Tables, t # u
    PROVE  RowsCarried(t)' /\ Underway(p, t)' /\ SetAsideIfDifferent(p, t)'
<1>1. SameTable(draft, draft', t)
  BY ElsewhereTheSame
<1>2. ASSUME NEW kind, NEW what
      PROVE  Op(kind, t, what) \in plan[p] <=> Op(kind, t, what) \in plan'[p]
  <2>1. Op(kind, t, what) # op
    BY DEF Op
  <2> QED BY <2>1 DEF Taken
<1>3. RowsCarried(t) /\ Underway(p, t) /\ SetAsideIfDifferent(p, t)
  BY DEF Transaction
<1> QED BY <1>1, <1>2, <1>3, OtherTable

LEMMA ExecuteNextKeeps ==
    ASSUME IInv, NEW p \in Programs, ExecuteNext(p)
    PROVE  IInv'
<1>1. PICK op \in plan[p] :
          /\ draft' = Execute(draft, op, Models[p][op.table])
          /\ plan' = [plan EXCEPT ![p] = @ \ {op}]
  BY DEF ExecuteNext
<1>2. writer = p /\ Transaction(p)
  BY DEF ExecuteNext, IInv, ProgramsOK
<1>3. /\ Taken(p, op) /\ DOMAIN plan' = Programs
      /\ UNCHANGED <<db, prog, writer, history>>
  BY <1>1 DEF Taken, ExecuteNext, IInv, ProgramsOK
<1>4. op \in ComputeOps(db, p)
  BY <1>2 DEF Transaction
<1>5. PICK u : u = op.table
  OBVIOUS
<1> DEFINE want == Models[p][u].cols
           have == db.tables[Live(u)].cols
<1>6. /\ u \in Tables
      /\ \/ op = Creation(u) /\ Live(u) \notin DOMAIN db.tables
         \/ op = Rebuilding(u) /\ Live(u) \in DOMAIN db.tables /\ NeedsRebuild(want, have)
         \/ /\ op = Op("add column", u, op.what) /\ op.what \in DOMAIN want \ DOMAIN have
            /\ Live(u) \in DOMAIN db.tables /\ ~NeedsRebuild(want, have)
         \/ op.kind \in {"create index", "drop index"}
  BY <1>4, <1>5, OpsOf
<1>7. DatabaseOK(draft) /\ RowsCarried(u) /\ Underway(p, u) /\ SetAsideIfDifferent(p, u)
  BY <1>2, <1>6 DEF Transaction
<1>8. /\ Creation(u) \in plan[p] => Live(u) \notin DOMAIN db.tables
      /\ Rebuilding(u) \in plan[p] => Live(u) \in DOMAIN db.tables /\ NeedsRebuild(want, have)
  <2>1. /\ Creation(u).kind = "create table" /\ Rebuilding(u).kind = "rebuild"
        /\ Creation(u).table = u /\ Rebuilding(u).table = u
        /\ \A what : Op("add column", u, what).kind = "add column"
    BY DEF Creation, Rebuilding, Op
  <2>2. \A t : Creation(u) # Rebuilding(t) /\ Rebuilding(u) # Creation(t)
    BY DEF Creation, Rebuilding, Op
  <2>3. plan[p] \subseteq ComputeOps(db, p)
    BY <1>2 DEF Transaction
  <2>4. ASSUME Creation(u) \in plan[p]
        PROVE  Live(u) \notin DOMAIN db.tables
    <3>1. Creation(u) \in ComputeOps(db, p)
      BY <2>3, <2>4
    <3> QED BY <2>1, <2>2, <3>1, OpsOf
  <2>5. ASSUME Rebuilding(u) \in plan[p]
        PROVE  Live(u) \in DOMAIN db.tables /\ NeedsRebuild(want, have)
    <3>1. Rebuilding(u) \in ComputeOps(db, p)
      BY <2>3, <2>5
    <3> QED BY <2>1, <2>2, <3>1, OpsOf
  <2> QED BY <2>4, <2>5
<1>9. Done(p, u)' /\ \A t \in Tables : t # u =>
          RowsCarried(t)' /\ Underway(p, t)' /\ SetAsideIfDifferent(p, t)'
  <2>1. CASE op = Creation(u) /\ Live(u) \notin DOMAIN db.tables
    <3>1. op.kind = "create table"
      BY <2>1 DEF Creation, Op
    <3>2. draft' = CreateTable(draft, u, Models[p][u])
      BY <1>1, <1>5, <3>1 DEF Execute
    <3>3. Live(u) \notin DOMAIN draft.tables
      BY <1>7, <2>1 DEF Underway
    <3>4. Creation(u) \notin plan'[p] /\ Rebuilding(u) \notin plan'[p]
      BY <1>3, <1>8, <2>1 DEF Taken
    <3>5. Done(p, u)' /\ ChangedOnly(draft, draft', u, Live(u))
      BY <1>3, <1>6, <1>7, <2>1, <3>2, <3>3, <3>4, CreationDone
    <3> QED BY <1>2, <1>3, <1>5, <1>6, <3>5, OtherTableDone
  <2>2. CASE op = Rebuilding(u) /\ Live(u) \in DOMAIN db.tables /\ NeedsRebuild(want, have)
    <3>1. op.kind = "rebuild"
      BY <2>2 DEF Rebuilding, Op
    <3>2. draft' = Rebuild(draft, u, Models[p][u])
      BY <1>1, <1>5, <3>1 DEF Execute
    <3>3. Columns(draft, u) = Columns(db, u)
      BY <1>7, <2>2 DEF Underway
    <3>4. Creation(u) \notin plan'[p] /\ Rebuilding(u) \notin plan'[p]
      BY <1>3, <1>8, <2>2 DEF Taken
    <3>5. Done(p, u)' /\ ChangedOnly(draft, draft', u, Archive(draft, u))
      BY <1>3, <1>6, <1>7, <2>2, <3>2, <3>3, <3>4, RebuildingDone
    <3> QED BY <1>2, <1>3, <1>5, <1>6, <3>5, OtherTableDone
  <2>3. CASE /\ op = Op("add column", u, op.what) /\ op.what \in DOMAIN want \ DOMAIN have
             /\ Live(u) \in DOMAIN db.tables /\ ~NeedsRebuild(want, have)
    <3>0. PICK c : c = op.what
      OBVIOUS
    <3>1. op.kind = "add column" /\ op = Op("add column", u, c) /\ c \in DOMAIN want
      <4>1. op = Op("add column", u, c) /\ c \in DOMAIN want
        BY <2>3, <3>0
      <4>2. Op("add column", u, c).kind = "add column"
        BY DEF Op
      <4> QED BY <4>1, <4>2
    <3>2. draft' = AddColumn(draft, u, c, want[c])
      BY <1>1, <1>5, <3>0, <3>1 DEF Execute
    <3>3. Live(u) \in DOMAIN draft.tables /\ c \notin Columns(db, u)
      BY <1>7, <2>3, <3>0 DEF RowsCarried, Columns
    <3>4. Creation(u) \notin plan[p] /\ Rebuilding(u) \notin plan[p]
      BY <1>8, <2>3
    <3>5. WithColumn(draft, draft', u, c, want[c])
      BY <1>6, <1>7, <3>1, <3>2, <3>3, ColumnAdded
    <3>6. Taken(p, Op("add column", u, c))
      BY <1>3, <3>1
    <3>7. Done(p, u)' /\ ChangedOnly(draft, draft', u, Live(u))
      BY <1>3, <1>6, <1>7, <2>3, <3>1, <3>3, <3>4, <3>5, <3>6, ColumnDone
    <3> QED BY <1>2, <1>3, <1>5, <1>6, <3>7, OtherTableDone
  <2>4. CASE op.kind \in {"create index", "drop index"}
    <3>1. \/ draft' = CreateIndexes(draft, u, [i \in {op.what} |-> Models[p][u].indexes[i]])
          \/ draft' = DropIndex(draft, op.what)
      BY <1>1, <1>5, <2>4 DEF Execute
    <3>2. DatabaseOK(draft') /\ draft'.tables = draft.tables
      BY <1>7, <3>1, IndexesOnly
    <3>3. \A t : SameTable(draft, draft', t)
      BY <3>2 DEF SameTable, Archived
    <3>4. ASSUME NEW kind \in {"create table", "rebuild", "add column"}, NEW t, NEW what
          PROVE  Op(kind, t, what) \in plan[p] <=> Op(kind, t, what) \in plan'[p]
      <4>1. Op(kind, t, what).kind = kind
        BY DEF Op
      <4>2. Op(kind, t, what) # op
        BY <2>4, <4>1
      <4> QED BY <1>3, <4>2 DEF Taken
    <3>5. \A t \in Tables : RowsCarried(t) /\ Underway(p, t) /\ SetAsideIfDifferent(p, t)
      BY <1>2 DEF Transaction
    <3>6. \A t \in Tables : RowsCarried(t)' /\ Underway(p, t)' /\ SetAsideIfDifferent(p, t)'
      BY <1>3, <3>3, <3>4, <3>5, OtherTable
    <3> QED BY <1>6, <3>2, <3>6 DEF Done
  <2> QED BY <1>6, <2>1, <2>2, <2>3, <2>4
<1>10. Transaction(p)'
  <2>1. plan'[p] \subseteq ComputeOps(db', p)
    BY <1>2, <1>3 DEF Transaction, Taken
  <2> QED BY <1>9, <2>1 DEF Transaction, Done
<1>11. ProgramsOK' /\ DatabaseOK(db)' /\ AllRecorded'
  BY <1>3 DEF IInv, ProgramsOK, AllRecorded, Recorded, Columns, DatabaseOK
<1> QED BY <1>2, <1>3, <1>10, <1>11 DEF IInv

-----------------------------------------------------------------------------
(* The other actions *)

LEMMA InitHolds ==
    ASSUME Init
    PROVE  IInv
<1>1. DOMAIN Nothing = {"tables", "indexes"} /\ DOMAIN Nothing.tables = {}
  BY DEF Nothing
<1>2. DatabaseOK(db)
  BY <1>1, FS_EmptySet DEF Init, DatabaseOK
<1>3. ProgramsOK
  BY ModelsAssumption DEF Init, ProgramsOK
<1>4. AllRecorded
  BY DEF Init, AllRecorded
<1> QED BY <1>2, <1>3, <1>4, ModelsAssumption DEF Init, IInv

\* Nothing that the invariant says of the database is touched.
LEMMA DatabaseKept ==
    ASSUME DatabaseOK(db), AllRecorded, UNCHANGED <<db, history>>
    PROVE  DatabaseOK(db)' /\ AllRecorded'
BY DEF DatabaseOK, AllRecorded, Recorded, Columns

\* The transaction of a program is its own business.
LEMMA TransactionKept ==
    ASSUME NEW p \in Programs, Transaction(p), UNCHANGED <<db, draft>>, plan'[p] = plan[p]
    PROVE  Transaction(p)'
<1>1. DatabaseOK(draft)' /\ (plan[p] \subseteq ComputeOps(db, p))'
  BY DEF Transaction
<1>2. ASSUME NEW t \in Tables
      PROVE  RowsCarried(t)' /\ Underway(p, t)' /\ SetAsideIfDifferent(p, t)'
  <2>1. SameTable(draft, draft', t)
    BY DEF SameTable
  <2> QED BY <2>1, OtherTable DEF Transaction
<1> QED BY <1>1, <1>2 DEF Transaction

LEMMA OpenKeeps ==
    ASSUME IInv, NEW p \in Programs, Open(p)
    PROVE  IInv'
<1>1. /\ prog[p] \in {"closed", "open"} /\ UNCHANGED <<db, draft, writer, history>>
      /\ \/ prog' = [prog EXCEPT ![p] = "open"] /\ plan' = plan
         \/ /\ prog' = [prog EXCEPT ![p] = "outdated"]
            /\ plan' = [plan EXCEPT ![p] = ComputeOps(db, p)]
  BY DEF Open
<1>2. ProgramsOK'
  BY <1>1 DEF IInv, ProgramsOK
<1>3. ASSUME NEW q \in Programs, writer' = q
      PROVE  Transaction(q)'
  <2>1. q # p /\ writer = q
    BY <1>1, <1>3 DEF IInv, ProgramsOK
  <2>2. plan'[q] = plan[q]
    BY <1>1, <2>1 DEF IInv, ProgramsOK
  <2> QED BY <1>1, <2>1, <2>2, TransactionKept DEF IInv
<1> QED BY <1>1, <1>2, <1>3, DatabaseKept DEF IInv

LEMMA BeginImmediateKeeps ==
    ASSUME IInv, NEW p \in Programs, BeginImmediate(p)
    PROVE  IInv'
<1>1. /\ prog[p] = "outdated" /\ writer = Null /\ writer' = p
      /\ prog' = [prog EXCEPT ![p] = "migrating"]
      /\ plan' = [plan EXCEPT ![p] = ComputeOps(db, p)]
      /\ draft' = db /\ UNCHANGED <<db, history>>
  BY DEF BeginImmediate
<1>2. ProgramsOK' /\ plan'[p] = ComputeOps(db, p)
  BY <1>1, ModelsAssumption DEF IInv, ProgramsOK
<1>3. ASSUME NEW t \in Tables
      PROVE  Underway(p, t)'
  <2> DEFINE want == Models[p][t].cols
             have == db.tables[Live(t)].cols
  <2>1. \A op \in ComputeOps(db, p) :
            /\ op = Creation(t) => Live(t) \notin DOMAIN db.tables
            /\ op = Rebuilding(t) => Live(t) \in DOMAIN db.tables
    <3>1. /\ Creation(t).kind = "create table" /\ Rebuilding(t).kind = "rebuild"
          /\ Creation(t).table = t /\ Rebuilding(t).table = t
          /\ \A u : Creation(u).kind = "create table" /\ Rebuilding(u).kind = "rebuild"
          /\ \A u, what : Op("add column", u, what).kind = "add column"
      BY DEF Creation, Rebuilding, Op
    <3> QED BY <3>1, OpsOf
  <2>2. ASSUME Creation(t) \notin ComputeOps(db, p), Rebuilding(t) \notin ComputeOps(db, p)
        PROVE  /\ Live(t) \in DOMAIN db.tables /\ ~NeedsRebuild(want, have)
               /\ \A c \in DOMAIN want \ DOMAIN have : Op("add column", t, c) \in ComputeOps(db, p)
    <3>1. /\ Creation(t) \notin DiffTable(db, t, Models[p][t])
          /\ Rebuilding(t) \notin DiffTable(db, t, Models[p][t])
      BY <2>2 DEF ComputeOps
    <3>2. Live(t) \in DOMAIN db.tables /\ ~NeedsRebuild(want, have)
      BY <3>1 DEF DiffTable, Creation, Rebuilding
    <3>3. \A c \in DOMAIN want \ DOMAIN have :
              Op("add column", t, c) \in DiffTable(db, t, Models[p][t])
      BY <3>2 DEF DiffTable, Ops
    <3> QED BY <3>2, <3>3 DEF ComputeOps
  <2>3. Live(t) \in DOMAIN db.tables => Columns(db, t) = DOMAIN have
    BY DEF Columns
  <2>4. ASSUME NEW c \in DOMAIN have, ~NeedsRebuild(want, have), Live(t) \in DOMAIN db.tables
        PROVE  c \in DOMAIN want /\ have[c].type = want[c].type /\ have[c].key = want[c].key
    <3>1. c \in DOMAIN want /\ have[c].type = want[c].type
      BY <2>4 DEF NeedsRebuild
    <3>2. have[c].key \in BOOLEAN /\ want[c].key \in BOOLEAN
      BY <2>4, <3>1, ModelTyped DEF IInv, DatabaseOK, TableOK
    <3>3. have[c].key <=> want[c].key
      BY <2>4, <3>1 DEF NeedsRebuild, KeyColumns
    <3> QED BY <3>1, <3>2, <3>3
  <2> QED BY <1>1, <1>2, <2>1, <2>2, <2>3, <2>4 DEF Underway
<1>4. ASSUME NEW t \in Tables
      PROVE  RowsCarried(t)' /\ SetAsideIfDifferent(p, t)'
  BY <1>1 DEF RowsCarried, SetAsideIfDifferent
<1>5. Transaction(p)'
  BY <1>1, <1>2, <1>3, <1>4 DEF IInv, Transaction
<1> QED BY <1>1, <1>2, <1>5, DatabaseKept DEF IInv

LEMMA EndsKeeps ==
    ASSUME IInv, NEW p \in Programs, prog[p] # "migrating",
           UNCHANGED <<db, history>>, NEW state \in {"closed", "open"}, Ends(p, state)
    PROVE  IInv'
<1>1. /\ writer # p /\ writer' = writer /\ draft' = draft
      /\ prog' = [prog EXCEPT ![p] = state] /\ plan' = [plan EXCEPT ![p] = {}]
  BY DEF Ends, IInv, ProgramsOK
<1>2. ProgramsOK'
  BY <1>1 DEF IInv, ProgramsOK
<1>3. ASSUME NEW q \in Programs, writer' = q
      PROVE  Transaction(q)'
  <2>1. writer = q /\ plan'[q] = plan[q]
    BY <1>1, <1>3 DEF IInv, ProgramsOK
  <2> QED BY <1>1, <2>1, TransactionKept DEF IInv
<1> QED BY <1>2, <1>3, DatabaseKept DEF IInv

\* The end of a transaction, whatever becomes of the database.
LEMMA WriterEnds ==
    ASSUME IInv, NEW p \in Programs, prog[p] = "migrating",
           NEW state \in {"closed", "open"}, Ends(p, state),
           DOMAIN history' = {"rows", "removed"}, DOMAIN history'.removed = Tables
    PROVE  ProgramsOK' /\ \A q \in Programs : writer' = q => Transaction(q)'
<1>1. writer = p /\ writer' = Null
  BY DEF Ends, IInv, ProgramsOK
<1>2. prog' = [prog EXCEPT ![p] = state] /\ plan' = [plan EXCEPT ![p] = {}]
  BY DEF Ends
<1>3. \A q \in Programs : prog'[q] # "migrating" /\ writer' # q
  BY <1>1, <1>2, ModelsAssumption DEF IInv, ProgramsOK
<1>4. prog' \in [Programs -> {"closed", "open", "outdated", "migrating"}] /\ DOMAIN plan' = Programs
  BY <1>2 DEF IInv, ProgramsOK
<1> QED BY <1>3, <1>4 DEF ProgramsOK

LEMMA ExitKeeps ==
    ASSUME IInv, NEW p \in Programs, Exit(p) \/ Rollback(p)
    PROVE  IInv'
<1>1. Ends(p, "closed") /\ UNCHANGED <<db, history>>
  BY DEF Exit, Rollback
<1>2. CASE prog[p] = "migrating"
  <2>1. DOMAIN history' = {"rows", "removed"} /\ DOMAIN history'.removed = Tables
    BY <1>1 DEF IInv, ProgramsOK
  <2> QED BY <1>1, <1>2, <2>1, WriterEnds, DatabaseKept DEF IInv
<1>3. CASE prog[p] # "migrating"
  BY <1>1, <1>3, EndsKeeps
<1> QED BY <1>2, <1>3

LEMMA CommitKeeps ==
    ASSUME IInv, NEW p \in Programs, Commit(p)
    PROVE  IInv'
<1>1. /\ prog[p] = "migrating" /\ plan[p] = {} /\ db' = draft /\ Ends(p, "open")
      /\ history' = [history EXCEPT !.removed =
                        [t \in Tables |-> @[t] \cup (Columns(db, t) \ Columns(draft, t))]]
  BY DEF Commit
<1>2. Transaction(p)
  BY <1>1 DEF IInv, ProgramsOK
<1>3. /\ DOMAIN history' = {"rows", "removed"} /\ history'.rows = history.rows
      /\ history'.removed =
            [t \in Tables |-> history.removed[t] \cup (Columns(db, t) \ Columns(draft, t))]
  BY <1>1 DEF IInv, ProgramsOK
<1>4. ASSUME NEW rec \in history'.rows
      PROVE  rec[1] \in Tables /\ Recorded(rec[1], rec[2], DOMAIN rec[2] \ history.removed[rec[1]])'
  <2>1. PICK t, row : t = rec[1] /\ row = rec[2]
    OBVIOUS
  <2> DEFINE kept == DOMAIN row \ history.removed[t]
             keptNow == DOMAIN row \ history'.removed[t]
  <2>2. t \in Tables /\ Recorded(t, row, kept)
    BY <1>3, <1>4, <2>1 DEF IInv, AllRecorded
  <2>3. PICK r \in db.tables[Live(t)].rows : \A c \in kept : r[c] = row[c]
    BY <2>2 DEF Recorded
  <2>4. /\ Live(t) \in DOMAIN draft.tables
        /\ \E s \in draft.tables[Live(t)].rows :
              \A c \in Columns(db, t) \cap Columns(draft, t) : s[c] = r[c]
    BY <1>2, <2>2, <2>3 DEF Transaction, RowsCarried, Recorded
  <2>5. PICK s \in draft.tables[Live(t)].rows :
            \A c \in Columns(db, t) \cap Columns(draft, t) : s[c] = r[c]
    BY <2>4
  <2>6. keptNow \subseteq kept /\ keptNow \subseteq Columns(db, t) \cap Columns(draft, t)
    BY <1>3, <2>2 DEF Recorded
  <2>7. \A c \in keptNow : s[c] = row[c]
    BY <2>3, <2>5, <2>6
  <2>8. Recorded(t, row, DOMAIN row \ history.removed[t])'
    BY <1>1, <2>4, <2>6, <2>7 DEF Recorded
  <2> QED BY <2>1, <2>2, <2>8
<1>5. AllRecorded'
  BY <1>4 DEF AllRecorded
<1>6. DatabaseOK(db)'
  BY <1>1, <1>2 DEF Transaction
<1>7. DOMAIN history'.removed = Tables
  BY <1>3
<1> QED BY <1>1, <1>3, <1>5, <1>6, <1>7, WriterEnds DEF IInv

LEMMA InsertKeeps ==
    ASSUME IInv, NEW p \in Programs, NEW t \in Tables, NEW target, Insert(p, t, target)
    PROVE  IInv'
<1> DEFINE row == NewRow(p, t, target)
           old == db.tables[Live(t)]
           new == [cols |-> old.cols, rows |-> old.rows \cup {row}]
<1>1. /\ writer = Null /\ UNCHANGED <<prog, plan, writer>>
      /\ DOMAIN Models[p][t].cols \subseteq Columns(db, t)
      /\ db' = WithRow(db, Live(t), row)
      /\ history' = [history EXCEPT !.rows = @ \cup {<<t, row>>}]
  BY DEF Insert
<1>2. Live(t) \in DOMAIN db.tables /\ Columns(db, t) = DOMAIN old.cols
  BY <1>1, ModelsAssumption DEF Columns
<1>3. DOMAIN row = Columns(db, t)
  BY DEF NewRow
<1> HIDE DEF row
<1>4. DOMAIN db' = {"tables", "indexes"} /\ db'.tables = With(db.tables, Live(t), new)
  BY <1>1 DEF WithRow, IInv, DatabaseOK
<1>5. /\ DOMAIN db'.tables = DOMAIN db.tables
      /\ \A n \in DOMAIN db.tables : n # Live(t) => db'.tables[n] = db.tables[n]
      /\ db'.tables[Live(t)] = new
  BY <1>2, <1>4 DEF With
<1>6. TableOK(new)
  BY <1>2, <1>3 DEF IInv, DatabaseOK, TableOK
<1>7. DatabaseOK(db)'
  BY <1>4, <1>5, <1>6 DEF IInv, DatabaseOK
<1>8. /\ DOMAIN history' = {"rows", "removed"} /\ history'.removed = history.removed
      /\ history'.rows = history.rows \cup {<<t, row>>}
  BY <1>1 DEF IInv, ProgramsOK
<1>9. \A u : /\ Columns(db', u) = Columns(db, u)
             /\ Live(u) \in DOMAIN db.tables => db.tables[Live(u)].rows \subseteq db'.tables[Live(u)].rows
  BY <1>2, <1>5 DEF Columns
<1>10. ASSUME NEW rec \in history'.rows
       PROVE  /\ rec[1] \in Tables
              /\ Recorded(rec[1], rec[2], DOMAIN rec[2] \ history.removed[rec[1]])'
  <2>1. CASE rec \in history.rows
    <3>1. rec[1] \in Tables /\ Recorded(rec[1], rec[2], DOMAIN rec[2] \ history.removed[rec[1]])
      BY <2>1 DEF IInv, AllRecorded
    <3> QED BY <1>5, <1>8, <1>9, <3>1 DEF Recorded
  <2>2. CASE rec = <<t, row>>
    <3>1. rec[1] = t /\ rec[2] = row /\ row \in db'.tables[Live(t)].rows
      BY <1>5, <2>2
    <3> QED BY <1>2, <1>3, <1>5, <1>9, <3>1 DEF Recorded
  <2> QED BY <1>8, <2>1, <2>2
<1>11. AllRecorded'
  BY <1>10 DEF AllRecorded
<1>12. ProgramsOK' /\ \A q \in Programs : writer' # q
  BY <1>1, <1>8, ModelsAssumption DEF IInv, ProgramsOK
<1> QED BY <1>7, <1>11, <1>12 DEF IInv

-----------------------------------------------------------------------------
(* Theorems *)

LEMMA NextKeeps ==
    ASSUME IInv, [Next]_vars
    PROVE  IInv'
<1>1. CASE UNCHANGED vars
  <2>1. ASSUME NEW p \in Programs, writer' = p
        PROVE  Transaction(p)'
    BY <1>1, <2>1, TransactionKept DEF vars, IInv
  <2>2. ProgramsOK'
    BY <1>1 DEF vars, IInv, ProgramsOK
  <2> QED BY <1>1, <2>1, <2>2, DatabaseKept DEF vars, IInv
<1>2. CASE Next
  BY <1>2, OpenKeeps, BeginImmediateKeeps, ExecuteNextKeeps, CommitKeeps, ExitKeeps,
     InsertKeeps DEF Next
<1> QED BY <1>1, <1>2

\* The invariant of every reachable state: the committed database holds every row that
\* was recorded, and the draft of the program inside BEGIN IMMEDIATE ... COMMIT
\* (state/migrate.py:342-352) is as far from its models as the operations it has left.
THEOREM InductiveInvariant == Spec => []IInv
<1>1. Init => IInv
  BY InitHolds
<1>2. IInv /\ [Next]_vars => IInv'
  BY NextKeeps
<1> QED BY <1>1, <1>2, PTL DEF Spec

\* Whatever versions of the program migrate the database, and however migrations meet,
\* fail or die, every row that was recorded is in its table with its values in every
\* column that no migration has removed (_rebuild copies the columns both have,
\* state/migrate.py:286).
THEOREM RecordedRowsAreKept == Spec => []RowsKept
<1>1. IInv => RowsKept
  BY DEF IInv, AllRecorded, Recorded, RowsKept
<1> QED BY <1>1, InductiveInvariant, PTL

\* A table is set aside only by a migration whose models it does not fit when the
\* migration commits: the operations are found again inside BEGIN IMMEDIATE
\* (state/migrate.py:344).
THEOREM OutdatedTablesAreRebuilt == Spec => RebuiltOnlyWhenDifferent
<1> DEFINE A == \A p \in Programs, t \in Tables :
                    Commit(p) /\ Archived(db', t) # Archived(db, t) =>
                        NeedsRebuild(Models[p][t].cols, db.tables[Live(t)].cols)
<1>1. ASSUME IInv
      PROVE  A
  BY <1>1 DEF Commit, IInv, ProgramsOK, Transaction, SetAsideIfDifferent
<1>2. IInv /\ [Next]_vars => [A]_vars
  BY <1>1
<1> QED BY <1>2, InductiveInvariant, PTL DEF Spec, RebuiltOnlyWhenDifferent

\* A migration that commits leaves every table with the columns, types and keys that
\* the models of its program declare (_diff_table and _exec_op between them,
\* state/migrate.py:190 and :253).
THEOREM CommittedColumnsMatch == Spec => ColumnsReconciled
<1> DEFINE A == \A p \in Programs, t \in Tables :
                    Commit(p) =>
                        LET want == Models[p][t].cols  have == db'.tables[Live(t)].cols
                        IN  /\ DOMAIN have = DOMAIN want
                            /\ \A c \in DOMAIN want : /\ have[c].type = want[c].type
                                                      /\ have[c].key = want[c].key
<1>1. ASSUME IInv, NEW p \in Programs, NEW t \in Tables, Commit(p)
      PROVE  LET want == Models[p][t].cols  have == db'.tables[Live(t)].cols
             IN  /\ DOMAIN have = DOMAIN want
                 /\ \A c \in DOMAIN want : /\ have[c].type = want[c].type
                                           /\ have[c].key = want[c].key
  <2>1. Underway(p, t) /\ plan[p] = {} /\ db' = draft
    BY <1>1 DEF Commit, IInv, ProgramsOK, Transaction
  <2>2. Live(t) \in DOMAIN draft.tables /\ Columns(draft, t) = DOMAIN draft.tables[Live(t)].cols
    BY <2>1 DEF Underway, Columns
  <2> QED BY <2>1, <2>2 DEF Underway
<1>2. IInv /\ [Next]_vars => [A]_vars
  BY <1>1
<1> QED BY <1>2, InductiveInvariant, PTL DEF Spec, ColumnsReconciled
=============================================================================
