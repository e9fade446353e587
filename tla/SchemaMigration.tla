--------------------------- MODULE SchemaMigration ---------------------------
(***************************************************************************)
(* How opening the ledger brings the tables of the SQLite database to the  *)
(* models the program was built with (state/migrate.py), while programs of *)
(* several versions open and use the same database, and a migration may    *)
(* fail or die before its transaction commits.                             *)
(*                                                                         *)
(* A table is named <<t, 0>>; <<t, n>> with n > 0 is what its n-th rebuild *)
(* has set aside.  SQLite is modelled as the code uses it: renaming a      *)
(* table takes along its indexes and the foreign keys that point to it.    *)
(***************************************************************************)
EXTENDS Naturals, FiniteSets, Functions

CONSTANTS
    Programs,     \* running programs
    Tables,
    Order,        \* places in Base.metadata.sorted_tables: referenced tables first
    Models,       \* what each program's models declare: per table columns and indexes
    UniqueNames,  \* the index names that start with uq_
    Null,
    MaxMigrations, MaxRecords   \* bounds

Live(t) == <<t, 0>>

ASSUME ModelsAssumption ==
    /\ Null \notin Programs
    /\ Order \in [Tables -> Nat]
    /\ \A p \in Programs, t \in Tables :
        /\ "id" \in DOMAIN Models[p][t].cols
        /\ \A c \in DOMAIN Models[p][t].cols :
             LET col == Models[p][t].cols[c]
             IN  /\ DOMAIN col = {"type", "required", "key", "refs"}
                 /\ col.key \in BOOLEAN /\ col.refs \in Tables \cup {Null}

\* Every table of the models has one key column.
ASSUME OneKeyAssumption ==
    \A p \in Programs, t \in Tables :
        LET cols == Models[p][t].cols
        IN  \E c \in DOMAIN cols : \A other \in DOMAIN cols : cols[other].key <=> other = c

VARIABLES
    db,          \* the committed database: tables and indexes
    prog,        \* where each program stands
    plan,        \* all_ops of each program, as far as they are not executed
    draft,       \* the database inside the transaction of the writer
    writer,      \* the program whose BEGIN IMMEDIATE holds the write lock, or Null
    migrations, records,  \* counters for the bounds; records also makes the ids
    history      \* rows that were recorded, columns that some commit removed

vars == <<db, prog, plan, draft, writer, migrations, records, history>>

Nothing == [tables |-> <<>>, indexes |-> <<>>]

Init ==
    /\ db = Nothing
    /\ prog = [p \in Programs |-> "closed"]
    /\ plan = [p \in Programs |-> {}]
    /\ draft = Nothing
    /\ writer = Null
    /\ migrations = 0 /\ records = 0
    /\ history = [rows |-> {}, removed |-> [t \in Tables |-> {}]]

\* f with the value of x set, or added.
With(f, x, value) == [y \in DOMAIN f \cup {x} |-> IF y = x THEN value ELSE f[y]]

-----------------------------------------------------------------------------
(* _diff_table: what has to be done to a table *)

IndexesOn(d, name) == {i \in DOMAIN d.indexes : d.indexes[i].table = name}

KeyColumns(cols) == {c \in DOMAIN cols : cols[c].key}

\* Another type or key, or a column too many: the table has to be rebuilt.  The key
\* columns are compared in their order, which makes no difference as long as the models
\* want one of them.
NeedsRebuild(want, have) ==
    \/ \E c \in DOMAIN want \cap DOMAIN have : want[c].type # have[c].type
    \/ KeyColumns(want) # KeyColumns(have)
    \/ DOMAIN have \ DOMAIN want # {}

Op(kind, t, what) == [kind |-> kind, table |-> t, what |-> what]

Ops(kind, t, names) == {Op(kind, t, name) : name \in names}

\* Indexes of the table that the model lacks or describes otherwise are dropped, those
\* it wants and the table lacks are created.
IndexOps(d, t, want) ==
    LET actual == IndexesOn(d, Live(t))
        other == {i \in actual \cap DOMAIN want :
                    \/ want[i].cols # d.indexes[i].cols
                    \/ want[i].unique # (i \in UniqueNames)}
    IN  Ops("drop index", t, (actual \ DOMAIN want) \cup other)
        \cup Ops("create index", t, (DOMAIN want \ actual) \cup other)

\* Mutant: a column that the models no longer have stays.
DiffTableKeepsColumns(d, t, model) ==
    IF Live(t) \notin DOMAIN d.tables
    THEN {Op("create table", t, "")} \cup Ops("create index", t, DOMAIN model.indexes)
    ELSE Ops("add column", t, DOMAIN model.cols \ DOMAIN d.tables[Live(t)].cols)
         \cup IndexOps(d, t, model.indexes)

DiffTable(d, t, model) ==
    IF Live(t) \notin DOMAIN d.tables
    THEN {Op("create table", t, "")} \cup Ops("create index", t, DOMAIN model.indexes)
    ELSE IF NeedsRebuild(model.cols, d.tables[Live(t)].cols) THEN {Op("rebuild", t, "")}
    ELSE Ops("add column", t, DOMAIN model.cols \ DOMAIN d.tables[Live(t)].cols)
         \cup IndexOps(d, t, model.indexes)

ComputeOps(d, p) == UNION {DiffTable(d, t, Models[p][t]) : t \in Tables}

\* all_ops are in the order of the tables.  For one table the columns come first, and an
\* index goes before it is created anew; the rest is in the order of a set or a dict.
Rank(op) ==
    CASE op.kind \in {"create table", "rebuild"} -> 1
      [] op.kind = "add column" -> 2
      [] op.kind \in {"drop index", "create index"} -> 3

IsNext(op, ops) ==
    \A later \in ops :
        \/ Order[op.table] < Order[later.table]
        \/ /\ op.table = later.table /\ Rank(op) <= Rank(later)
           /\ ~(op.kind = "create index" /\ later = Op("drop index", op.table, op.what))

-----------------------------------------------------------------------------
(* _exec_op: what SQLite makes of a database *)

Column(col) == [col EXCEPT !.refs = IF @ = Null THEN Null ELSE Live(@)]

Bare(model) == [cols |-> [c \in DOMAIN model.cols |-> Column(model.cols[c])], rows |-> {}]

\* CREATE TABLE IF NOT EXISTS
CreateTable(d, t, model) ==
    IF Live(t) \in DOMAIN d.tables THEN d
    ELSE [d EXCEPT !.tables = With(@, Live(t), Bare(model))]

AddColumn(d, t, c, col) ==
    [d EXCEPT !.tables = With(@, Live(t), [cols |-> With(@[Live(t)].cols, c, Column(col)),
                                           rows |-> {With(r, c, Null) : r \in @[Live(t)].rows}])]

\* CREATE INDEX IF NOT EXISTS: a name in use is left as it is, whatever its table.
CreateIndexes(d, t, indexes) ==
    [d EXCEPT !.indexes =
        [i \in DOMAIN @ \cup DOMAIN indexes |->
            IF i \in DOMAIN @ THEN @[i]
            ELSE [table |-> Live(t), cols |-> indexes[i].cols, unique |-> indexes[i].unique]]]

DropIndex(d, i) == [d EXCEPT !.indexes = Restrict(@, DOMAIN @ \ {i})]

\* ALTER TABLE RENAME: indexes and references follow the table.
Followed(col, from, to) == IF col.refs = from THEN [col EXCEPT !.refs = to] ELSE col

Renamed(d, from, to) ==
    LET Referring(tab) == [cols |-> [c \in DOMAIN tab.cols |-> Followed(tab.cols[c], from, to)],
                           rows |-> tab.rows]
    IN  [tables |-> [n \in (DOMAIN d.tables \ {from}) \cup {to} |->
                        Referring(d.tables[IF n = to THEN from ELSE n])],
         indexes |-> [i \in DOMAIN d.indexes |->
                        [d.indexes[i] EXCEPT !.table = IF @ = from THEN to ELSE @]]]

Archived(d, t) == {n \in DOMAIN d.tables : n[1] = t /\ n # Live(t)}

\* _archive_name: a name that is not in use.
Archive(d, t) == <<t, 1 + Cardinality(Archived(d, t))>>

\* The columns that both have are copied.
Copied(row, model) == [c \in DOMAIN model.cols |-> IF c \in DOMAIN row THEN row[c] ELSE Null]

\* Mutant: the rows stay behind in the archive.
RebuildEmpty(d, t, model) ==
    CreateIndexes(CreateTable(Renamed(d, Live(t), Archive(d, t)), t, model), t, model.indexes)

\* _rebuild: set the table aside, create it and its indexes, copy the rows.
Rebuild(d, t, model) ==
    LET bare == CreateTable(Renamed(d, Live(t), Archive(d, t)), t, model)
        indexed == CreateIndexes(bare, t, model.indexes)
        copies == {Copied(row, model) : row \in d.tables[Live(t)].rows}
    IN  [indexed EXCEPT !.tables = With(@, Live(t), [cols |-> @[Live(t)].cols, rows |-> copies])]

Execute(d, op, model) ==
    CASE op.kind = "create table" -> CreateTable(d, op.table, model)
      [] op.kind = "add column" -> AddColumn(d, op.table, op.what, model.cols[op.what])
      [] op.kind = "create index" ->
            CreateIndexes(d, op.table, [i \in {op.what} |-> model.indexes[i]])
      [] op.kind = "drop index" -> DropIndex(d, op.what)
      [] op.kind = "rebuild" -> Rebuild(d, op.table, model)

\* No two rows agree on the columns of a unique index.
Unique(d) ==
    \A i \in DOMAIN d.indexes : d.indexes[i].unique =>
        \A r, s \in d.tables[d.indexes[i].table].rows :
            Restrict(r, d.indexes[i].cols) = Restrict(s, d.indexes[i].cols) => r = s

\* Whether a row may stand in a table: required columns are set and references lead to
\* a row.
Allowed(d, name, row) ==
    \A c \in DOMAIN d.tables[name].cols :
        LET col == d.tables[name].cols[c]
        IN  /\ col.required => row[c] # Null
            /\ col.refs # Null /\ row[c] # Null =>
                    \E r \in d.tables[col.refs].rows : r["id"] = row[c]

\* Whether SQLite executes the operation: no column that is NOT NULL is added to rows,
\* and the rows that are copied may stand in the new table.
Executable(d, op, model) ==
    LET later == Execute(d, op, model)
    IN  CASE op.kind = "add column" ->
                model.cols[op.what].required => d.tables[Live(op.table)].rows = {}
          [] op.kind = "rebuild" ->
                /\ Unique(later)
                /\ \A r \in later.tables[Live(op.table)].rows : Allowed(later, Live(op.table), r)
          [] OTHER -> Unique(later)

-----------------------------------------------------------------------------
(* migrate, by one program among others *)

\* Nothing to do, or a transaction is needed.
Open(p) ==
    /\ prog[p] \in {"closed", "open"}
    /\ LET ops == ComputeOps(db, p)
       IN  IF ops = {} THEN prog' = [prog EXCEPT ![p] = "open"] /\ UNCHANGED <<migrations, plan>>
           ELSE /\ migrations < MaxMigrations
                /\ migrations' = migrations + 1
                /\ prog' = [prog EXCEPT ![p] = "outdated"]
                /\ plan' = [plan EXCEPT ![p] = ops]
    /\ UNCHANGED <<db, draft, writer, records, history>>

\* Mutant: the operations that were found before BEGIN IMMEDIATE are executed.
BeginWithOldOps(p) ==
    /\ prog[p] = "outdated" /\ writer = Null
    /\ writer' = p
    /\ prog' = [prog EXCEPT ![p] = "migrating"]
    /\ draft' = db
    /\ UNCHANGED <<db, plan, migrations, records, history>>

\* BEGIN IMMEDIATE waits for other writers; the operations are found again.
BeginImmediate(p) ==
    /\ prog[p] = "outdated" /\ writer = Null
    /\ writer' = p
    /\ prog' = [prog EXCEPT ![p] = "migrating"]
    /\ plan' = [plan EXCEPT ![p] = ComputeOps(db, p)]
    /\ draft' = db
    /\ UNCHANGED <<db, migrations, records, history>>

\* The operations are executed one by one, on what only this program sees.
ExecuteNext(p) ==
    /\ prog[p] = "migrating"
    /\ \E op \in plan[p] :
        /\ IsNext(op, plan[p])
        /\ Executable(draft, op, Models[p][op.table])
        /\ draft' = Execute(draft, op, Models[p][op.table])
        /\ plan' = [plan EXCEPT ![p] = @ \ {op}]
    /\ UNCHANGED <<db, prog, writer, migrations, records, history>>

Ends(p, state) ==
    /\ prog' = [prog EXCEPT ![p] = state]
    /\ plan' = [plan EXCEPT ![p] = {}]
    /\ writer' = IF writer = p THEN Null ELSE writer
    /\ draft' = IF writer = p THEN Nothing ELSE draft
    /\ UNCHANGED <<migrations, records>>

Columns(d, t) == IF Live(t) \in DOMAIN d.tables THEN DOMAIN d.tables[Live(t)].cols ELSE {}

Commit(p) ==
    /\ prog[p] = "migrating" /\ plan[p] = {}
    /\ db' = draft
    /\ history' = [history EXCEPT !.removed =
                    [t \in Tables |-> @[t] \cup (Columns(db, t) \ Columns(draft, t))]]
    /\ Ends(p, "open")

\* SQLite refuses an operation: ROLLBACK, and the program ends with the error.
Rollback(p) ==
    /\ prog[p] = "migrating"
    /\ \E op \in plan[p] :
        IsNext(op, plan[p]) /\ ~Executable(draft, op, Models[p][op.table])
    /\ Ends(p, "closed")
    /\ UNCHANGED <<db, history>>

\* The program ends or dies anywhere; SQLite undoes an open transaction.
Exit(p) ==
    /\ prog[p] # "closed"
    /\ Ends(p, "closed")
    /\ UNCHANGED <<db, history>>

-----------------------------------------------------------------------------
(* What an open program records: rows with the columns of its own models *)

NewRow(p, t, target) ==
    LET cols == Models[p][t].cols
    IN  [c \in Columns(db, t) |-> CASE c \notin DOMAIN cols -> Null
                                   [] c \in DOMAIN cols /\ cols[c].refs = Null -> records + 1
                                   [] c \in DOMAIN cols /\ cols[c].refs # Null -> target]

WithRow(d, name, row) ==
    [d EXCEPT !.tables = With(@, name, [cols |-> @[name].cols, rows |-> @[name].rows \cup {row}])]

\* INSERT names the columns of the program's models; the other columns become null.
Insert(p, t, target) ==
    /\ prog[p] = "open" /\ writer = Null
    /\ records < MaxRecords
    /\ DOMAIN Models[p][t].cols \subseteq Columns(db, t)
    /\ LET row == NewRow(p, t, target)
       IN  /\ db' = WithRow(db, Live(t), row)
           /\ Unique(db') /\ Allowed(db', Live(t), row)
           /\ history' = [history EXCEPT !.rows = @ \cup {<<t, row>>}]
    /\ records' = records + 1
    /\ UNCHANGED <<prog, plan, draft, writer, migrations>>

Next ==
    \E p \in Programs :
        \/ Open(p) \/ BeginImmediate(p) \/ ExecuteNext(p) \/ Commit(p) \/ Rollback(p) \/ Exit(p)
        \/ \E t \in Tables, target \in 1 .. MaxRecords : Insert(p, t, target)

Spec == Init /\ [][Next]_vars

-----------------------------------------------------------------------------
(* Properties *)

\* Whatever versions of the program open the database in whatever order, and however
\* their migrations meet, fail or die: a row that was recorded is in its table, with
\* its values in every column that no migration has removed
\* (tests/test_migration_data_preservation.py:35: "When a table must be rebuilt,
\* shared columns should be copied over").
RowsKept ==
    \A rec \in history.rows :
        LET t == rec[1]  row == rec[2]
        IN  \E r \in db.tables[Live(t)].rows :
                \A c \in DOMAIN row \ history.removed[t] : r[c] = row[c]

\* A table is set aside only by a migration whose models it does not fit when the
\* migration commits: of two programs that both found it outdated the second one
\* leaves the rebuilt table alone.
RebuiltOnlyWhenDifferent ==
    [][\A p \in Programs, t \in Tables :
          Commit(p) /\ Archived(db', t) # Archived(db, t) =>
              NeedsRebuild(Models[p][t].cols, db.tables[Live(t)].cols)]_vars

\* A committed migration leaves every table with the columns, types and keys that the
\* models of its program declare.
ColumnsReconciled ==
    [][\A p \in Programs, t \in Tables :
          Commit(p) =>
              LET want == Models[p][t].cols  have == db'.tables[Live(t)].cols
              IN  /\ DOMAIN have = DOMAIN want
                  /\ \A c \in DOMAIN want : /\ have[c].type = want[c].type
                                            /\ have[c].key = want[c].key]_vars

\* A committed migration leaves the database with the references and the indexes that
\* the models declare (state/migrate.py:3: "Reads the canonical schema from
\* Base.metadata and reconciles it against the live SQLite database").
SchemaReconciled ==
    [][\A p \in Programs, t \in Tables :
          Commit(p) =>
              /\ \A c \in DOMAIN Models[p][t].cols :
                    db'.tables[Live(t)].cols[c].refs = Column(Models[p][t].cols[c]).refs
              /\ DOMAIN Models[p][t].indexes \subseteq IndexesOn(db', Live(t))]_vars
=============================================================================
