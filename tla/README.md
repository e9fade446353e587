# A TLA+ model of prescribe

`prescribe` brings configuration files, environment variables, shell profiles and
assets of a machine to the state a TOML spec describes, and can undo what it did. It
remembers what it manages in a SQLite ledger that several commands may use at the
same time. This directory models the parts of it that are hard to test: commands that
interleave, die or lose their lock between two steps, files that change under the
program, and long sequences of applies and rollbacks. TLC checks the modules on small
instances; TLAPS proves the main safety properties for instances of any size.

Paths below are relative to the package, `src/src/prescribe/`, unless they start with
`tests/` or are README.md or CHANGELOG.md.

## Inventory of the system

| Component | Sources | State it keeps | Operations | What is hard about it | What makes it correct |
|---|---|---|---|---|---|
| Writer lock and heartbeat | `lock_heartbeat.py`, `state/sqlite.py` (`acquire_lock`, `heartbeat_lock`, `lock_is_current`, `release_lock`) | the `global` row of `run_locks`: token, `expires_at`; one thread per command | acquire, heartbeat, check, release | a stalled process outlives its lease; heartbeat and release read the row and write it in two statements; crashes leave the row | writers exclude each other where it matters; a run that lost the lock stops; no row is left behind |
| Interrupted-work ledger | `orchestrator.py` (`run`, `recover_interrupted`), `state/sqlite.py` (target attempts, reservations) | `target_attempts`, `claim_reservations` | reserve, finish, recover --force | a crash between the reserving and the final transaction; reservations that expire | work of a dead run blocks later applies until it is resolved, and can always be resolved |
| Claims | `claims.py`, `claim_scopes.py`, `state/sqlite.py` (`upsert_claim`) | `managed_claims` | compute, check, persist | the check reads outside the transaction that persists; claims of different keys overlap | one owner per place; a claim changes owner only with consent |
| Applying a file | `orchestrator.py` (`_handle_file`, `_apply_and_record`), `core/*` | the file; `file_snapshots`, `file_baselines`, `file_checkpoints`, `change_batches`, `recovery_backups` | plan, detect conflict, back up, write, record | each record is a transaction of its own, after the write; users edit the file between load and write | an edit is never overwritten unseen; what is overwritten was copied first; unmanaged content stays |
| Rolling a file back | `rollback.py` (`perform_rollback`, `perform_rollback_original`, `perform_restore`) | the same | rollback, rollback --original | undoing batches in reverse over a file that users and earlier rollbacks changed | managed changes are undone, other edits preserved |
| Assets | `orchestrator.py` (`_handle_asset` and below), `asset_helpers.py`, `backups.py`, `rollback.py` (`_rollback_asset`) | destination files; `asset_backups` | apply, displace extras, roll back | several files per target, some moved away, with a record per step | every displaced or overwritten file can be restored |
| Environment variables and shell profiles | `orchestrator.py` (`_resolve_env`, `_handle_shell`), `materialize.py`, `shell.py` | OS-level variables, a managed block per profile | resolve, materialize, render | precedence of PATH edits, quoting per shell | order of path edits; one block per profile |
| Spec loading and selection | `spec.py`, `path_policy.py`, `presets.py`, `orchestrator.py` (`_resolve_active_files`) | none | load, validate, choose locations and winners | priorities and conditions interact; a created file changes what a location resolves to | one winner per file, deterministic |
| Planner and apply of documents | `core/planner.py`, `core/apply.py`, `_util.py` | none (pure) | plan, apply_operations | a dotted key may stand for a flat or a nested key; deletions, missing and emptied parents | a second plan is empty; undoing a plan gives the document back and leaves edits alone |
| Line documents, JSONC editing | `adapters/line.py`, `adapters/jsonc_adapter.py`, `jsonc.py` | none | parse, render, put in and take away a block; edit a text in place | markers, last lines without an end; commas between comments | a block is found again and leaves nothing behind; the edited text says what is wanted |
| Parsers, encodings, atomic writes | other `adapters/*`, `document.py`, `encoding.py`, `atomic.py` | none | load, dump, atomic replace | text | parse after dump gives the document back |
| File-system safety | `fs_safety.py`, `path_policy.py` | none | refuse links, reparse points, binaries | checks precede the write by some time | nothing is written through a redirecting path |
| Ledger store and schema | `state/*.py` | the SQLite database, snowflake ids | open, migrate, read, write | rebuilding a table in steps; ids from several threads | no row is lost; ids are unique and ordered |
| Command line | `cli.py`, `diff.py`, `core/result.py` | none | every command, prompts, `apply-dir` | several specs per directory, one orchestrator run each | interrupted work is offered for recovery |
| Tool inspection, shell extraction | `tools/*`, `shell_extract.py` | none | read-only reports | heuristics over the environment | no state, nothing is written |

How they interact: a command of `cli.py` builds an `Orchestrator` over a `StateStore`.
`run` computes claims, takes the lock, starts the heartbeat thread, reads unfinished
attempts, checks claims, commits reservations and attempts, handles files, environment,
shells and assets in turn (each with lock checks and its own ledger writes), and
resolves everything in one final transaction. `rollback` takes the same lock and calls
`perform_rollback`, which reads the batches the applies have recorded. The heartbeat
thread shares `lost` and `error` with the main thread, and the lock row with every
process. Users and other programs share the files.

## Modules

| Module | What it is |
|---|---|
| `WriterProtocol` | lock row, leases, heartbeat threads, lock checks, target attempts, reservations of apply, rollback and recover |
| `ExclusiveWork` | its abstract specification: one slot of open work |
| `ClaimScopes` | the pure rule `claims_overlap` |
| `ClaimOwnership` | the ledger of owners over `WriterProtocol`, which it extends and implements |
| `ManagedFile` | one file: apply, rollback, rollback --original, users, crashes |
| `AssetFiles` | the files of an asset target and the extra files a mirror moves away |
| `DirectoryApply` | `apply-dir`: selection over all specs, preflight, one run per spec |
| `SchemaMigration` | how programs of several versions bring one database to their models |
| `DocumentPlan` | planner, apply and undo on nested, flat and mixed keys |
| `JsoncEdit` | the edits of a JSONC text |
| `LineDocument` | managed blocks in a text file |
| `EnvEdits` | `[[env]]` entries, the block of a profile, and what sourcing it does |
| `TargetSelection` | conditions, priorities, locations and candidate paths |
| `Algorithms` | a state machine that chooses inputs for `ClaimScopes`, `TargetSelection`, `LineDocument` and `EnvEdits`, with what each makes of them as invariants |
| `WriterProtocolProofs`, `ClaimOwnershipProofs`, `ManagedFileProofs`, `AssetFilesProofs`, `DirectoryApplyProofs`, `SchemaMigrationProofs`, `LineDocumentProofs`, `AlgorithmsProofs` | their theorems |
| `MCWriterProtocol`, `MCClaimOwnership`, `MCManagedFile`, `MCAssetFiles`, `MCDirectoryApply`, `MCSchemaMigration` | instances for TLC |
| `MCAlgorithms` | the inputs of `Algorithms` for TLC, and the same kind of steps and invariants for `DocumentPlan` and `JsoncEdit`, whose inputs are in `MCDocumentPlan` and `MCJsoncEdit` |

`PROJECT.json` gives the source lines of every definition, and for every property a
mutant: a plausible bug in one definition which makes TLC find the property violated.

### WriterProtocol

A member of `Runs` is one invocation of a command and stands for its lock token and run
id; `NextInvocation` lets a later invocation take over its name, so that a finite set
stands for any number of commands in sequence. `pc` is the place in `run`, `rollback` or
`recover_interrupted`; the steps `guard_*` are the calls of `require_current`. `holder`
and `live` are the row of `run_locks` and whether `expires_at` lies in the future;
`heartbeat` is the thread, `lost` what it shares with the main thread, `attempts`,
`reservation` and `fresh` the ledger. `entered` and `late` are history. A command that
has ended is `done`, `crashed`, or `aborted`: a rollback whose `initialize()` raised
before its `try` block. `WriteMore` stands for the writes that follow another one
without a lock check: the files and registry values of `materialize.py`, and the move
back of a displaced file.

One transaction is one step. What the code does in separate statements outside a
transaction takes separate steps: `heartbeat_lock` and `release_lock` read the row,
compare the token and then write by primary key. Time has no value: a lease or a
reservation may lapse at any moment, so any stall of any process is covered. A failed
statement (`StepRaises`), a late join of the heartbeat thread (`StopHeartbeat` leaves a
refreshing thread running) and the death of the process (`Crash`) are possible at every
step. Left out: dry runs, which take no lock and write nothing.

### ClaimScopes and ClaimOwnership

A scope is the type of a claim, its normalised path as a sequence of parts and its
address as a sequence of words; `Overlap` is `claims_overlap`. `ClaimOwnership` extends
`WriterProtocol` with the rows of `managed_claims` (`owner`), and for each apply whether
it has made its claim check (`asked`) and the keys it was given leave to take (`take`,
the `take_keys` of `ClaimCheckResult`). `CheckClaims` and `RefuseClaims` lie between the
first and the second lock check of `run`. The resolver's answer is a choice: leave for
every rival, or none. `PromoteClaims` is the final transaction with `persist_claims` for
any set of targets that succeeded; the loop that validates and retires row by row is
given in closed form (`PromotionAccepted`, `Retired`, `Promoted`), with `Order` for the
position of a claim. `DeferConflict` is the rollback of that transaction. The overlaps
of the instances are computed by `ClaimScopes`.

Assumed: claims of one spec that overlap have one owner, since
`detect_internal_claim_conflicts` refuses any other spec before the lock is taken.

### ManagedFile

The content of the file is a function from keys to values: a mapping's keys, or the
block of a line document and the text around it. `cmd` holds the place in the running
command and its local variables; the lock admits one command at a time. Between any two
steps a user may edit, remove or create the file, and the process may die. Every record
after the write (baseline, checkpoint, batch) is a step, as in `_apply_and_record`; the
records of a rollback are one transaction. A rollback loads the file (`Reload`), undoes
its batches in memory from the last to the first, one step each (`UndoNext`, with `Hits`
and `Reverted` for `rollback_batch`), and then leaves or goes on to write
(`FinishUndoing`); the resolver is asked anew for every batch. `history` is read by no
guard: the file before the first write, the last value written to each key, the last
version a user left, and what happened (a user meddled with managed content, a record
was lost, a key was skipped, ...).

Left out: snapshots (they feed the text of conflicts; the comparison with the managed
state is modelled), events, dry runs, the nesting of documents (`DocumentPlan`), TOML's
lack of null, and `perform_restore`, which no command calls. What the conflict check
compares is the content.

### AssetFiles

`files` is the destination, `stored` the backup storage. Apply walks the source tree in
the order of names: `Look` at a file, `RecordChecked` if it is right, else
`CheckConflict` with the last snapshot, `CopyForRecovery`, `ListRecoveryBackup`,
`WriteAsset`, `ReadBack` for the hash, and the records of baseline, snapshot and batch,
each a transaction and a step of its own. The extra files of a replaced tree follow:
`MoveExtra` and then three records, the last of them an event; a record that is refused
sends the file back and marks its row (`DisplacementFails`). Rollback of a written path
undoes the operations of all its batches in reverse (`UndoNext` and the steps below it:
unlink, write, and the reading back of what it will record);
rollback of a root or a moved path brings back, for each path, the moved file whose row
is the newest, and then marks the rows of the whole group (`RestoreNext`, `MarkGroup`).
`rollback --original` restores, and removes what apply created. Users edit and remove
files between any two steps; the program dies at any of them.

Left out: permissions, links, the check for binary sources, the size limit for moved
files, several roots.

### DirectoryApply

A target is a file, a set of keys, a priority and the commands it needs. The steps are
those of `apply-dir`: `LoadSpecs`, `FindSkipReasons` (one winner per file over the
directory, where the best priority is held once), `DetectConflicts` between the specs,
`Preflight` against the ledger spec by spec, and then for each spec a run: claims are
computed and refused or accepted, the active files are selected, each is handled, and
the final transaction gives the rows of the finished claims to their targets. The
conditions of targets are evaluated at each place where the code does it, while
`CommandChanges` installs or removes commands (an asset of the run itself may do that);
`ClaimMadeElsewhere` is another apply between two locks. `take` answers every conflict.

A run is one lock period and its inner protocol is `ClaimOwnership`'s; here its claims
change in one step. A target may fail for its own sake, before its file is written or
when it is read back (`HandleFile`). A run may end after some of its writes with no
claim promoted (`RecordingFails`, `RunIsLost`); the attempts it leaves (`open`) refuse
the specs after it, unless an operator recovers them in between (`RecoveredElsewhere`).

### SchemaMigration

`db` is the committed database: tables with columns, keys, references and rows, and
indexes. A program opens it, computes the operations (`ComputeOps`, table by table in
the order of references), begins the immediate transaction and computes them again
(`BeginImmediate`), executes one after the other (`ExecuteNext`, with `Execute` for
create, add column, unique index, index, drop, rebuild by rename, create and copy), and
commits, rolls back or dies; `draft` is the database inside the transaction, `plan` the
operations that are left. Meanwhile programs of other versions find it outdated,
wait for the lock or insert rows. SQLite itself is modelled as far as the code relies on
it: what renaming does to references and indexes, and what a missing default, a unique
index or a reference to no row refuses. `OneKeyAssumption` says that a table has one key
column, as every table of `state/models.py` has: the code compares key columns in order,
the model as a set. Dry runs are left out.

### The pure algorithms

`DocumentPlan`: a mapping is a function from literal keys to scalars and mappings; a
literal key may hold dots. `Lookup`, `Place` and `MissingParents` are the searches of
`_util.py`, `Plan` is `_diff_mapping` with the deletions, `Carry` is `apply_operations`
and `Revert` is `_rollback_mapping`. Arrays are scalars, since they are replaced as a
whole. `UnreadKeys` are the dotted keys inside a mapping that the planner looks for
literally and apply writes nested; the two properties about plans say what they cost.

`JsoncEdit`: a text is what stands before the first key and behind each value: comments
and commas. `DiffPaths` is the diff of the adapter, `ModifyText` with
`InsertBehindComma`, `Insert`, `SetValue` and `Delete` the edits. Blanks are left out.

`LineDocument`: a text is a sequence of lines, of which the last may lack its end.
`Scan` reads it line by line and keeps the segments so far and the block that is open;
`Parse`, `Render`, `EnsureBlock`, `RemoveBlock`, `PlanLine` and `Reverted` are those of
`adapters/line.py`, `planner.py` and `rollback.py`.

`EnvEdits`: a value is a sequence of literals, separators and references. `ResolveEnv`
computes variables and edits of PATH, `ShellBlock` what is written to a profile,
`Sourced` what a shell makes of it; the last is code the program generates.

`TargetSelection`: a machine, targets with selectors, a location with candidates and a
file system of paths. `Matches`, `FileTargetsOverlap`, `ActiveFile`, `ResolveLocation`
and `ResolveTarget` are those of `spec.py` and `orchestrator.py`.

## Runs

| Run | Shows | Distinct states |
|---|---|---|
| `writers_applies` | two applies and a rollback, any lapses, crashes and re-invocations: types, exclusive open work (the refinement of `ExclusiveWork`), recoverable reservations, nothing begun after a late write, no row left but by a rollback that cannot initialize | 2.2 M |
| `writers_live` | an apply and a forced recovery under fairness: interrupted attempts are resolved in the end, and only by the right command | 19,246 |
| `claims` | a parent and a child key, two applies and a recovery, the second apply again and again: disjoint owners and reservations, no row taken without leave, the writer protocol is kept | 0.7 M |
| `file_applies` | a user edits and a command dies at any moment: the first rollback restores, apply writes what it planned, copies precede writes, batches are the truth as long as they are recorded | 3.5 M |
| `file_line` | applies and rollbacks of a block alternate: new blocks go away | 0.8 M |
| `assets` | applies of different trees, rollbacks, an edit and a crash: what is taken away is kept, edits are not overwritten, moved files come back, the newest first, the first content comes back | 4.3 M |
| `directory` | two specs, tied and ranked targets, commands and claims that come and go, runs that abort between writes: winners, all or nothing, owners and claims agree with the writes | 1.6 M |
| `migration_versions` | four programs of three versions, failures and deaths: rows survive, tables fit, nothing is rebuilt twice | 98,392 |
| `algorithms` | every input of the instances: overlaps of claims, alternatives of targets, locations, managed blocks, blocks of environment variables, plans and undos of nested documents, edits of JSONC texts | 0.7 M |
| `writers_release`, `file_original`, `migration_reconciled` | expect a violation: the findings below | |

The bounds and why they suffice.

- Writers. Exclusion, takeover and late release need two runs that write; the third
  party in the counterexample of `ReleaseNeedsOwnToken` is again an apply, played by a
  re-invocation. Names are reused, so there is no bound on the number of commands. The
  rollback is in one run, the recovery in the other two; the theorems cover all
  combinations.
- Claims. `SecondApplyReturns` re-invokes the second apply only, and only once the first
  waits for its final transaction or is done: the overtaking that the properties are
  about. A run that dies is one that stalls for ever, and leases are not renewed; what
  these steps do to the exclusion of writers is the subject of `writers_applies`, and
  `ClaimOwnershipProofs` needs none of this. The `VIEW` leaves out `late`: no guard
  reads it, and no property of this run depends on its value.
- Files. One managed key and one other, two values, three batches (four for line
  blocks), at most one edit and one crash let a batch be undone over another one, with
  an edit or a crash between any two steps. Two files below one root, two applies and
  two rollbacks do the same for assets, and let one file be moved away twice.
  `MaxBatches`, `MaxApplies`, `MaxRollbacks`, `MaxEdits` and `MaxCrashes` are guards of
  the actions.
- Directory. Two specs with up to two targets for one file and two keys: alternatives
  within a spec and across specs, tied and ranked, equal and different keys, with and
  without a condition. `MaxChanges` is two, so a command may go and come back. Failures
  and aborts have no bound but the number of specs.
- Migration. Versions with a column more, another type, a new required column, and other
  indexes; `MaxMigrations` lets a database go forward and back twice, `MaxRecords` puts
  a row in a table and one that refers to it.
- Algorithms. Scopes have paths and addresses of one or two parts: enough for equal,
  below, beside and apart. Documents have the dotted keys of up to four words that begin
  with one word, flat and nested, also flat inside a mapping, in the document and in the
  desired data, with two desired states in a row or one and an edit. JSONC texts have up
  to three properties with a comment in every place; text files up to four lines with
  the markers of two blocks; up to three env entries; targets with every combination of
  selectors; locations with up to three candidates.

Symmetry is used where no liveness is checked. Deadlock is checked in `directory`, whose
command always comes to its end (`Ended`); elsewhere commands return and nothing has to
follow, or a bound ends the behaviour.

Fairness (`FairSpec`, run `writers_live`). A running process and its heartbeat thread go
on (weak fairness of `Advance` and `HeartbeatStep`); a spec has finitely many targets,
so the loop over them ends (strong fairness of `TargetsDone`); the clock goes on, so a
lease that no running command renews ends (`AbandonedLeaseLapses`); and the operator
repeats `recover --force` and is neither refused nor overtaken every time
(`OperatorRecovers`). Crashes, lapses of leases in use and failing statements are
possible and never required. The run has no rollback, since one that is invoked without
end can keep the lock from the recovery for ever; a rollback that leaves its row behind
is for the recovery like a dead run that does, which this run has.

## Proofs

All theorems hold for constants of any size, under the named assumptions of the modules
(`RunsAssumption`, `ClaimsAssumption`, `OwnersAssumption`, `OrderAssumption`,
`KeysAssumption`, `PathsAssumption`, `CountAssumption`, `TargetsAssumption`,
`ModelsAssumption`, `BlocksAssumption`, `PartsAssumption`, `ScopesAssumption`,
`LocationsAssumption`, `TextsAssumption`, `EnvAssumption`, `OneKeyAssumption`), which
TLC evaluates on the instances. They say that the commands' invocations are different,
that claims overlap themselves and each other symmetrically (proved of `claims_overlap`
in `AlgorithmsProofs`), that targets are about the files and keys of the instance, that
the values for "nothing" are none of the others, that the models of a program declare an
id and describe each column, that tables have a place in the order of references, and
the like. `TextsAssumption` is the precondition of the theorem about blocks as well: a
text has closed blocks, which is what the parser accepts, and entries are single lines
that are no end markers.

`WriterProtocolProofs`. The type invariant, exclusion, the late write, reservations,
rows and resolutions rest on one inductive invariant. Exclusion is not inductive: a
second apply may well pass its check after the first has entered, if it took the lock
before the first reserved. What excludes that is `CheckedSinceAcquired`: whoever holds
the row and has read the unfinished attempts since it took the row sees no open work but
its own. The row changes hands only through `AcquireLock`, which sends the new holder
back to that read; a heartbeat or a release that writes a row it does not own can make a
holder lose the row, never make a run a holder that has not read. The last check before
the writes then finds the run a holder that has read, and no other work open. The
refinement of `ExclusiveWork` follows: entering is a `Begin` of the slot, the final
transaction, a recovery or a re-invocation a `Resolve` or a stutter. A run that has lost
the row never gets it back, since only `AcquireLock` names a holder: so a check after a
late write fails, however many writes the last one covered (`NothingFollowsALateWrite`).
`RowsLeftBehind` counts who may have ended with the row still his: a dead process, or a
rollback that failed in `initialize()`, which has no heartbeat thread that could renew it.

`ClaimOwnershipProofs`. Each step of the ledger of owners is a step or a stutter of the
writer protocol, so every theorem above carries over. Owners stay disjoint because a
promotion retires every row of another owner that it overlaps, and the claims of one
spec that overlap have one owner. Agreement needs an argument about the loop: a claim
may pass without leave because an earlier claim of the run has retired the row; of the
claims that retire a row, the first in `Order` cannot have passed this way (a
well-founded minimum), so it was taken with leave.

`ManagedFileProofs`. Three invariants. `IInv` says, step by step, what is copied, what
the plan was made for, and that the batches with the pending operations give the last
value written to every key. `Known` adds the types (of an undone document, too: every
value a batch gives back was in a document before), what a command knows of the file it
has read, and `FirstRollback`: as long as only applies have happened, each managed key
on disk has the value that the batches make of the original file (`StateAfter`), every
batch holds as `before` what the batches below it made of the key (`Chained`), and the
rest is as its users left it. A rollback that has undone the batches from the last down
to the i-th then stands at `StateAfter(i)`, never skips a key, and ends with the
original; so does `rollback --original` if no rollback came before it
(`FirstOriginalComesBack`), which bounds finding 2. `NewKeysGoAway` is about repeated
rollbacks, whose own batches hold no `before`: a value *goes away* below position i if
it is absent or was written by a batch at or below i after which the key was only
deleted. What is on disk, in a document, in the checkpoint and in the `before` of any
batch goes away below its position; undoing a batch either reverts the key to such a
`before` or leaves a value that an older batch has written. That is where `Unrecorded =
Absent` is used, as in line documents: the theorem `NewBlocksAreGone` has it as a
hypothesis, since in mappings the claim is false (see the findings).

`AssetFilesProofs`. One invariant for seven theorems. `KeptBeforeTaken` says at every
step that leads to a write, an unlink or a move what a command knows of the file it is
about to take: that it was not there, that its copy is made or listed, or that somebody
edited it since. `MovesNumbered` and `RowsTrue` relate rows and backup storage, apart
from the one file that is being moved; since moves are numbered in the order of the
rows, the newest row of a path names what was moved from it last. `SnapshotsKnown` and
`WritesKnown` say that a snapshot holds something a command wrote, so that a conflict
check which passes has seen no edit, as long as what was read back is what was written.
`OperationsChained` makes the operations of a path the history of its file: each begins
where the one before ended, those a rollback has done lead back to where it stands, and
so the list that a rollback records, itself to be undone later, still begins with the
original.

`SchemaMigrationProofs`. Between BEGIN IMMEDIATE and COMMIT the draft differs from the
models only as the operations explain that are left, and from the database only as those
explain that were executed (`Underway`, `RowsCarried`, `SetAsideIfDifferent`, table by
table); each operation touches the columns and rows of its own table only, although a
renaming changes the references of others. A commit finds no operation left, so rows,
columns and keys are as claimed. Other programs may migrate between the first
computation of the operations and the lock; the second one, inside the transaction, sees
a database that nobody else changes until the commit.

`AlgorithmsProofs` proves, for inputs of any number and length, the six invariants of
`Algorithms` that `algorithms` checks on small ones. The run's `AllSpec` is their `Spec`
with the steps about documents and texts added, which choose inputs of other kinds. Each
invariant follows from a fact about the operators. Claims: `claims_overlap` says yes
exactly when two claims share a place or mix formats (`OverlapMeansSharedPlace`).
Targets: those of one path and priority that pass the check at load are never both
active, except on WSL (`AlternativesDoExclude`); a location resolves to the same path
after apply has created it (`SelectedPathsStay`).

Managed blocks are in `LineDocumentProofs`. `ScanOf` is what the scan knows after each
line: the segments put together are the text so far, blocks and literals have their
shape and no two literals are neighbours, and an open block is the last segment and has
no end marker yet. From it `Parse` of a text renders back to the text, and, the other
way round, segments of that shape parse to themselves; so a block that is put in, changed
or taken away is found again, and everything around it stays, up to two literals that
become one when the block between them goes (`WrittenBlockSettles`,
`WrittenBlockUndone`).

Blocks of environment variables rest on two arguments. `EnvDoesSettle`: two environments
that agree on the variables no entry sets (`Agree`) are merged into environments that
agree on all names but PATH, by induction over the entries, since each value refers to
earlier entries or to such variables; sourcing a block changes only what the entries
set, and the entries that are active stay active, since none of them waits for its
variable to be missing. `EnvIsResolved` compares two computations: `_resolve_env` puts
the entries of PATH without repetitions between its edits, the shell takes the edits
out of the list and puts them around what is left. They agree because removing entries
and removing repetitions commute (`WithoutDistinct`) and repetitions may be removed early
or late (`DistinctMiddle`, `DistinctTail`), and because a list of directories reads back
as what it was joined from (`PathEntriesJoined`). The proof showed that this needs no
order of the entries, so `EnvBlockIsResolved` does not ask for one; it does need that an
edit of PATH is one directory (see the known behaviours).

These recursive computations (`Scan`, `Split`, `Picked`, `Merge`, `FlattenSeq`) are
functions on an interval of numbers. The induction theorems of the library cannot be
cited, but inductions over a set of numbers or of sequences that stands for the claim
can: `NatInd`, `IntervalInd` and `SeqInd`, each proved from a least counterexample. One
lemma for every computation (`ScanSteps`, `PickSteps`, `SplitSteps`, `MergeSteps`,
`FlattenSteps`) says that it takes the steps its definition writes.

`DirectoryApplyProofs`. Two arguments. `Ledger` holds whatever happens around the run:
the targets claimed by one run do not conflict, so its final transaction gives a key to
the target that wrote it last. A run that aborts moves what it wrote to `unrecorded` and
has failed for good, so between two specs the last writers of all keys own them, but for
targets written without a claim or by a run that did not come to its end. `Calm` holds
while nothing changes: what is skipped, claimed, chosen and done agrees with the
selection over the directory, and the specs that are still to come stay cleared after
the preflight. That is not inductive by itself: finishing a spec changes the ledger the
preflight has read. But the claims of different specs are disjoint (`DetectConflicts`),
so the rows that a spec gains are none that a later one is asked about.

Only model-checked: `InterruptedWorkCleared`, which is liveness under fairness; and the
properties of `algorithms` about documents and texts (`DocumentsSettle`,
`AppliesAreUndone`, `EditsSurviveRollback`, `JsoncIsRewritten`). Their operators are
recursive over trees, nested mappings and JSONC texts, and are declared RECURSIVE, for
which the prover has no backend; as functions they would need a depth that the code does
not have. The theorems of `ManagedFile` take a document as a function from keys to
values and rely on `DocumentPlan` being checked for the nesting.

## Findings

Each is the property of a run that expects a violation; `PROJECT.json` quotes the line
of the repository that says otherwise.

1. `writers_release`: `release_lock` (`state/sqlite.py`, line 511) compares the token in
   one statement and deletes by name in another, so it can delete the row of a run that
   took over in between. The exclusion of writers survives it (it is proved above); the
   victim stops at its next check.
2. `file_original`: after a rollback, `rollback --original` also undoes the batch that
   recorded the rollback's result (`rollback.py`, line 790), which has no
   `before_value`: managed keys become null.
3. `migration_reconciled`: a rebuild renames the table first (`state/migrate.py`, line
   265), and SQLite makes the references of other tables follow to the archive, so later
   inserts fail with "FOREIGN KEY constraint failed". The indexes keep their names on
   the archive, so that `CREATE INDEX IF NOT EXISTS` creates nothing. `_diff_table`
   compares no references, so no later migration repairs this.

## Known behaviours

Deviations that came up while modelling and that no run is about. Where a property would
run into one, its statement excludes it.

Commands and the ledger:

- `rollback` takes the lock and writes while attempts of a dead apply are unresolved
  (`orchestrator.py`, line 1514), though line 2000 says that normal writes are blocked.
- `rollback` calls `initialize()` with the lock in its hands, before the `try` whose
  `finally` releases it (`orchestrator.py`, line 1534). A ledger that cannot be migrated
  keeps its lock row until the lease is over. `NoRowLeftBehind` names this case.
- One lock check covers every file and registry value of `materialize.py`
  (`orchestrator.py`, line 604), and none comes before a displaced file is moved back
  (line 1023): a run that loses the lock there may write several times more.
  `LateWriteIsTheLast` says that it begins no other target and does not finish.
- `update_target_attempts` (`state/sqlite.py`, line 955) overwrites any phase: attempts
  that a recovery has marked as interrupted become succeeded or failed when the stalled
  run ends after all. They were resolved before and stay so; no property is about it.
- A run of `apply-dir` that ends with an error after some of its writes (a lost lock, a
  refused record, a conflict in the final transaction) keeps the writes and promotes no
  claim, also for the targets that were written and recorded; a file that is written and
  cannot be read back is reported as unchanged (line 1084) and not claimed. The command
  reports a failure. `LastWriterOwns` names these cases.
- The final transaction of apply (line 346) looks at neither the lock nor the phase of
  its attempts. A run that was only stalled when `recover --force` resolved it can
  commit its claims after the next run has checked the ledger and before that run
  writes; the next run notices in its own final transaction, after its writes.
  `TransfersAreAgreed` shows that the rows themselves change hands with leave only.
- `_owner_id` (`claims.py`, line 229) names an owner by the index of a target, so a spec
  whose targets were reordered has to take its own claims from itself.

Files:

- A crash between writing a new file and recording its baseline (`orchestrator.py`, line
  1660) makes the next apply record the file as one that was there before, so that
  `rollback --original` keeps it.
- A key that is skipped for the last batch is rewritten by an earlier one whose value
  the user's edit happens to equal (`rollback.py`, line 143; `cli.py`, line 334, says
  that it is left alone).
- `_apply_shell_block` (`orchestrator.py`, from line 1406) writes a profile without the
  second look at the file that file targets get, and without a managed conflict.

Documents and texts:

- A document that writes one setting both ways, `{"editor.fontSize": 12}` beside a
  nested `editor`, never settles, and rollback may touch the wrong one. A flat key
  inside a mapping is not given back exactly when the mapping is pruned on rollback.
- A dotted key inside a mapping of the spec is looked for literally when the file has the
  mapping (`core/planner.py`, line 96) and written as nested mappings (`resolve_parent`,
  `_util.py`): `"[python]" = {"editor.tabSize" = 4}` on a file with `"[python]"` is
  planned again by every apply. A value that stands there nested already counts as
  missing, so it is overwritten and rollback removes it. `DocumentsSettle` says that
  exactly these keys do not settle, `AppliesAreUndone` leaves such values out. README.md,
  line 60, promises an unchanged second apply of its own example only.
- JSONC: comments before the closing brace are lost when a key is inserted there, those
  before the first key when it is deleted first; of two equal keys the first is edited
  and the last one counts; a file of comments only is replaced.
- Line blocks: an entry with a line end inside or at its end is planned again on every
  apply (`core/planner.py`, line 160); an entry that looks like an end marker makes the
  file unreadable; of two blocks with one id the first is used.
- Environment: with `if_env_missing` the variable leaves the block on the next apply
  from a shell that sourced it; references to later entries or to itself change on the
  second apply; a PATH entry that holds a separator is added again and again; the
  replacement in cmd's text leaves every second of equal neighbours; and
  `materialize.py` (from line 88, and from line 173) writes `prescribe.conf` and
  `login-env.sh` with the variables of one spec, so the last spec of a directory wins.

Selection:

- Targets that tie for the best priority across specs skip nothing, so one of lower
  priority is applied as well or reported as a conflict.
- A `linux` and a `wsl` target of one priority pass the check at load; on WSL both are
  active and the first one wins.
- A location of kind "file" whose candidate lies above the chosen one cannot be loaded
  after its first apply.
- A target whose command appears after the claims were computed (`orchestrator.py`, line
  262) is written without a claim (from line 564).

Assets:

- What apply and rollback have written is read back from disk for the snapshot, and for
  the batch of a rollback (`orchestrator.py`, line 898; `rollback.py`, lines 532–549): an
  edit right after the write counts as the program's own content, and the next apply
  overwrites it.
- A record that the ledger refuses after a displaced file was recorded (the event,
  `orchestrator.py`, line 1013) sends the file back and leaves its batch.
- A crash between a move and its row leaves the file in backup storage with no row. Rows
  that were marked with a newer one of their path leave their files in storage, and
  nothing offers these again.
- Repeated rollbacks undo the results of earlier ones as well, so their lists double; an
  asset that was written and later moved away is not undone by `--original`; a rollback
  that fails on an operation may have changed the file before (`rollback.py`, lines
  490–497).
- A crash between the unlink and the write of a rollback (line 523) leaves neither file;
  the copy is there.

## Not modelled

Parsers and printers of TOML, YAML and JSONC, encodings, quoting for shells, and the
replacement of a file by `atomic.py`: their correctness is about text or rests on the
operating system, and tests with oracles cover it in `tests/`. Links and reparse points
(`fs_safety.py`): predicates over one look at each part of a path, with no state of
their own. The internals of the ledger store (ids, JSON columns, network paths); its
tables are variables of the modules above. The OS-level stores of environment variables
(`materialize.py`, the registry). The commands of `cli.py` other than `apply-dir`, which
call one operation of the orchestrator each and print what it returns; tool inspection,
shell extraction and platform helpers, which only read. Dry runs, events, and snapshots
of files, which change nothing that the rest reads.
