--------------------------- MODULE AssetFilesProofs ---------------------------
(***************************************************************************)
(* Proofs about module AssetFiles.  One inductive invariant, IInv, carries *)
(* all the properties of the module: what is about to be taken away is     *)
(* kept, the rows of moved files agree with the backup storage, snapshots  *)
(* hold what commands wrote, and the operations of a path are the history  *)
(* of its file.  Each action has a lemma that says it keeps IInv.          *)
(***************************************************************************)
EXTENDS AssetFiles, TLAPS

FileState == Contents \cup {NoFile}

Operation == [kind : {"replace_file", "displace_file"}, value : FileState, before : FileState]

Row == [id : Nat, path : Paths, restored : BOOLEAN]

\* The steps of apply for an entry, before it writes and after.
Writing == {"same", "check", "copy", "list", "write"}
Written == {"readback", "baseline", "snapshot", "batch"}
Moving == {"moved", "displaced", "event"}
Undoing == {"undo", "undo copy", "undo unlink", "undo write", "undo readback"}
Removing == {"copy created", "remove created", "list removed"}
Steps == {"idle", "look", "restore", "mark"} \cup Writing \cup Written \cup Moving
             \cup Undoing \cup Removing

-----------------------------------------------------------------------------
(* The inductive invariant: types *)

StateOK ==
    /\ files \in [Paths -> FileState]
    /\ \A m \in stored : m.id \in Nat /\ m.path \in Paths /\ m.content \in Contents
    /\ batches \in [Paths -> Seq(Operation)]
    /\ baseline \in [Paths -> FileState \cup {None}]
    /\ snapshot \in [Paths -> Contents \cup {None}]
    /\ rows \in Seq(Row)
    /\ DOMAIN counts = {"applies", "rollbacks", "edits", "crashes", "moves"}
    /\ counts.moves \in Nat
    /\ DOMAIN history = {"wrote", "origin", "displaced", "past"}
    /\ history.wrote \in [Paths -> SUBSET FileState]
    /\ history.origin \in [Paths -> FileState \cup {None}]

CommandOK ==
    /\ DOMAIN cmd = DOMAIN Idle
    /\ cmd.at \in Steps
    /\ cmd.todo \subseteq Paths /\ cmd.extras \subseteq Paths
    /\ cmd.original \in FileState /\ cmd.written \in FileState
    /\ cmd.row \in Nat /\ cmd.left \in Nat
    /\ cmd.done \in Seq(Operation)

\* Every step belongs to the commands that reach it, and finds what it uses.
StepOK ==
    /\ cmd.at \in {"look"} \cup Writing \cup Written \cup Moving => cmd.command = "apply"
    /\ cmd.at \in Undoing \cup Removing => cmd.command # "apply"
    /\ cmd.at \notin {"idle", "look", "restore"} => cmd.path \in Paths
    /\ cmd.at \in {"look"} \cup Writing \cup Written \cup Moving =>
          cmd.spec \in Sources /\ cmd.todo \subseteq DOMAIN cmd.spec
    /\ cmd.at \in Writing \cup Written => cmd.path \in cmd.todo
    /\ cmd.at \in {"baseline", "snapshot"} => cmd.written # NoFile
    /\ cmd.at \in Undoing =>
          cmd.left <= Len(batches[cmd.path]) /\ (cmd.at # "undo" => cmd.left > 0)

TypeOK == StateOK /\ CommandOK /\ StepOK

-----------------------------------------------------------------------------
(* What is about to go was not there, or has been copied, unless it was edited since. *)

KeptBeforeTaken ==
    ~cmd.editedSinceCopy =>
        /\ cmd.at = "check" => files[cmd.path] = cmd.original
        /\ cmd.at = "list" => files[cmd.path] = cmd.copied
        /\ cmd.at = "write" => files[cmd.path] = NoFile \/ <<cmd.path, files[cmd.path]>> \in listed
        /\ cmd.at \in {"undo unlink", "remove created"} =>
              files[cmd.path] = NoFile \/ <<cmd.path, files[cmd.path]>> \in copies
        /\ cmd.at = "undo write" => files[cmd.path] = NoFile

-----------------------------------------------------------------------------
(* The ledger of moved files *)

\* Every move has a number of its own, in the order of the rows.
MovesNumbered ==
    /\ \A m \in stored : m.id <= counts.moves
    /\ \A m, other \in stored : m.id = other.id => m = other
    /\ \A n \in DOMAIN rows : rows[n].id <= counts.moves
    /\ \A i, j \in DOMAIN rows : i < j => rows[i].id < rows[j].id
    /\ \A m \in stored, n \in DOMAIN rows : m.id = rows[n].id => m.path = rows[n].path
    /\ cmd.at \in Moving => /\ \E m \in stored : m.id = cmd.row
                            /\ \A m \in stored : m.id = cmd.row => m.path = cmd.path
    /\ cmd.at = "moved" => cmd.row <= counts.moves /\ \A n \in DOMAIN rows : rows[n].id < cmd.row

\* The rows and the backup storage agree, but for the file that is just being moved.
RowsTrue ==
    "lost row" \notin history.past =>
        /\ \A n \in DOMAIN rows :
              \/ rows[n].restored
              \/ cmd.at = "mark" /\ cmd.path = rows[n].path
              \/ \E m \in stored : m.id = rows[n].id /\ m.path = rows[n].path
        /\ \A m \in stored :
              \/ \E n \in DOMAIN rows : rows[n].id = m.id
              \/ cmd.at = "moved" /\ cmd.row = m.id

-----------------------------------------------------------------------------
(* What the ledger knows of the files that commands wrote *)

Clean == history.past \cap {"unrecorded", "checked too late"} = {}

Recording == {"readback", "baseline", "snapshot"}

\* A path that has been written has a snapshot, of something that was written there.
SnapshotsKnown ==
    Clean => \A p \in Paths :
        /\ snapshot[p] # None => snapshot[p] \in history.wrote[p]
        /\ \/ history.wrote[p] # {} \/ baseline[p] # None
           \/ \E n \in DOMAIN batches[p] : batches[p][n].kind = "replace_file"
           => snapshot[p] # None \/ (cmd.path = p /\ cmd.at \in Recording)

WritesKnown ==
    Clean =>
        /\ cmd.at \in Recording => cmd.spec[cmd.path] \in history.wrote[cmd.path]
        /\ cmd.at \in {"baseline", "snapshot"} => cmd.written \in history.wrote[cmd.path]
        /\ cmd.at \in {"batch"} \cup Undoing \cup Removing => snapshot[cmd.path] # None
        /\ cmd.at \in Undoing /\ cmd.done # <<>> =>
              cmd.written = NoFile \/ cmd.written \in history.wrote[cmd.path]
        /\ cmd.at = "undo readback" => Undone.before \in history.wrote[cmd.path]
        /\ cmd.at \in {"copy", "list", "write"} /\ ~cmd.editedSinceCheck =>
              \/ files[cmd.path] = NoFile \/ history.wrote[cmd.path] = {}
              \/ files[cmd.path] \in history.wrote[cmd.path]

-----------------------------------------------------------------------------
(* The operations of a path are the history of its file *)

Straight == history.past \subseteq {"rolled back", "skipped"}

Chained(ops) ==
    \A n \in DOMAIN ops :
        /\ ops[n].kind = "replace_file"
        /\ n > 1 => ops[n].before = ops[n - 1].value

\* The file when the first n operations are in effect.
After(ops, n) == IF n = 0 THEN ops[1].before ELSE ops[n].value

Settled(p) ==
    IF batches[p] = <<>> THEN history.origin[p] = None
    ELSE /\ history.origin[p] = After(batches[p], 0)
         /\ files[p] = After(batches[p], Len(batches[p]))

\* The operation of a file that is written is not recorded yet.
WriteChained ==
    /\ cmd.at \in {"check", "copy", "list", "write"} => files[cmd.path] = cmd.original
    /\ cmd.at \in Written =>
          /\ files[cmd.path] = cmd.spec[cmd.path]
          /\ IF batches[cmd.path] = <<>> THEN history.origin[cmd.path] = cmd.original
             ELSE /\ history.origin[cmd.path] = After(batches[cmd.path], 0)
                  /\ cmd.original = After(batches[cmd.path], Len(batches[cmd.path]))

\* The operations that rollback has done lead back to the one it has come to.
UndoChained ==
    cmd.at \in Undoing =>
        /\ batches[cmd.path] # <<>>
        /\ history.origin[cmd.path] = After(batches[cmd.path], 0)
        /\ Chained(cmd.done)
        /\ cmd.done = <<>> <=> cmd.left = Len(batches[cmd.path])
        /\ cmd.done # <<>> =>
              /\ After(cmd.done, 0) = After(batches[cmd.path], Len(batches[cmd.path]))
              /\ After(cmd.done, Len(cmd.done)) = After(batches[cmd.path], cmd.left)
        /\ files[cmd.path] = IF cmd.at = "undo write" THEN NoFile
                             ELSE IF cmd.at = "undo readback" THEN Undone.before
                             ELSE After(batches[cmd.path], cmd.left)
        /\ cmd.at # "undo" => cmd.original = After(batches[cmd.path], cmd.left)

Unsettled == Written \cup Undoing \cup {"list removed"}

OperationsChained ==
    Straight =>
        /\ \A p \in Paths \ history.displaced :
              Chained(batches[p]) /\ (p # cmd.path \/ cmd.at \notin Unsettled => Settled(p))
        /\ cmd.path \in Paths \ history.displaced => WriteChained /\ UndoChained
        /\ cmd.at \in Moving => cmd.path \in history.displaced

IInv == TypeOK /\ KeptBeforeTaken /\ MovesNumbered /\ RowsTrue /\ SnapshotsKnown /\ WritesKnown
            /\ OperationsChained

-----------------------------------------------------------------------------
(* Steps that leave most of the invariant alone *)

USE DEF Steps, Writing, Written, Moving, Undoing, Removing, Recording, Unsettled

LEMMA IdleFields ==
    /\ DOMAIN Idle = {"at", "command", "path", "spec", "todo", "extras", "original", "copied",
                      "written", "row", "left", "done", "saved", "editedSinceCheck",
                      "editedSinceCopy"}
    /\ Idle.at = "idle" /\ Idle.todo = {} /\ Idle.extras = {}
    /\ Idle.original = NoFile /\ Idle.written = NoFile /\ Idle.row = 0 /\ Idle.left = 0
    /\ Idle.done = <<>>
BY DEF Idle

\* Only notable events are added to the history, and no move is made.
NothingWritten ==
    /\ DOMAIN counts' = DOMAIN counts /\ counts'.moves = counts.moves
    /\ DOMAIN history' = DOMAIN history
    /\ history'.wrote = history.wrote /\ history'.origin = history.origin
    /\ history'.displaced = history.displaced
    /\ history.past \subseteq history'.past

\* Nothing changes but the command.
Quiet == UNCHANGED <<files, stored, batches, baseline, snapshot, rows>> /\ NothingWritten

LEMMA SameHistory ==
    ASSUME UNCHANGED <<counts, history>> PROVE NothingWritten
BY DEF NothingWritten

LEMMA EventNoted ==
    ASSUME StateOK, NEW event, Happens(event), UNCHANGED counts
    PROVE  NothingWritten /\ history'.past = history.past \cup {event}
BY DEF NothingWritten, Happens, StateOK

LEMMA Counting ==
    ASSUME StateOK, UNCHANGED history, NEW what \in {"applies", "rollbacks"}, Counted(what)
    PROVE  NothingWritten
BY DEF NothingWritten, Counted, StateOK

LEMMA QuietState == ASSUME StateOK, Quiet PROVE StateOK'
BY DEF StateOK, Quiet, NothingWritten

LEMMA EmptyOK == <<>> \in Seq(Operation)
OBVIOUS

LEMMA EndsOK == ASSUME Ends PROVE CommandOK' /\ StepOK' /\ KeptBeforeTaken' /\ cmd'.at = "idle"
BY IdleFields, EmptyOK DEF Ends, CommandOK, StepOK, FileState, KeptBeforeTaken

LEMMA LedgerFrame ==
    ASSUME MovesNumbered, RowsTrue, UNCHANGED <<stored, rows>>, counts'.moves = counts.moves,
           history.past \subseteq history'.past,
           cmd.at \in {"moved", "mark"} => "lost row" \in history'.past,
           cmd'.at \in Moving =>
               cmd'.at # "moved" /\ cmd.at \in Moving /\ cmd'.row = cmd.row /\ cmd'.path = cmd.path
    PROVE  MovesNumbered' /\ RowsTrue'
BY DEF MovesNumbered, RowsTrue

LEMMA SnapshotsFrame ==
    ASSUME SnapshotsKnown, UNCHANGED <<baseline, snapshot, batches>>,
           history'.wrote = history.wrote, history.past \subseteq history'.past,
           cmd.at \in Recording => ~Clean' \/ (cmd'.at \in Recording /\ cmd'.path = cmd.path)
    PROVE  SnapshotsKnown'
BY DEF SnapshotsKnown, Clean

\* Steps at which nothing is claimed of the file of the command.
AtRest == {"idle", "look", "same", "moved", "displaced", "event", "restore", "mark"}

LEMMA RestOK == ASSUME cmd'.at \in AtRest PROVE WritesKnown' /\ KeptBeforeTaken'
BY DEF AtRest, WritesKnown, KeptBeforeTaken

LEMMA ChainFrame ==
    ASSUME OperationsChained, UNCHANGED <<files, batches>>,
           history'.origin = history.origin, history'.displaced = history.displaced,
           history.past \subseteq history'.past,
           cmd.at \in Unsettled /\ cmd.path \notin history.displaced =>
               ~Straight' \/ (cmd'.at \in Unsettled /\ cmd'.path = cmd.path),
           cmd'.at \notin Moving,
           Straight' /\ cmd'.path \in Paths \ history.displaced => WriteChained' /\ UndoChained'
    PROVE  OperationsChained'
<1> SUFFICES ASSUME Straight' PROVE OperationsChained'
  BY DEF OperationsChained
<1>1. Straight
  BY DEF Straight
<1>2. ASSUME NEW p \in Paths \ history.displaced
      PROVE  Chained(batches[p]) /\ (p # cmd'.path \/ cmd'.at \notin Unsettled => Settled(p))
  BY <1>1 DEF OperationsChained
<1>3. \A p \in Paths \ history'.displaced :
          Chained(batches'[p]) /\ (p # cmd'.path \/ cmd'.at \notin Unsettled => Settled(p)')
  BY <1>2 DEF Settled
<1> QED BY <1>3 DEF OperationsChained

LEMMA RestChained == ASSUME cmd'.at \in AtRest PROVE WriteChained' /\ UndoChained'
BY DEF WriteChained, UndoChained, AtRest

LEMMA Finished ==
    ASSUME IInv, Quiet, Ends,
           cmd.at \in {"moved", "mark"} => "lost row" \in history'.past,
           cmd.at \in Recording => ~Clean',
           cmd.at \in Unsettled /\ cmd.path \notin history.displaced => ~Straight'
    PROVE  IInv'
<1>1. TypeOK' /\ KeptBeforeTaken' /\ cmd'.at = "idle"
  BY QuietState, EndsOK DEF IInv, TypeOK
<1>2. MovesNumbered' /\ RowsTrue'
  BY <1>1, LedgerFrame DEF IInv, Quiet, NothingWritten
<1>3. SnapshotsKnown' /\ WritesKnown'
  BY <1>1, SnapshotsFrame, RestOK DEF IInv, Quiet, NothingWritten, AtRest
<1>4. OperationsChained'
  BY <1>1, ChainFrame, RestChained DEF IInv, Quiet, NothingWritten, AtRest
<1> QED BY <1>1, <1>2, <1>3, <1>4 DEF IInv

\* A command goes on to a step at which nothing is claimed of its file.
LEMMA GoesOn ==
    ASSUME IInv, Quiet, cmd.at \notin {"moved", "mark"} \cup Unsettled,
           cmd'.at \in AtRest \ Moving, CommandOK', StepOK'
    PROVE  IInv'
<1>1. TypeOK' /\ KeptBeforeTaken' /\ WritesKnown'
  BY QuietState, RestOK DEF IInv, TypeOK
<1>2. MovesNumbered' /\ RowsTrue'
  BY LedgerFrame DEF IInv, Quiet, NothingWritten
<1>3. SnapshotsKnown'
  BY SnapshotsFrame DEF IInv, Quiet, NothingWritten
<1>4. OperationsChained'
  BY ChainFrame, RestChained DEF IInv, Quiet, NothingWritten
<1> QED BY <1>1, <1>2, <1>3, <1>4 DEF IInv

\* A command goes on and claims something of its file.
LEMMA GoesOnWith ==
    ASSUME IInv, Quiet, cmd.at \notin {"moved", "mark"}, cmd'.at \notin Moving,
           CommandOK', StepOK', KeptBeforeTaken', WritesKnown',
           cmd.at \in Recording => ~Clean' \/ (cmd'.at \in Recording /\ cmd'.path = cmd.path),
           cmd.at \in Unsettled /\ cmd.path \notin history.displaced =>
               ~Straight' \/ (cmd'.at \in Unsettled /\ cmd'.path = cmd.path),
           Straight' /\ cmd'.path \in Paths \ history.displaced => WriteChained' /\ UndoChained'
    PROVE  IInv'
<1>1. TypeOK'
  BY QuietState DEF IInv, TypeOK
<1>2. MovesNumbered' /\ RowsTrue'
  BY LedgerFrame DEF IInv, Quiet, NothingWritten
<1>3. SnapshotsKnown'
  BY SnapshotsFrame DEF IInv, Quiet, NothingWritten
<1>4. OperationsChained'
  BY ChainFrame DEF IInv, Quiet, NothingWritten
<1> QED BY <1>1, <1>2, <1>3, <1>4 DEF IInv

LEMMA EarlierHistory ==
    ASSUME IInv, NothingWritten
    PROVE  /\ Clean' => Clean /\ WritesKnown
           /\ Straight' /\ cmd.path \in Paths \ history.displaced =>
                  Straight /\ WriteChained /\ UndoChained
BY DEF IInv, NothingWritten, Clean, Straight, OperationsChained

-----------------------------------------------------------------------------
(* apply *)

LEMMA ApplyStartsKeeps == ASSUME IInv, ApplyStarts PROVE IInv'
<1>1. Quiet /\ cmd.at = "idle"
  BY Counting DEF ApplyStarts, Quiet, records, IInv, TypeOK
<1>2. CommandOK' /\ StepOK' /\ cmd'.at = "look"
  BY PathsAssumption, EmptyOK DEF ApplyStarts, CommandOK, StepOK, Idle, FileState
<1> QED BY <1>1, <1>2, GoesOn DEF AtRest

LEMMA LookKeeps == ASSUME IInv, Look PROVE IInv'
<1>1. Quiet /\ cmd.at = "look"
  BY SameHistory DEF Look, Quiet, records
<1>2. /\ CommandOK' /\ StepOK' /\ cmd'.original = files[cmd'.path]
      /\ cmd'.at \in {"same", "check"}
  BY PathsAssumption, IdleFields DEF Look, IInv, TypeOK, StateOK, CommandOK, StepOK
<1>3. CASE cmd'.at = "same"
  BY <1>1, <1>2, <1>3, GoesOn DEF AtRest
<1>4. CASE cmd'.at = "check"
  <2>1. KeptBeforeTaken' /\ WritesKnown'
    BY <1>1, <1>2, <1>4 DEF KeptBeforeTaken, Quiet, WritesKnown
  <2>2. WriteChained' /\ UndoChained'
    BY <1>1, <1>2, <1>4 DEF WriteChained, UndoChained, Quiet
  <2> QED BY <1>1, <1>2, <1>4, <2>1, <2>2, GoesOnWith
<1> QED BY <1>2, <1>3, <1>4

LEMMA RecordCheckedKeeps == ASSUME IInv, RecordChecked PROVE IInv'
<1> DEFINE p == cmd.path
<1>1. CASE files[p] = NoFile
  <2>1. Ends /\ Quiet /\ cmd.at = "same"
    BY <1>1, SameHistory DEF RecordChecked, Quiet
  <2> QED BY <2>1, Finished
<1>2. CASE files[p] # NoFile
  <2>1. /\ cmd.at = "same" /\ NextEntry
        /\ snapshot' = [snapshot EXCEPT ![p] = files[p]]
        /\ UNCHANGED <<files, stored, batches, baseline, rows, counts>>
        /\ \/ /\ files[p] = cmd.spec[p]
              /\ history' = [history EXCEPT !.wrote[p] = @ \cup {files[p]}]
           \/ Happens("checked too late")
    BY <1>2 DEF RecordChecked
  <2>2. CommandOK' /\ StepOK' /\ cmd'.at = "look"
    BY <2>1, IdleFields DEF NextEntry, IInv, TypeOK, CommandOK, StepOK
  <2>3. p \in Paths /\ files[p] \in Contents
    BY <1>2, <2>1 DEF IInv, TypeOK, StateOK, StepOK, FileState
  <2>4. /\ DOMAIN history' = DOMAIN history
        /\ history'.origin = history.origin /\ history'.displaced = history.displaced
        /\ history.past \subseteq history'.past
        /\ history'.wrote \in [Paths -> SUBSET FileState]
        /\ \A q \in Paths : history.wrote[q] \subseteq history'.wrote[q]
        /\ \A q \in Paths : q # p => history.wrote[q] = history'.wrote[q]
        /\ files[p] \in history'.wrote[p] \/ ~Clean'
    <3>1. CASE Happens("checked too late")
      BY <2>1, <3>1, EventNoted DEF NothingWritten, IInv, TypeOK, StateOK, Clean
    <3>2. CASE history' = [history EXCEPT !.wrote[p] = @ \cup {files[p]}]
      BY <2>3, <3>2 DEF IInv, TypeOK, StateOK, FileState
    <3> QED BY <2>1, <3>1, <3>2
  <2>5. TypeOK'
    BY <2>1, <2>2, <2>3, <2>4 DEF IInv, TypeOK, StateOK
  <2>6. MovesNumbered' /\ RowsTrue' /\ KeptBeforeTaken' /\ WritesKnown'
    BY <2>1, <2>2, <2>4, LedgerFrame, RestOK DEF IInv, AtRest
  <2>7. SnapshotsKnown'
    <3> SUFFICES ASSUME Clean', NEW q \in Paths
                 PROVE  /\ snapshot'[q] # None => snapshot'[q] \in history'.wrote[q]
                        /\ \/ history'.wrote[q] # {} \/ baseline[q] # None
                           \/ \E n \in DOMAIN batches[q] : batches[q][n].kind = "replace_file"
                           => snapshot'[q] # None
      BY <2>1 DEF SnapshotsKnown
    <3>1. Clean
      BY <2>4 DEF Clean
    <3>2. CASE q = p
      BY <2>1, <2>3, <2>4, <3>2, PathsAssumption DEF IInv, TypeOK, StateOK
    <3>3. CASE q # p
      <4>1. snapshot'[q] = snapshot[q] /\ history'.wrote[q] = history.wrote[q]
        BY <2>1, <2>4, <3>3 DEF IInv, TypeOK, StateOK
      <4> QED BY <2>1, <3>1, <3>3, <4>1 DEF IInv, SnapshotsKnown
    <3> QED BY <3>2, <3>3
  <2>8. OperationsChained'
    BY <2>1, <2>2, <2>4, ChainFrame, RestChained DEF IInv, AtRest
  <2> QED BY <2>5, <2>6, <2>7, <2>8 DEF IInv
<1> QED BY <1>1, <1>2

\* A file in which no conflict is found holds what a command left there.
LEMMA CheckConflictKeeps == ASSUME IInv, CheckConflict PROVE IInv'
<1>1. Quiet /\ cmd.at = "check"
  BY SameHistory DEF CheckConflict, Quiet, records
<1>2. CASE AssetConflict(cmd.path)
  <2>1. Ends
    BY <1>2 DEF CheckConflict, Ends
  <2> QED BY <1>1, <2>1, Finished
<1>3. CASE ~AssetConflict(cmd.path)
  <2>1. /\ CommandOK' /\ StepOK' /\ cmd'.path = cmd.path /\ cmd'.original = cmd.original
        /\ cmd'.editedSinceCopy = cmd.editedSinceCopy
        /\ cmd'.at = IF cmd.original = NoFile THEN "write" ELSE "copy"
    BY <1>3, IdleFields DEF CheckConflict, IInv, TypeOK, CommandOK, StepOK
  <2>2. KeptBeforeTaken'
    BY <1>1, <2>1 DEF IInv, KeptBeforeTaken, Quiet
  <2>3. WritesKnown'
    <3> SUFFICES ASSUME Clean'
                 PROVE  \/ files[cmd.path] = NoFile \/ history.wrote[cmd.path] = {}
                        \/ files[cmd.path] \in history.wrote[cmd.path]
      BY <1>1, <2>1 DEF WritesKnown, Quiet, NothingWritten
    <3>1. Clean /\ cmd.path \in Paths
      BY <1>1, EarlierHistory DEF Quiet, IInv, TypeOK, StepOK
    <3>2. \/ snapshot[cmd.path] = None \/ files[cmd.path] = NoFile
          \/ files[cmd.path] = snapshot[cmd.path]
      BY <1>3 DEF AssetConflict
    <3> QED BY <1>1, <3>1, <3>2 DEF IInv, SnapshotsKnown
  <2>4. Straight' /\ cmd'.path \in Paths \ history.displaced => WriteChained' /\ UndoChained'
    BY <1>1, <2>1, EarlierHistory DEF Quiet, NothingWritten, WriteChained, UndoChained
  <2> QED BY <1>1, <2>1, <2>2, <2>3, <2>4, GoesOnWith
<1> QED BY <1>2, <1>3

LEMMA CopyForRecoveryKeeps == ASSUME IInv, CopyForRecovery PROVE IInv'
<1>1. Quiet /\ cmd.at = "copy"
  BY SameHistory DEF CopyForRecovery, Quiet, records
<1>2. UNCHANGED listed
  BY DEF CopyForRecovery, records
<1>3. /\ CommandOK' /\ StepOK' /\ cmd'.path = cmd.path /\ cmd'.original = cmd.original
      /\ cmd'.editedSinceCheck = cmd.editedSinceCheck
      /\ \/ cmd'.at = "list" /\ cmd'.copied = files[cmd.path]
         \/ cmd'.at = "write" /\ files[cmd.path] = NoFile
  <2>1. CASE files[cmd.path] = NoFile
    <3>1. cmd' = [cmd EXCEPT !.at = "write"]
      BY <2>1 DEF CopyForRecovery, Goto
    <3> QED BY <1>1, <2>1, <3>1, IdleFields DEF IInv, TypeOK, CommandOK, StepOK
  <2>2. CASE files[cmd.path] # NoFile
    <3>1. cmd' = [cmd EXCEPT !.at = "list", !.copied = files[cmd.path], !.editedSinceCopy = FALSE]
      BY <2>2 DEF CopyForRecovery
    <3> QED BY <1>1, <2>2, <3>1, IdleFields DEF IInv, TypeOK, CommandOK, StepOK
  <2> QED BY <2>1, <2>2
<1>4. KeptBeforeTaken'
  BY <1>1, <1>3 DEF KeptBeforeTaken, Quiet
<1>5. WritesKnown'
  BY <1>1, <1>3, EarlierHistory DEF WritesKnown, Quiet, NothingWritten
<1>6. Straight' /\ cmd'.path \in Paths \ history.displaced => WriteChained' /\ UndoChained'
  BY <1>1, <1>3, EarlierHistory DEF Quiet, NothingWritten, WriteChained, UndoChained
<1> QED BY <1>1, <1>3, <1>4, <1>5, <1>6, GoesOnWith

LEMMA ListRecoveryBackupKeeps == ASSUME IInv, ListRecoveryBackup PROVE IInv'
<1>1. Quiet /\ cmd.at = "list"
  BY SameHistory DEF ListRecoveryBackup, Quiet
<1>2. /\ CommandOK' /\ StepOK' /\ cmd'.path = cmd.path /\ cmd'.original = cmd.original
      /\ cmd'.editedSinceCheck = cmd.editedSinceCheck
      /\ cmd'.editedSinceCopy = cmd.editedSinceCopy /\ cmd'.at = "write"
  BY IdleFields DEF ListRecoveryBackup, Goto, IInv, TypeOK, CommandOK, StepOK
<1>3. KeptBeforeTaken'
  BY <1>1, <1>2 DEF ListRecoveryBackup, IInv, KeptBeforeTaken, Quiet
<1>4. WritesKnown'
  BY <1>1, <1>2, EarlierHistory DEF WritesKnown, Quiet, NothingWritten
<1>5. Straight' /\ cmd'.path \in Paths \ history.displaced => WriteChained' /\ UndoChained'
  BY <1>1, <1>2, EarlierHistory DEF Quiet, NothingWritten, WriteChained, UndoChained
<1> QED BY <1>1, <1>2, <1>3, <1>4, <1>5, GoesOnWith

\* Writing one path leaves what is known of the others.
LEMMA Noted ==
    ASSUME StateOK, NEW p \in Paths, NEW content \in FileState, NoteWrite(p, content), UNCHANGED counts
    PROVE  /\ DOMAIN history' = DOMAIN history
           /\ history'.displaced = history.displaced /\ history'.past = history.past
           /\ history'.wrote \in [Paths -> SUBSET FileState]
           /\ history'.origin \in [Paths -> FileState \cup {None}]
           /\ history'.wrote[p] = history.wrote[p] \cup {content}
           /\ history'.origin[p] = IF history.origin[p] = None THEN files[p] ELSE history.origin[p]
           /\ \A q \in Paths : q # p => history'.wrote[q] = history.wrote[q]
                                        /\ history'.origin[q] = history.origin[q]
<1>1. history' = [history EXCEPT !.wrote[p] = @ \cup {content},
                                 !.origin[p] = IF @ = None THEN files[p] ELSE @]
  BY DEF NoteWrite
<1>2. history'.wrote = [history.wrote EXCEPT ![p] = @ \cup {content}]
  BY <1>1 DEF StateOK
<1>3. history'.origin = [history.origin EXCEPT ![p] = IF @ = None THEN files[p] ELSE @]
  BY <1>1 DEF StateOK
<1>4. DOMAIN history' = DOMAIN history /\ history'.displaced = history.displaced /\ history'.past = history.past
  BY <1>1 DEF StateOK
<1>5. history'.wrote \in [Paths -> SUBSET FileState]
  BY <1>2 DEF StateOK
<1>6. history'.origin \in [Paths -> FileState \cup {None}]
  BY <1>3 DEF StateOK
<1> QED BY <1>2, <1>3, <1>4, <1>5, <1>6 DEF StateOK

LEMMA LengthIsNat ==
    ASSUME NEW S, NEW s \in Seq(S) PROVE Len(s) \in Nat /\ 0 \in 0 .. Len(s)
OBVIOUS

LEMMA AfterTyped ==
    ASSUME NEW ops \in Seq(Operation), ops # <<>>, NEW n \in 0 .. Len(ops)
    PROVE  After(ops, n) \in FileState /\ After(ops, n) # None
<1>1. Len(ops) \in Nat \ {0} /\ DOMAIN ops = 1 .. Len(ops)
  OBVIOUS
<1>2. ASSUME NEW i \in 1 .. Len(ops)
      PROVE  ops[i].before \in FileState /\ ops[i].value \in FileState
  <2>1. ops[i] \in Operation
    BY <1>1
  <2> QED BY <2>1 DEF Operation
<1>3. After(ops, n) \in FileState
  BY <1>1, <1>2 DEF After
<1> QED BY <1>3, PathsAssumption DEF FileState

\* What is written to the file of the command changes no other.
LEMMA OthersSettled ==
    ASSUME OperationsChained, Straight, UNCHANGED batches, cmd'.path = cmd.path,
           history'.displaced = history.displaced,
           \A q \in Paths : q # cmd.path =>
               files'[q] = files[q] /\ history'.origin[q] = history.origin[q]
    PROVE  /\ \A q \in Paths \ history'.displaced : Chained(batches'[q])
           /\ \A q \in Paths \ history'.displaced : q # cmd'.path => Settled(q)'
BY DEF OperationsChained, Settled

\* A write leaves what was known of snapshots, but for the path that is written.
LEMMA SnapshotsAfterWrite ==
    ASSUME SnapshotsKnown, UNCHANGED <<baseline, snapshot, batches>>, history'.past = history.past,
           cmd.at \notin Recording, cmd.path \in Paths, cmd'.path = cmd.path,
           history.wrote[cmd.path] \subseteq history'.wrote[cmd.path],
           \A q \in Paths : q # cmd.path => history'.wrote[q] = history.wrote[q],
           Clean => cmd'.at \in Recording \/ snapshot[cmd.path] # None
    PROVE  SnapshotsKnown'
<1> SUFFICES ASSUME Clean', NEW p \in Paths
             PROVE  /\ snapshot'[p] # None => snapshot'[p] \in history'.wrote[p]
                    /\ \/ history'.wrote[p] # {} \/ baseline'[p] # None
                       \/ \E n \in DOMAIN batches'[p] : batches'[p][n].kind = "replace_file"
                       => snapshot'[p] # None \/ (cmd'.path = p /\ cmd'.at \in Recording)
  BY DEF SnapshotsKnown
<1>1. Clean
  BY DEF Clean
<1>2. CASE p = cmd.path
  BY <1>1, <1>2 DEF SnapshotsKnown
<1>3. CASE p # cmd.path
  BY <1>1, <1>3 DEF SnapshotsKnown
<1> QED BY <1>2, <1>3

LEMMA WriteAssetKeeps == ASSUME IInv, WriteAsset PROVE IInv'
<1> DEFINE p == cmd.path
<1>1. /\ cmd.at = "write" /\ files' = [files EXCEPT ![p] = cmd.spec[p]]
      /\ NoteWrite(p, cmd.spec[p]) /\ cmd' = [cmd EXCEPT !.at = "readback"]
      /\ UNCHANGED <<stored, batches, baseline, snapshot, rows, counts>>
  BY DEF WriteAsset, Replace, Goto, records
<1>2. p \in Paths /\ cmd.spec[p] \in Contents
  BY <1>1, PathsAssumption DEF IInv, TypeOK, CommandOK, StepOK
<1>3. /\ DOMAIN history' = DOMAIN history
      /\ history'.displaced = history.displaced /\ history'.past = history.past
      /\ history'.wrote \in [Paths -> SUBSET FileState]
      /\ history'.origin \in [Paths -> FileState \cup {None}]
      /\ history'.wrote[p] = history.wrote[p] \cup {cmd.spec[p]}
      /\ history'.origin[p] = IF history.origin[p] = None THEN files[p] ELSE history.origin[p]
      /\ \A q \in Paths : q # p => history'.wrote[q] = history.wrote[q]
                                   /\ history'.origin[q] = history.origin[q]
  BY <1>1, <1>2, Noted DEF IInv, TypeOK, FileState
<1>4. /\ CommandOK' /\ StepOK' /\ cmd'.at = "readback" /\ cmd'.path = p
      /\ cmd'.spec = cmd.spec /\ cmd'.original = cmd.original
  BY <1>1, IdleFields DEF IInv, TypeOK, CommandOK, StepOK
<1>5. TypeOK'
  BY <1>1, <1>2, <1>3, <1>4 DEF IInv, TypeOK, StateOK, FileState
<1>6. KeptBeforeTaken' /\ WritesKnown'
  BY <1>1, <1>3, <1>4 DEF KeptBeforeTaken, WritesKnown
<1>7. MovesNumbered' /\ RowsTrue'
  BY <1>1, <1>3, <1>4, LedgerFrame DEF IInv
<1>8. SnapshotsKnown'
  BY <1>1, <1>2, <1>3, <1>4, SnapshotsAfterWrite DEF IInv
<1>9. OperationsChained'
  <2> SUFFICES ASSUME Straight' PROVE OperationsChained'
    BY DEF OperationsChained
  <2>1. Straight
    BY <1>3 DEF Straight
  <2>2. \A q \in Paths : q # p => files'[q] = files[q]
    BY <1>1 DEF IInv, TypeOK, StateOK
  <2>3. files'[p] = cmd.spec[p]
    BY <1>1, <1>2 DEF IInv, TypeOK, StateOK
  <2>4. ASSUME p \notin history.displaced PROVE WriteChained' /\ UndoChained'
    <3>1. files[p] = cmd.original /\ Settled(p) /\ batches[p] \in Seq(Operation)
      BY <1>1, <1>2, <2>1, <2>4 DEF IInv, TypeOK, StateOK, OperationsChained, WriteChained
    <3>2. CASE batches[p] = <<>>
      BY <1>1, <1>3, <1>4, <2>3, <3>1, <3>2 DEF Settled, WriteChained, UndoChained
    <3>3. CASE batches[p] # <<>>
      <4>1. history.origin[p] # None
        BY <3>1, <3>3, AfterTyped DEF Settled
      <4> QED BY <1>1, <1>3, <1>4, <2>3, <3>1, <3>3, <4>1 DEF Settled, WriteChained, UndoChained
    <3> QED BY <3>2, <3>3
  <2>5. /\ \A q \in Paths \ history'.displaced : Chained(batches'[q])
        /\ \A q \in Paths \ history'.displaced : q # cmd'.path => Settled(q)'
    BY <1>1, <1>3, <1>4, <2>1, <2>2, OthersSettled DEF IInv
  <2> QED BY <1>3, <1>4, <2>4, <2>5 DEF OperationsChained
<1> QED BY <1>5, <1>6, <1>7, <1>8, <1>9 DEF IInv

LEMMA ReadBackKeeps == ASSUME IInv, ReadBack PROVE IInv'
<1>0. cmd.at = "readback" /\ cmd.path \in Paths
  BY DEF ReadBack, IInv, TypeOK, StepOK
<1>1. CASE files[cmd.path] = NoFile
  <2>1. /\ Ends /\ Happens("unrecorded")
        /\ UNCHANGED <<files, stored, batches, baseline, snapshot, rows, counts>>
    BY <1>1 DEF ReadBack, records
  <2>2. Quiet /\ "unrecorded" \in history'.past
    BY <2>1, EventNoted DEF Quiet, IInv, TypeOK
  <2> QED BY <1>0, <2>1, <2>2, Finished DEF Clean, Straight
<1>2. CASE files[cmd.path] # NoFile
  <2>1. /\ cmd' = [cmd EXCEPT !.at = "baseline", !.written = files[cmd.path]]
        /\ UNCHANGED <<files, stored, batches, baseline, snapshot, rows, counts>>
        /\ \/ files[cmd.path] = cmd.spec[cmd.path] /\ UNCHANGED history
           \/ Happens("checked too late")
    BY <1>2 DEF ReadBack, records
  <2>2. Quiet /\ (files[cmd.path] = cmd.spec[cmd.path] \/ ~Clean')
    BY <2>1, EventNoted, SameHistory DEF Quiet, Clean, IInv, TypeOK
  <2>3. /\ CommandOK' /\ StepOK' /\ cmd'.at = "baseline" /\ cmd'.path = cmd.path
        /\ cmd'.spec = cmd.spec /\ cmd'.original = cmd.original /\ cmd'.written = files[cmd.path]
    BY <1>0, <1>2, <2>1, IdleFields DEF IInv, TypeOK, StateOK, CommandOK, StepOK
  <2>4. KeptBeforeTaken' /\ WritesKnown'
    BY <1>0, <2>2, <2>3, EarlierHistory DEF KeptBeforeTaken, WritesKnown, Quiet, NothingWritten
  <2>5. Straight' /\ cmd'.path \in Paths \ history.displaced => WriteChained' /\ UndoChained'
    BY <1>0, <2>2, <2>3, EarlierHistory DEF Quiet, NothingWritten, WriteChained, UndoChained
  <2> QED BY <1>0, <2>2, <2>3, <2>4, <2>5, GoesOnWith
<1> QED BY <1>1, <1>2

LEMMA RecordBaselineKeeps == ASSUME IInv, RecordBaseline PROVE IInv'
<1>1. /\ cmd.at = "baseline" /\ cmd.path \in Paths /\ cmd' = [cmd EXCEPT !.at = "snapshot"]
      /\ UNCHANGED <<files, stored, batches, snapshot, rows, listed, copies, counts, history>>
  BY DEF RecordBaseline, Goto, IInv, TypeOK, StepOK
<1>2. /\ baseline' \in [Paths -> FileState \cup {None}]
      /\ \A q \in Paths : q # cmd.path => baseline'[q] = baseline[q]
  BY DEF RecordBaseline, IInv, TypeOK, StateOK, CommandOK
<1>3. /\ CommandOK' /\ StepOK' /\ cmd'.at = "snapshot" /\ cmd'.path = cmd.path
      /\ cmd'.spec = cmd.spec /\ cmd'.original = cmd.original /\ cmd'.written = cmd.written
  BY <1>1, IdleFields DEF IInv, TypeOK, CommandOK, StepOK
<1>4. TypeOK'
  BY <1>1, <1>2, <1>3 DEF IInv, TypeOK, StateOK
<1>5. KeptBeforeTaken' /\ WritesKnown'
  BY <1>1, <1>3 DEF KeptBeforeTaken, WritesKnown, IInv, Clean
<1>6. MovesNumbered' /\ RowsTrue'
  BY <1>1, <1>3, LedgerFrame DEF IInv
<1>7. SnapshotsKnown'
  BY <1>1, <1>2, <1>3 DEF IInv, SnapshotsKnown, Clean
<1>8. OperationsChained'
  <2>1. Straight' /\ cmd'.path \in Paths \ history.displaced => WriteChained' /\ UndoChained'
    BY <1>1, <1>3 DEF IInv, OperationsChained, Straight, WriteChained, UndoChained
  <2> QED BY <1>1, <1>3, <2>1, ChainFrame DEF IInv
<1> QED BY <1>4, <1>5, <1>6, <1>7, <1>8 DEF IInv

LEMMA RecordSnapshotKeeps == ASSUME IInv, RecordSnapshot PROVE IInv'
<1>1. /\ cmd.at = "snapshot" /\ cmd.path \in Paths /\ cmd' = [cmd EXCEPT !.at = "batch"]
      /\ snapshot' = [snapshot EXCEPT ![cmd.path] = cmd.written]
      /\ UNCHANGED <<files, stored, batches, baseline, rows, listed, copies, counts, history>>
  BY DEF RecordSnapshot, Goto, IInv, TypeOK, StepOK
<1>2. cmd.written \in Contents /\ cmd.written # None
  BY <1>1, PathsAssumption DEF IInv, TypeOK, CommandOK, StepOK, FileState
<1>3. /\ CommandOK' /\ StepOK' /\ cmd'.at = "batch" /\ cmd'.path = cmd.path
      /\ cmd'.spec = cmd.spec /\ cmd'.original = cmd.original
  BY <1>1, IdleFields DEF IInv, TypeOK, CommandOK, StepOK
<1>4. TypeOK'
  BY <1>1, <1>2, <1>3 DEF IInv, TypeOK, StateOK
<1>5. snapshot'[cmd.path] = cmd.written
  BY <1>1 DEF IInv, TypeOK, StateOK
<1>6. KeptBeforeTaken' /\ WritesKnown'
  BY <1>1, <1>2, <1>3, <1>5 DEF KeptBeforeTaken, WritesKnown
<1>7. MovesNumbered' /\ RowsTrue'
  BY <1>1, <1>3, LedgerFrame DEF IInv
<1>8. SnapshotsKnown'
  <2> SUFFICES ASSUME Clean', NEW p \in Paths
               PROVE  /\ snapshot'[p] # None => snapshot'[p] \in history.wrote[p]
                      /\ \/ history.wrote[p] # {} \/ baseline[p] # None
                         \/ \E n \in DOMAIN batches[p] : batches[p][n].kind = "replace_file"
                         => snapshot'[p] # None
    BY <1>1 DEF SnapshotsKnown
  <2>1. Clean
    BY <1>1 DEF Clean
  <2>2. CASE p = cmd.path
    BY <1>1, <1>2, <1>5, <2>1, <2>2 DEF IInv, WritesKnown
  <2>3. CASE p # cmd.path
    <3>1. snapshot'[p] = snapshot[p]
      BY <1>1, <2>3 DEF IInv, TypeOK, StateOK
    <3> QED BY <2>1, <2>3, <3>1 DEF IInv, SnapshotsKnown
  <2> QED BY <2>2, <2>3
<1>9. OperationsChained'
  <2>1. Straight' /\ cmd'.path \in Paths \ history.displaced => WriteChained' /\ UndoChained'
    BY <1>1, <1>3 DEF IInv, OperationsChained, Straight, WriteChained, UndoChained
  <2> QED BY <1>1, <1>3, <2>1, ChainFrame DEF IInv
<1> QED BY <1>4, <1>6, <1>7, <1>8, <1>9 DEF IInv

\* Operations go on where the ones before them have led.
LEMMA ChainGrows ==
    ASSUME NEW ops \in Seq(Operation), NEW more \in Seq(Operation), more # <<>>,
           Chained(ops), Chained(more),
           ops # <<>> => After(more, 0) = After(ops, Len(ops))
    PROVE  /\ ops \o more \in Seq(Operation) /\ ops \o more # <<>> /\ Chained(ops \o more)
           /\ After(ops \o more, 0) = IF ops = <<>> THEN After(more, 0) ELSE After(ops, 0)
           /\ After(ops \o more, Len(ops \o more)) = After(more, Len(more))
<1> DEFINE all == ops \o more
<1>1. /\ all \in Seq(Operation) /\ Len(all) = Len(ops) + Len(more)
      /\ Len(ops) \in Nat /\ Len(more) \in Nat \ {0}
      /\ DOMAIN all = 1 .. Len(all) /\ DOMAIN ops = 1 .. Len(ops) /\ DOMAIN more = 1 .. Len(more)
  OBVIOUS
<1>2. \A n \in 1 .. Len(ops) : all[n] = ops[n]
  OBVIOUS
<1>3. \A n \in 1 .. Len(more) : all[Len(ops) + n] = more[n]
  OBVIOUS
<1>4. ops = <<>> <=> Len(ops) = 0
  OBVIOUS
<1> HIDE DEF all
<1>5. After(all, 0) = IF ops = <<>> THEN After(more, 0) ELSE After(ops, 0)
  BY <1>1, <1>2, <1>3, <1>4 DEF After
<1>6. After(all, Len(all)) = After(more, Len(more))
  BY <1>1, <1>3 DEF After
<1>7. ASSUME NEW n \in 1 .. Len(all)
      PROVE  all[n].kind = "replace_file" /\ (n > 1 => all[n].before = all[n - 1].value)
  <2>1. CASE n <= Len(ops)
    <3>1. n \in 1 .. Len(ops) /\ (n > 1 => n - 1 \in 1 .. Len(ops))
      BY <1>1, <2>1
    <3>2. all[n] = ops[n] /\ (n > 1 => all[n - 1] = ops[n - 1])
      BY <1>2, <3>1
    <3> QED BY <1>1, <3>1, <3>2 DEF Chained
  <2>2. CASE n = Len(ops) + 1
    <3>1. all[n] = more[1]
      BY <1>1, <1>3, <2>2
    <3>2. n > 1 => all[n - 1] = ops[Len(ops)] /\ ops # <<>>
      BY <1>1, <1>2, <1>4, <2>2
    <3> QED BY <1>1, <1>4, <2>2, <3>1, <3>2 DEF Chained, After
  <2>3. CASE n > Len(ops) + 1
    <3> DEFINE i == n - Len(ops)
    <3>1. /\ n = Len(ops) + i /\ n - 1 = Len(ops) + (i - 1)
          /\ i \in 1 .. Len(more) /\ i - 1 \in 1 .. Len(more) /\ i > 1
      BY <1>1, <2>3
    <3> HIDE DEF i
    <3>2. all[n] = more[i] /\ all[n - 1] = more[i - 1]
      BY <1>3, <3>1
    <3>3. more[i].kind = "replace_file" /\ more[i].before = more[i - 1].value
      BY <1>1, <3>1 DEF Chained
    <3> QED BY <3>1, <3>2, <3>3
  <2> QED BY <1>1, <2>1, <2>2, <2>3
<1>8. all # <<>> /\ Chained(all)
  BY <1>1, <1>7 DEF Chained
<1> QED BY <1>1, <1>5, <1>6, <1>8 DEF all

LEMMA OneChained ==
    ASSUME NEW op \in Operation, op.kind = "replace_file"
    PROVE  /\ <<op>> \in Seq(Operation) /\ <<op>> # <<>> /\ Chained(<<op>>)
           /\ After(<<op>>, 0) = op.before /\ After(<<op>>, Len(<<op>>)) = op.value
BY DEF Chained, After

LEMMA RecordBatchKeeps == ASSUME IInv, RecordBatch PROVE IInv'
<1> DEFINE p == cmd.path
           op == Replacement(cmd.spec[p], cmd.original)
<1>1. /\ cmd.at = "batch" /\ p \in Paths /\ NextEntry
      /\ batches' = [batches EXCEPT ![p] = @ \o <<op>>]
      /\ UNCHANGED <<files, stored, baseline, snapshot, rows, listed, copies, counts, history>>
  BY DEF RecordBatch, AppendBatch, IInv, TypeOK, StepOK
<1>2. op \in Operation /\ op.kind = "replace_file" /\ op.value = cmd.spec[p]
      /\ op.before = cmd.original
  BY <1>1, PathsAssumption DEF Replacement, Operation, FileState, IInv, TypeOK, CommandOK, StepOK
<1>3. /\ batches[p] \in Seq(Operation)
      /\ batches'[p] = batches[p] \o <<op>>
      /\ \A q \in Paths : q # p => batches'[q] = batches[q]
  BY <1>1 DEF IInv, TypeOK, StateOK
<1>4. batches' \in [Paths -> Seq(Operation)]
  <2>1. batches[p] \o <<op>> \in Seq(Operation)
    BY <1>2, <1>3
  <2> QED BY <1>1, <2>1 DEF IInv, TypeOK, StateOK
<1>5. CommandOK' /\ StepOK' /\ cmd'.at = "look"
  BY <1>1, IdleFields DEF NextEntry, IInv, TypeOK, CommandOK, StepOK
<1>6. TypeOK'
  BY <1>1, <1>4, <1>5 DEF IInv, TypeOK, StateOK
<1>7. MovesNumbered' /\ RowsTrue' /\ KeptBeforeTaken' /\ WritesKnown'
  BY <1>1, <1>5, LedgerFrame, RestOK DEF IInv, AtRest
<1>8. SnapshotsKnown'
  BY <1>1, <1>3, <1>5 DEF IInv, SnapshotsKnown, WritesKnown, Clean
<1>9. OperationsChained'
  <2> SUFFICES ASSUME Straight', NEW q \in Paths \ history.displaced
               PROVE  Chained(batches'[q]) /\ Settled(q)'
    BY <1>1, <1>5, RestChained DEF OperationsChained, AtRest
  <2>1. Straight
    BY <1>1 DEF Straight
  <2>2. CASE q = p
    <3>1. /\ Chained(batches[p]) /\ WriteChained
      BY <2>1, <2>2 DEF IInv, OperationsChained
    <3>2. batches[p] # <<>> => op.before = After(batches[p], Len(batches[p]))
      BY <1>1, <1>2, <3>1 DEF WriteChained
    <3>3. /\ batches'[p] # <<>> /\ Chained(batches'[p])
          /\ After(batches'[p], 0) = IF batches[p] = <<>> THEN op.before ELSE After(batches[p], 0)
          /\ After(batches'[p], Len(batches'[p])) = op.value
      <4> DEFINE one == <<op>>
                 ops == batches[p]
      <4>1. /\ one \in Seq(Operation) /\ one # <<>> /\ Chained(one)
            /\ After(one, 0) = op.before /\ After(one, Len(one)) = op.value
        BY <1>2, OneChained
      <4>2. /\ ops \in Seq(Operation) /\ Chained(ops)
            /\ ops # <<>> => After(one, 0) = After(ops, Len(ops))
        BY <1>3, <3>1, <3>2, <4>1
      <4>3. batches'[p] = ops \o one
        BY <1>3
      <4> HIDE DEF one, ops
      <4>4. /\ ops \o one # <<>> /\ Chained(ops \o one)
            /\ After(ops \o one, 0) = IF ops = <<>> THEN After(one, 0) ELSE After(ops, 0)
            /\ After(ops \o one, Len(ops \o one)) = After(one, Len(one))
        BY <4>1, <4>2, ChainGrows
      <4> QED BY <4>1, <4>3, <4>4 DEF ops
    <3> QED BY <1>1, <1>2, <2>2, <3>1, <3>3 DEF WriteChained, Settled
  <2>3. CASE q # p
    <3>1. Chained(batches[q]) /\ Settled(q)
      BY <2>1, <2>3 DEF IInv, OperationsChained
    <3> QED BY <1>1, <1>3, <2>3, <3>1 DEF Settled
  <2> QED BY <2>2, <2>3
<1> QED BY <1>6, <1>7, <1>8, <1>9 DEF IInv

-----------------------------------------------------------------------------
(* apply: moved files *)

LEMMA RowTyped ==
    ASSUME StateOK, NEW n \in DOMAIN rows
    PROVE  rows[n] \in Row /\ rows[n].id \in Nat /\ rows[n].path \in Paths
<1>1. rows[n] \in Row
  BY DEF StateOK
<1> QED BY <1>1 DEF Row

LEMMA MoveExtraKeeps == ASSUME IInv, MoveExtra PROVE IInv'
<1>1. PICK p \in cmd.extras :
        \/ files[p] = NoFile /\ Ends /\ UNCHANGED <<files, stored, counts, history>>
        \/ /\ files[p] # NoFile
           /\ stored' = stored \cup {Stored(counts.moves + 1, p, files[p])}
           /\ Replace(p, NoFile)
           /\ Counted("moves")
           /\ cmd' = [cmd EXCEPT !.at = "moved", !.path = p, !.row = counts.moves + 1]
           /\ history' = [history EXCEPT !.displaced = @ \cup {p}]
  BY DEF MoveExtra
<1>2. /\ cmd.at = "look" /\ p \in Paths
      /\ UNCHANGED <<batches, baseline, snapshot, rows>>
  BY DEF MoveExtra, records, IInv, TypeOK, CommandOK
<1>3. CASE Ends /\ UNCHANGED <<files, stored, counts, history>>
  BY <1>2, <1>3, SameHistory, Finished DEF Quiet
<1>4. CASE /\ files[p] # NoFile
           /\ stored' = stored \cup {Stored(counts.moves + 1, p, files[p])}
           /\ Replace(p, NoFile)
           /\ Counted("moves")
           /\ cmd' = [cmd EXCEPT !.at = "moved", !.path = p, !.row = counts.moves + 1]
           /\ history' = [history EXCEPT !.displaced = @ \cup {p}]
  <2> DEFINE id == counts.moves + 1
             new == Stored(id, p, files[p])
  <2>1. /\ CommandOK' /\ StepOK' /\ cmd'.at = "moved" /\ cmd'.path = p /\ cmd'.row = id
    BY <1>2, <1>4, IdleFields DEF IInv, TypeOK, StateOK, CommandOK, StepOK
  <2>2. /\ new.id = id /\ new.path = p /\ new.content = files[p] /\ files[p] \in Contents
    BY <1>2, <1>4 DEF Stored, IInv, TypeOK, StateOK, FileState
  <2>3. /\ DOMAIN counts' = DOMAIN counts /\ counts'.moves = id /\ counts.moves \in Nat
    BY <1>4 DEF Counted, IInv, TypeOK, StateOK
  <2>4. /\ DOMAIN history' = DOMAIN history /\ history'.wrote = history.wrote
        /\ history'.origin = history.origin /\ history'.past = history.past
        /\ history'.displaced = history.displaced \cup {p}
    BY <1>4 DEF IInv, TypeOK, StateOK
  <2>5. /\ files' \in [Paths -> FileState]
        /\ \A q \in Paths : q # p => files'[q] = files[q]
    BY <1>4 DEF Replace, IInv, TypeOK, StateOK, FileState
  <2>6. stored' = stored \cup {new}
    BY <1>4
  <2> HIDE DEF new
  <2>7. TypeOK'
    BY <1>2, <2>1, <2>2, <2>3, <2>4, <2>5, <2>6 DEF IInv, TypeOK, StateOK
  <2>8. MovesNumbered'
    <3>1. \A m \in stored' : m = new \/ m \in stored
      BY <2>6
    <3>2. /\ \A m \in stored : m.id \in Nat /\ m.id <= counts.moves
          /\ \A n \in DOMAIN rows : rows[n].id \in Nat /\ rows[n].id <= counts.moves
      BY RowTyped DEF IInv, TypeOK, StateOK, MovesNumbered
    <3>3. /\ \A m \in stored : m.id < id
          /\ \A n \in DOMAIN rows : rows[n].id < id
      BY <2>3, <3>2
    <3>4. counts.moves <= id
      BY <2>3
    <3>5. /\ \A m \in stored' : m.id <= id
          /\ \A n \in DOMAIN rows : rows[n].id <= id
      BY <2>2, <2>3, <3>1, <3>2, <3>3
    <3>6. \A m \in stored', n \in DOMAIN rows : m.id = rows[n].id => m.path = rows[n].path
      BY <2>2, <2>3, <3>1, <3>2, <3>3 DEF IInv, MovesNumbered
    <3>8. \A m, other \in stored' : m.id = other.id => m = other
      BY <2>2, <2>3, <3>1, <3>2, <3>3 DEF IInv, MovesNumbered
    <3>7. \A m \in stored' : m.id = id => m.path = p
      BY <2>2, <2>3, <3>1, <3>2, <3>3
    <3> QED BY <1>2, <2>1, <2>2, <2>3, <2>6, <3>3, <3>5, <3>6, <3>7, <3>8 DEF IInv, MovesNumbered
  <2>9. RowsTrue'
    BY <1>2, <2>1, <2>2, <2>4, <2>6 DEF IInv, RowsTrue
  <2>10. SnapshotsKnown'
    BY <1>2, <2>4 DEF IInv, SnapshotsKnown, Clean
  <2>11. KeptBeforeTaken' /\ WritesKnown'
    BY <2>1, RestOK DEF AtRest
  <2>12. OperationsChained'
    <3>1. WriteChained' /\ UndoChained'
      BY <2>1, RestChained DEF AtRest
    <3>2. ASSUME Straight', NEW q \in Paths \ history'.displaced
          PROVE  Chained(batches'[q]) /\ Settled(q)'
      <4>1. Straight /\ q \in Paths \ history.displaced /\ q # p
        BY <2>4, <3>2 DEF Straight
      <4>2. Chained(batches[q]) /\ Settled(q)
        BY <1>2, <4>1 DEF IInv, OperationsChained
      <4> QED BY <1>2, <2>4, <2>5, <4>1, <4>2 DEF Settled
    <3> QED BY <2>1, <2>4, <3>1, <3>2 DEF OperationsChained
  <2> QED BY <2>7, <2>8, <2>9, <2>10, <2>11, <2>12 DEF IInv
<1> QED BY <1>1, <1>3, <1>4

LEMMA RecordMoveKeeps == ASSUME IInv, RecordMove PROVE IInv'
<1> DEFINE new == [id |-> cmd.row, path |-> cmd.path, restored |-> FALSE]
<1>1. /\ cmd.at = "moved" /\ cmd.path \in Paths /\ rows' = Append(rows, new)
      /\ cmd' = [cmd EXCEPT !.at = "displaced"]
      /\ UNCHANGED <<files, stored, batches, baseline, snapshot, counts, history>>
  BY DEF RecordMove, Goto, IInv, TypeOK, StepOK
<1>2. new \in Row /\ new.id = cmd.row /\ new.path = cmd.path /\ ~new.restored
  BY <1>1 DEF Row, IInv, TypeOK, CommandOK
<1> HIDE DEF new
<1>3. /\ CommandOK' /\ StepOK' /\ cmd'.at = "displaced" /\ cmd'.path = cmd.path
      /\ cmd'.row = cmd.row
  BY <1>1, IdleFields DEF IInv, TypeOK, CommandOK, StepOK
<1>4. /\ rows \in Seq(Row) /\ rows' \in Seq(Row) /\ Len(rows) \in Nat
      /\ DOMAIN rows = 1 .. Len(rows) /\ DOMAIN rows' = 1 .. Len(rows) + 1
      /\ rows'[Len(rows) + 1] = new
      /\ \A n \in DOMAIN rows : rows'[n] = rows[n]
  BY <1>1, <1>2 DEF IInv, TypeOK, StateOK
<1>5. TypeOK'
  BY <1>1, <1>3, <1>4 DEF IInv, TypeOK, StateOK
<1> DEFINE last == Len(rows) + 1
<1>6. /\ last \in DOMAIN rows' /\ rows'[last] = new
      /\ \A n \in DOMAIN rows : n < last /\ n \in DOMAIN rows' /\ rows'[n] = rows[n]
      /\ \A n \in DOMAIN rows' : n \in DOMAIN rows \/ n = last
  <2> DEFINE k == Len(rows)
  <2>1. /\ k \in Nat /\ DOMAIN rows = 1 .. k /\ DOMAIN rows' = 1 .. (k + 1) /\ last = k + 1
    BY <1>4
  <2> HIDE DEF k, last
  <2>2. /\ last \in DOMAIN rows'
        /\ \A n \in DOMAIN rows : n < last /\ n \in DOMAIN rows'
        /\ \A n \in DOMAIN rows' : n \in DOMAIN rows \/ n = last
    BY <2>1
  <2> QED BY <1>4, <2>2 DEF last
<1> HIDE DEF last
<1>7. MovesNumbered'
  <2>1. /\ \A n \in DOMAIN rows : rows[n].id < cmd.row
        /\ cmd.row <= counts.moves
        /\ \A m \in stored : m.id = cmd.row => m.path = cmd.path
    BY <1>1 DEF IInv, MovesNumbered
  <2>2. \A n \in DOMAIN rows' : rows'[n].id <= counts.moves
    BY <1>2, <1>6, <2>1 DEF IInv, MovesNumbered
  <2>3. ASSUME NEW i \in DOMAIN rows', NEW j \in DOMAIN rows', i < j
        PROVE  rows'[i].id < rows'[j].id
    <3>1. i \in DOMAIN rows /\ rows'[i] = rows[i]
      <4>1. i \in 1 .. Len(rows) + 1 /\ j \in 1 .. Len(rows) + 1 /\ Len(rows) \in Nat
        BY <1>4
      <4>2. i \in 1 .. Len(rows)
        BY <2>3, <4>1
      <4> QED BY <1>4, <4>2
    <3> QED BY <1>2, <1>6, <2>1, <2>3, <3>1 DEF IInv, MovesNumbered
  <2>4. \A m \in stored, n \in DOMAIN rows' : m.id = rows'[n].id => m.path = rows'[n].path
    BY <1>2, <1>6, <2>1 DEF IInv, MovesNumbered
  <2> QED BY <1>1, <1>3, <2>1, <2>2, <2>3, <2>4 DEF IInv, MovesNumbered
<1>8. RowsTrue'
  <2> SUFFICES ASSUME "lost row" \notin history.past PROVE RowsTrue'
    BY <1>1 DEF RowsTrue
  <2>0. \E m \in stored : m.id = cmd.row /\ m.path = cmd.path
    BY <1>1 DEF IInv, MovesNumbered
  <2>1. /\ \A n \in DOMAIN rows :
              rows[n].restored \/ \E m \in stored : m.id = rows[n].id /\ m.path = rows[n].path
        /\ \A m \in stored : (\E n \in DOMAIN rows : rows[n].id = m.id) \/ cmd.row = m.id
    BY <1>1 DEF IInv, RowsTrue
  <2>4. \A n \in DOMAIN rows' :
            rows'[n].restored \/ \E m \in stored : m.id = rows'[n].id /\ m.path = rows'[n].path
    BY <1>2, <1>6, <2>1, <2>0
  <2>5. \A m \in stored : \E n \in DOMAIN rows' : rows'[n].id = m.id
    <3> TAKE m \in stored
    <3>1. CASE cmd.row = m.id
      BY <1>2, <1>6, <3>1
    <3>2. CASE \E n \in DOMAIN rows : rows[n].id = m.id
      BY <1>6, <3>2
    <3> QED BY <2>1, <3>1, <3>2
  <2> QED BY <1>1, <2>4, <2>5 DEF RowsTrue
<1>9. SnapshotsKnown' /\ KeptBeforeTaken' /\ WritesKnown'
  BY <1>1, <1>3, SnapshotsFrame, RestOK DEF IInv, AtRest
<1>10. OperationsChained'
  <2>1. WriteChained' /\ UndoChained'
    BY <1>3, RestChained DEF AtRest
  <2> QED BY <1>1, <1>3, <2>1 DEF IInv, OperationsChained, Settled, Straight
<1> QED BY <1>5, <1>7, <1>8, <1>9, <1>10 DEF IInv

LEMMA RecordDisplacementKeeps == ASSUME IInv, RecordDisplacement PROVE IInv'
<1> DEFINE p == cmd.path
           op == Displacement(p)
<1>1. /\ cmd.at = "displaced" /\ p \in Paths
      /\ cmd' = [cmd EXCEPT !.at = "event"]
      /\ batches' = [batches EXCEPT ![p] = @ \o <<op>>]
      /\ UNCHANGED <<files, stored, baseline, snapshot, rows, listed, copies, counts, history>>
  BY DEF RecordDisplacement, AppendBatch, Goto, IInv, TypeOK, StepOK
<1>2. op \in Operation /\ op.kind = "displace_file"
  BY DEF Displacement, Operation, FileState
<1>3. /\ batches[p] \in Seq(Operation)
      /\ batches'[p] = batches[p] \o <<op>>
      /\ \A q \in Paths : q # p => batches'[q] = batches[q]
  BY <1>1 DEF IInv, TypeOK, StateOK
<1>4. batches' \in [Paths -> Seq(Operation)]
  <2>1. batches[p] \o <<op>> \in Seq(Operation)
    BY <1>2, <1>3
  <2> QED BY <1>1, <2>1 DEF IInv, TypeOK, StateOK
<1>5. CommandOK' /\ StepOK' /\ cmd'.at = "event" /\ cmd'.path = p /\ cmd'.row = cmd.row
  <2>1. /\ DOMAIN cmd' = DOMAIN cmd /\ cmd'.at = "event" /\ cmd'.extras = cmd.extras
        /\ cmd'.path = p
        /\ cmd'.command = cmd.command /\ cmd'.spec = cmd.spec /\ cmd'.todo = cmd.todo
        /\ cmd'.original = cmd.original /\ cmd'.written = cmd.written /\ cmd'.row = cmd.row
        /\ cmd'.left = cmd.left /\ cmd'.done = cmd.done
    BY <1>1, IdleFields DEF IInv, TypeOK, CommandOK
  <2> QED BY <1>1, <2>1 DEF IInv, TypeOK, CommandOK, StepOK
<1>6. TypeOK'
  BY <1>1, <1>4, <1>5 DEF IInv, TypeOK, StateOK
<1>7. MovesNumbered' /\ RowsTrue' /\ KeptBeforeTaken' /\ WritesKnown'
  BY <1>1, <1>5, LedgerFrame, RestOK DEF IInv, AtRest
\* The new operation is no write.
<1>8. \A q \in Paths : (\E n \in DOMAIN batches'[q] : batches'[q][n].kind = "replace_file")
                       => \E n \in DOMAIN batches[q] : batches[q][n].kind = "replace_file"
  <2> SUFFICES ASSUME NEW n \in DOMAIN batches'[p], batches'[p][n].kind = "replace_file"
               PROVE  \E m \in DOMAIN batches[p] : batches[p][m].kind = "replace_file"
    BY <1>3
  <2> DEFINE ops == batches[p]
  <2>1. /\ ops \in Seq(Operation) /\ Len(ops) \in Nat
        /\ DOMAIN ops = 1 .. Len(ops) /\ DOMAIN (ops \o <<op>>) = 1 .. (Len(ops) + 1)
        /\ (ops \o <<op>>)[Len(ops) + 1] = op
        /\ \A m \in 1 .. Len(ops) : (ops \o <<op>>)[m] = ops[m]
    BY <1>2, <1>3
  <2>2. n \in 1 .. (Len(ops) + 1) /\ n # Len(ops) + 1
    BY <1>2, <1>3, <2>1
  <2>3. n \in 1 .. Len(ops)
    BY <2>1, <2>2
  <2> QED BY <1>3, <2>1, <2>3
<1>9. SnapshotsKnown'
  BY <1>1, <1>5, <1>8 DEF IInv, SnapshotsKnown, Clean
<1>10. OperationsChained'
  <2> SUFFICES ASSUME Straight', NEW q \in Paths \ history.displaced
               PROVE  Chained(batches'[q]) /\ Settled(q)'
    <3>1. Straight' => p \in history.displaced
      BY <1>1 DEF Straight, IInv, OperationsChained
    <3> QED BY <1>1, <1>5, <3>1, RestChained DEF OperationsChained, AtRest
  <2>1. Straight /\ q # p
    BY <1>1 DEF Straight, IInv, OperationsChained
  <2>2. Chained(batches[q]) /\ Settled(q)
    BY <2>1 DEF IInv, OperationsChained
  <2> QED BY <1>1, <1>3, <2>1, <2>2 DEF Settled
<1> QED BY <1>6, <1>7, <1>9, <1>10 DEF IInv

LEMMA RecordEventKeeps == ASSUME IInv, RecordEvent PROVE IInv'
<1>1. Quiet /\ cmd.at = "event"
  BY SameHistory DEF RecordEvent, Quiet, records
<1>2. CommandOK' /\ StepOK' /\ cmd'.at = "look"
  <2>1. /\ DOMAIN cmd' = DOMAIN cmd /\ cmd'.at = "look"
        /\ cmd'.extras = cmd.extras \ {cmd.path}
        /\ cmd'.command = cmd.command /\ cmd'.spec = cmd.spec /\ cmd'.todo = cmd.todo
        /\ cmd'.original = cmd.original /\ cmd'.written = cmd.written /\ cmd'.row = cmd.row
        /\ cmd'.left = cmd.left /\ cmd'.done = cmd.done
    BY IdleFields DEF RecordEvent, IInv, TypeOK, CommandOK
  <2> QED BY <1>1, <2>1 DEF IInv, TypeOK, CommandOK, StepOK
<1> QED BY <1>1, <1>2, GoesOn DEF AtRest

LEMMA Marked ==
    ASSUME StateOK, NEW N, MarkRestored(N)
    PROVE  /\ rows' \in Seq(Row) /\ DOMAIN rows' = DOMAIN rows
           /\ \A n \in DOMAIN rows :
                /\ rows'[n].id = rows[n].id /\ rows'[n].path = rows[n].path
                /\ rows'[n].restored <=> rows[n].restored \/ n \in N
<1>1. /\ rows' = [n \in DOMAIN rows |-> [rows[n] EXCEPT !.restored = @ \/ n \in N]]
      /\ DOMAIN rows = 1 .. Len(rows) /\ Len(rows) \in Nat
  BY DEF MarkRestored, StateOK
<1>2. ASSUME NEW n \in DOMAIN rows
      PROVE  /\ rows'[n] \in Row
             /\ rows'[n].id = rows[n].id /\ rows'[n].path = rows[n].path
             /\ rows'[n].restored <=> rows[n].restored \/ n \in N
  <2>1. rows[n] \in Row /\ rows'[n] = [rows[n] EXCEPT !.restored = @ \/ n \in N]
    BY <1>1, RowTyped
  <2> QED BY <2>1 DEF Row
<1>3. rows' \in [1 .. Len(rows) -> Row]
  BY <1>1, <1>2
<1>4. rows' \in Seq(Row)
  BY <1>1, <1>3
<1> QED BY <1>1, <1>2, <1>4

LEMMA DisplacementFailsKeeps == ASSUME IInv, DisplacementFails PROVE IInv'
<1>1. /\ cmd.at \in Moving /\ cmd.path \in Paths /\ Ends
      /\ Counted("crashes")
      /\ UNCHANGED <<batches, baseline, snapshot>>
  BY DEF DisplacementFails, IInv, TypeOK, StepOK
<1>2. PICK moved \in stored :
        /\ moved.id = cmd.row
        /\ \/ /\ files[cmd.path] # NoFile
              /\ UNCHANGED <<files, stored, rows>>
              /\ IF cmd.at = "moved" THEN Happens("lost row") ELSE UNCHANGED history
           \/ /\ files[cmd.path] = NoFile
              /\ Replace(cmd.path, moved.content)
              /\ stored' = stored \ {moved}
              /\ \/ MarkRestored({n \in DOMAIN rows : rows[n].id = cmd.row}) /\ UNCHANGED history
                 \/ cmd.at # "moved" /\ Happens("lost row") /\ UNCHANGED rows
  BY DEF DisplacementFails
<1>3. DOMAIN counts' = DOMAIN counts /\ counts'.moves = counts.moves
  BY <1>1 DEF Counted, IInv, TypeOK, StateOK
<1>4. UNCHANGED history \/ Happens("lost row")
  BY <1>2
<1>5. NothingWritten /\ (Happens("lost row") => "lost row" \in history'.past)
  BY <1>3, <1>4 DEF NothingWritten, Happens, IInv, TypeOK, StateOK
<1>6. CASE files[cmd.path] # NoFile
  <2>1. Quiet /\ (cmd.at = "moved" => Happens("lost row"))
    BY <1>1, <1>2, <1>5, <1>6 DEF Quiet
  <2> QED BY <1>1, <1>5, <2>1, Finished
<1>7. CASE /\ files[cmd.path] = NoFile
           /\ Replace(cmd.path, moved.content)
           /\ stored' = stored \ {moved}
           /\ \/ MarkRestored({n \in DOMAIN rows : rows[n].id = cmd.row}) /\ UNCHANGED history
              \/ Happens("lost row") /\ UNCHANGED rows
  <2>1. /\ files' \in [Paths -> FileState]
        /\ \A q \in Paths : q # cmd.path => files'[q] = files[q]
    BY <1>1, <1>2, <1>7 DEF Replace, IInv, TypeOK, StateOK, FileState
  <2>2. /\ rows' \in Seq(Row) /\ DOMAIN rows' = DOMAIN rows
        /\ \A n \in DOMAIN rows :
              /\ rows'[n].id = rows[n].id /\ rows'[n].path = rows[n].path
              /\ rows[n].restored => rows'[n].restored
              /\ rows[n].id = cmd.row => rows'[n].restored \/ "lost row" \in history'.past
    <3>1. CASE MarkRestored({n \in DOMAIN rows : rows[n].id = cmd.row})
      <4> DEFINE N == {n \in DOMAIN rows : rows[n].id = cmd.row}
      <4>1. /\ rows' \in Seq(Row) /\ DOMAIN rows' = DOMAIN rows
            /\ \A n \in DOMAIN rows :
                /\ rows'[n].id = rows[n].id /\ rows'[n].path = rows[n].path
                /\ rows'[n].restored <=> rows[n].restored \/ n \in N
        BY <3>1, Marked DEF IInv, TypeOK
      <4> QED BY <4>1
    <3>2. CASE Happens("lost row") /\ UNCHANGED rows
      BY <1>5, <3>2 DEF IInv, TypeOK, StateOK
    <3> QED BY <1>7, <3>1, <3>2
  <2>3. /\ CommandOK' /\ StepOK' /\ cmd'.at = "idle"
    BY <1>1, EndsOK
  <2>4. TypeOK'
    BY <1>1, <1>3, <1>5, <1>7, <2>1, <2>2, <2>3 DEF IInv, TypeOK, StateOK, NothingWritten
  <2>5. MovesNumbered'
    <3>1. \A m \in stored' : m \in stored
      BY <1>7
    <3>2. ASSUME NEW n \in DOMAIN rows
          PROVE  /\ rows'[n].id <= counts.moves
                 /\ \A m \in stored : m.id = rows'[n].id => m.path = rows'[n].path
      <4>1. rows'[n].id = rows[n].id /\ rows'[n].path = rows[n].path
        BY <2>2
      <4> QED BY <4>1 DEF IInv, MovesNumbered
    <3>3. \A i, j \in DOMAIN rows : i < j => rows'[i].id < rows'[j].id
      BY <2>2 DEF IInv, MovesNumbered
    <3>4. /\ \A m \in stored : m.id <= counts.moves
          /\ \A m, other \in stored : m.id = other.id => m = other
      BY DEF IInv, MovesNumbered
    <3> QED BY <1>3, <2>2, <2>3, <3>1, <3>2, <3>3, <3>4 DEF MovesNumbered
  <2>6. RowsTrue'
    <3> SUFFICES ASSUME "lost row" \notin history'.past PROVE RowsTrue'
      BY DEF RowsTrue
    <3>1. "lost row" \notin history.past
      BY <1>5 DEF NothingWritten
    <3>2. ASSUME NEW n \in DOMAIN rows
          PROVE  rows'[n].restored \/ \E m \in stored' : m.id = rows'[n].id /\ m.path = rows'[n].path
      <4>1. CASE rows[n].restored \/ rows[n].id = cmd.row
        BY <2>2, <4>1
      <4>2. CASE ~rows[n].restored /\ rows[n].id # cmd.row
        <5>1. PICK m \in stored : m.id = rows[n].id /\ m.path = rows[n].path
          BY <1>1, <3>1, <4>2 DEF IInv, RowsTrue
        <5>2. m \in stored'
          BY <1>2, <1>7, <4>2, <5>1
        <5> QED BY <2>2, <5>1, <5>2
      <4> QED BY <4>1, <4>2
    <3>3. ASSUME NEW m \in stored' PROVE \E n \in DOMAIN rows' : rows'[n].id = m.id
      <4>1. m \in stored /\ m # moved
        BY <1>7
      <4>2. CASE cmd.at = "moved" /\ cmd.row = m.id
        BY <1>2, <4>1, <4>2 DEF IInv, MovesNumbered
      <4>3. CASE \E n \in DOMAIN rows : rows[n].id = m.id
        BY <2>2, <4>3
      <4> QED BY <3>1, <4>1, <4>2, <4>3 DEF IInv, RowsTrue
    <3> QED BY <2>2, <3>2, <3>3 DEF RowsTrue
  <2>7. SnapshotsKnown' /\ KeptBeforeTaken' /\ WritesKnown'
    BY <1>1, <1>5, <2>3, SnapshotsFrame, RestOK DEF IInv, AtRest, NothingWritten
  <2>8. OperationsChained'
    <3> SUFFICES ASSUME Straight', NEW q \in Paths \ history.displaced
                 PROVE  Chained(batches'[q]) /\ Settled(q)'
      BY <1>5, <2>3, RestChained DEF OperationsChained, AtRest, NothingWritten
    <3>1. Straight /\ q # cmd.path
      BY <1>1, <1>5 DEF Straight, IInv, OperationsChained, NothingWritten
    <3>2. Chained(batches[q]) /\ Settled(q)
      BY <3>1 DEF IInv, OperationsChained
    <3> QED BY <1>1, <1>5, <2>1, <3>1, <3>2 DEF Settled, NothingWritten
  <2> QED BY <2>4, <2>5, <2>6, <2>7, <2>8 DEF IInv
<1> QED BY <1>2, <1>6, <1>7

LEMMA ApplyEndsKeeps == ASSUME IInv, ApplyEnds PROVE IInv'
<1>1. Quiet /\ Ends /\ cmd.at = "look"
  BY SameHistory DEF ApplyEnds, Quiet, records
<1> QED BY <1>1, Finished

-----------------------------------------------------------------------------
(* rollback of written files *)

LEMMA RollbackStartsKeeps == ASSUME IInv, RollbackStarts PROVE IInv'
<1>1. Quiet /\ cmd.at = "idle"
  BY Counting DEF RollbackStarts, Quiet, records, IInv, TypeOK
<1>2. \/ \E p \in Paths : \E command \in {"rollback", "original"} : RollbackAsset(p, command)
      \/ \E P \in SUBSET Paths : RestoreBackups(P)
  BY DEF RollbackStarts, RollbackPath
<1>3. ASSUME NEW p \in Paths, NEW command \in {"rollback", "original"}, RollbackAsset(p, command)
      PROVE  IInv'
  <2>1. batches[p] \in Seq(Operation)
    BY DEF IInv, TypeOK, StateOK
  <2>2. /\ batches[p] # <<>> /\ batches[p][Len(batches[p])].kind = "replace_file"
        /\ Len(batches[p]) \in Nat \ {0} /\ Len(batches[p]) \in DOMAIN batches[p]
    BY <1>3, <2>1 DEF RollbackAsset, LastKind
  <2>3. /\ DOMAIN cmd' = DOMAIN Idle /\ cmd'.at = "undo" /\ cmd'.command = command /\ cmd'.path = p
        /\ cmd'.todo = {} /\ cmd'.extras = {} /\ cmd'.original = NoFile /\ cmd'.written = NoFile
        /\ cmd'.row = 0 /\ cmd'.left = Len(batches[p]) /\ cmd'.done = <<>>
    BY <1>3 DEF RollbackAsset, Idle
  <2>4. CommandOK' /\ StepOK' /\ KeptBeforeTaken'
    BY <1>1, <2>2, <2>3, EmptyOK DEF CommandOK, StepOK, FileState, KeptBeforeTaken, Quiet
  <2>5. WritesKnown'
    <3>1. Clean' => snapshot[p] # None
      BY <1>1, <2>2, EarlierHistory DEF IInv, SnapshotsKnown, Quiet
    <3> QED BY <1>1, <2>3, <3>1 DEF WritesKnown, Quiet
  <2>6. Straight' /\ p \notin history.displaced => WriteChained' /\ UndoChained'
    <3> SUFFICES ASSUME Straight', p \notin history.displaced PROVE WriteChained' /\ UndoChained'
      OBVIOUS
    <3>1. Straight
      BY <1>1 DEF Straight, Quiet, NothingWritten
    <3>2. Settled(p)
      BY <1>1, <3>1 DEF IInv, OperationsChained
    <3> QED BY <1>1, <2>2, <2>3, <3>2 DEF Settled, WriteChained, UndoChained, Chained, After,
                                          Quiet, NothingWritten
  <2> QED BY <1>1, <2>3, <2>4, <2>5, <2>6, GoesOnWith
<1>4. ASSUME NEW P \in SUBSET Paths, RestoreBackups(P) PROVE IInv'
  <2>1. /\ DOMAIN cmd' = DOMAIN Idle /\ cmd'.at = "restore" /\ cmd'.todo \subseteq Paths
        /\ cmd'.extras = {} /\ cmd'.original = NoFile /\ cmd'.written = NoFile
        /\ cmd'.row = 0 /\ cmd'.left = 0 /\ cmd'.done = <<>>
    BY <1>4 DEF RestoreBackups, Idle
  <2>2. CommandOK' /\ StepOK'
    BY <2>1, EmptyOK DEF CommandOK, StepOK, FileState
  <2> QED BY <1>1, <2>1, <2>2, GoesOn DEF AtRest
<1> QED BY <1>2, <1>3, <1>4

\* The operation that is undone, and the file before and after it.
LEMMA OperationAt ==
    ASSUME NEW ops \in Seq(Operation), NEW n \in Nat, n > 0, n <= Len(ops)
    PROVE  /\ n \in DOMAIN ops /\ n - 1 \in Nat /\ ops[n] \in Operation
           /\ ops[n].value = After(ops, n)
           /\ Chained(ops) => /\ ops[n].kind = "replace_file"
                              /\ ops[n].before = After(ops, n - 1)
<1>1. DOMAIN ops = 1 .. Len(ops) /\ Len(ops) \in Nat
  OBVIOUS
<1>2. n \in 1 .. Len(ops) /\ n - 1 \in Nat
  BY <1>1
<1>3. ops[n] \in Operation
  BY <1>1, <1>2
<1>4. CASE n = 1
  BY <1>1, <1>2, <1>3, <1>4 DEF Chained, After
<1>5. CASE n > 1
  BY <1>1, <1>2, <1>3, <1>5 DEF Chained, After
<1> QED BY <1>2, <1>4, <1>5

LEMMA UndoneOperation ==
    ASSUME TypeOK, cmd.at \in Undoing, cmd.left > 0
    PROVE  /\ cmd.path \in Paths /\ batches[cmd.path] \in Seq(Operation)
           /\ cmd.left \in DOMAIN batches[cmd.path] /\ cmd.left - 1 \in Nat
           /\ Undone = batches[cmd.path][cmd.left] /\ Undone \in Operation
           /\ Undone.value = After(batches[cmd.path], cmd.left)
           /\ Chained(batches[cmd.path]) =>
                  /\ Undone.kind = "replace_file"
                  /\ Undone.before = After(batches[cmd.path], cmd.left - 1)
<1> DEFINE ops == batches[cmd.path]
           n == cmd.left
<1>1. /\ cmd.path \in Paths /\ ops \in Seq(Operation) /\ n \in Nat /\ n > 0 /\ n <= Len(ops)
      /\ Undone = ops[n]
  BY DEF TypeOK, StateOK, CommandOK, StepOK, Undone
<1> HIDE DEF ops, n
<1>2. /\ n \in DOMAIN ops /\ n - 1 \in Nat /\ ops[n] \in Operation
      /\ ops[n].value = After(ops, n)
      /\ Chained(ops) => ops[n].kind = "replace_file" /\ ops[n].before = After(ops, n - 1)
  BY <1>1, OperationAt
<1> QED BY <1>1, <1>2 DEF ops, n

LEMMA UndoNextKeeps == ASSUME IInv, UndoNext PROVE IInv'
<1>1. /\ cmd.at = "undo" /\ cmd.left > 0 /\ cmd.path \in Paths
      /\ UNCHANGED <<files, stored, batches, baseline, snapshot, rows, counts>>
  BY DEF UndoNext, records, IInv, TypeOK, StepOK
<1>2. Straight /\ cmd.path \notin history.displaced =>
        /\ Undone.kind = "replace_file" /\ files[cmd.path] = Undone.value
        /\ files[cmd.path] = After(batches[cmd.path], cmd.left)
        /\ UndoChained
  BY <1>1, UndoneOperation DEF IInv, OperationsChained, UndoChained
<1>3. CASE /\ Undone.kind # "replace_file" /\ Ends
           /\ IF cmd.done = <<>> THEN UNCHANGED history ELSE Happens("unrecorded")
  <2>1. Quiet
    BY <1>1, <1>3, EventNoted, SameHistory DEF Quiet, IInv, TypeOK
  <2>2. cmd.path \notin history.displaced => ~Straight'
    BY <1>2, <1>3, <2>1 DEF Straight, Quiet, NothingWritten
  <2> QED BY <1>1, <1>3, <2>1, <2>2, Finished
<1>4. CASE /\ files[cmd.path] # Undone.value
           /\ cmd' = [cmd EXCEPT !.left = @ - 1]
           /\ Happens("skipped")
  <2>1. Quiet
    BY <1>1, <1>4, EventNoted DEF Quiet, IInv, TypeOK
  <2>2. /\ CommandOK' /\ StepOK' /\ cmd'.at = "undo" /\ cmd'.path = cmd.path
        /\ cmd'.done = cmd.done /\ cmd'.written = cmd.written
    <3>1. /\ DOMAIN cmd' = DOMAIN cmd /\ cmd'.at = "undo" /\ cmd'.extras = cmd.extras
          /\ cmd'.command = cmd.command /\ cmd'.path = cmd.path /\ cmd'.todo = cmd.todo
          /\ cmd'.original = cmd.original /\ cmd'.written = cmd.written /\ cmd'.row = cmd.row
          /\ cmd'.left = cmd.left - 1 /\ cmd'.done = cmd.done
      BY <1>1, <1>4, IdleFields DEF IInv, TypeOK, CommandOK
    <3>2. /\ batches[cmd.path] \in Seq(Operation)
          /\ cmd.left - 1 \in Nat /\ cmd.left - 1 <= Len(batches[cmd.path])
      BY <1>1 DEF IInv, TypeOK, StateOK, CommandOK, StepOK
    <3> QED BY <1>1, <3>1, <3>2 DEF IInv, TypeOK, CommandOK, StepOK
  <2>3. KeptBeforeTaken' /\ WritesKnown'
    BY <1>1, <2>1, <2>2, EarlierHistory DEF KeptBeforeTaken, WritesKnown, Quiet, NothingWritten
  <2>4. cmd.path \notin history.displaced => ~Straight'
    BY <1>2, <1>4, <2>1 DEF Straight, Quiet, NothingWritten
  <2> QED BY <1>1, <2>1, <2>2, <2>3, <2>4, GoesOnWith
<1>5. CASE /\ cmd' = [cmd EXCEPT !.at = "undo copy", !.original = files[cmd.path]]
           /\ IF files[cmd.path] = Undone.value THEN UNCHANGED history ELSE Happens("forced")
  <2>1. Quiet
    BY <1>1, <1>5, EventNoted, SameHistory DEF Quiet, IInv, TypeOK
  <2>2. /\ CommandOK' /\ StepOK' /\ cmd'.at = "undo copy" /\ cmd'.path = cmd.path
        /\ cmd'.done = cmd.done /\ cmd'.written = cmd.written /\ cmd'.left = cmd.left
        /\ cmd'.original = files[cmd.path]
    BY <1>1, <1>5, IdleFields DEF IInv, TypeOK, StateOK, CommandOK, StepOK
  <2>3. KeptBeforeTaken' /\ WritesKnown'
    BY <1>1, <2>1, <2>2, EarlierHistory DEF KeptBeforeTaken, WritesKnown, Quiet, NothingWritten
  <2>4. Straight' /\ cmd'.path \in Paths \ history.displaced => WriteChained' /\ UndoChained'
    BY <1>1, <1>2, <2>1, <2>2, EarlierHistory DEF UndoChained, WriteChained, Quiet, NothingWritten
  <2> QED BY <1>1, <2>1, <2>2, <2>3, <2>4, GoesOnWith
<1> QED BY <1>3, <1>4, <1>5 DEF UndoNext

LEMMA CopyForRollbackKeeps == ASSUME IInv, CopyForRollback PROVE IInv'
<1>1. Quiet /\ cmd.at = "undo copy" /\ cmd.path \in Paths
  BY SameHistory DEF CopyForRollback, Quiet, records, IInv, TypeOK, StepOK
<1>2. /\ CommandOK' /\ StepOK' /\ cmd'.path = cmd.path /\ cmd'.original = cmd.original
      /\ cmd'.done = cmd.done /\ cmd'.written = cmd.written /\ cmd'.left = cmd.left
      /\ \/ cmd'.at = "undo write" /\ files[cmd.path] = NoFile
         \/ cmd'.at = "undo unlink" /\ <<cmd.path, files[cmd.path]>> \in copies'
  <2>1. CASE files[cmd.path] = NoFile
    <3>1. cmd' = [cmd EXCEPT !.at = "undo write", !.editedSinceCopy = FALSE]
      BY <2>1 DEF CopyForRollback
    <3> QED BY <1>1, <2>1, <3>1, IdleFields DEF Quiet, IInv, TypeOK, CommandOK, StepOK
  <2>2. CASE files[cmd.path] # NoFile
    <3> DEFINE copy == <<cmd.path, files[cmd.path]>>
    <3>1. /\ cmd' = [cmd EXCEPT !.at = "undo unlink", !.editedSinceCopy = FALSE,
                                !.saved = @ \cup {copy}]
          /\ copies' = copies \cup {copy}
      BY <2>2 DEF CopyForRollback
    <3> HIDE DEF copy
    <3>2. /\ CommandOK' /\ StepOK' /\ cmd'.path = cmd.path /\ cmd'.original = cmd.original
          /\ cmd'.done = cmd.done /\ cmd'.written = cmd.written /\ cmd'.left = cmd.left
          /\ cmd'.at = "undo unlink"
      BY <1>1, <3>1, IdleFields DEF Quiet, IInv, TypeOK, CommandOK, StepOK
    <3> QED BY <3>1, <3>2 DEF copy
  <2> QED BY <2>1, <2>2
<1>3. KeptBeforeTaken' /\ WritesKnown'
  BY <1>1, <1>2, EarlierHistory DEF KeptBeforeTaken, WritesKnown, Quiet, NothingWritten
<1>4. Straight' /\ cmd'.path \in Paths \ history.displaced => WriteChained' /\ UndoChained'
  BY <1>1, <1>2, EarlierHistory DEF UndoChained, WriteChained, Quiet, NothingWritten
<1> QED BY <1>1, <1>2, <1>3, <1>4, GoesOnWith

\* Rollback deletes the file or writes it; its operations and records wait.
LEMMA UndoStepKeeps ==
    ASSUME IInv, cmd.at \in Undoing, cmd'.at \in Undoing, cmd'.path = cmd.path,
           NEW content \in FileState,
           files' = [files EXCEPT ![cmd.path] = content], NoteWrite(cmd.path, content),
           UNCHANGED <<stored, batches, baseline, snapshot, rows, counts>>,
           CommandOK', StepOK', KeptBeforeTaken',
           cmd'.done # <<>> => cmd'.written \in {cmd.written, content},
           cmd'.done # <<>> /\ cmd.done = <<>> => cmd'.written = content,
           cmd'.at = "undo readback" => Undone'.before = content,
           UndoChained /\ Straight /\ cmd.path \notin history.displaced
               /\ files'[cmd.path] = content /\ history'.origin[cmd.path] = history.origin[cmd.path]
               => UndoChained'
    PROVE  IInv'
<1> DEFINE p == cmd.path
<1>1. p \in Paths
  BY DEF IInv, TypeOK, StepOK
<1>2. /\ DOMAIN history' = DOMAIN history
      /\ history'.displaced = history.displaced /\ history'.past = history.past
      /\ history'.wrote \in [Paths -> SUBSET FileState]
      /\ history'.origin \in [Paths -> FileState \cup {None}]
      /\ history'.wrote[p] = history.wrote[p] \cup {content}
      /\ history'.origin[p] = IF history.origin[p] = None THEN files[p] ELSE history.origin[p]
      /\ \A q \in Paths : q # p => history'.wrote[q] = history.wrote[q]
                                   /\ history'.origin[q] = history.origin[q]
  BY <1>1, Noted DEF IInv, TypeOK
<1>3. /\ files' \in [Paths -> FileState] /\ files'[p] = content
      /\ \A q \in Paths : q # p => files'[q] = files[q]
  BY <1>1 DEF IInv, TypeOK, StateOK
<1>4. TypeOK'
  BY <1>2, <1>3 DEF IInv, TypeOK, StateOK
<1>5. MovesNumbered' /\ RowsTrue'
  BY <1>2, LedgerFrame DEF IInv
<1>6. SnapshotsKnown'
  BY <1>1, <1>2, SnapshotsAfterWrite DEF IInv, WritesKnown
<1>7. WritesKnown'
  BY <1>1, <1>2 DEF IInv, WritesKnown, Clean
<1>8. OperationsChained'
  <2> SUFFICES ASSUME Straight' PROVE OperationsChained'
    BY DEF OperationsChained
  <2>1. Straight
    BY <1>2 DEF Straight
  <2>2. ASSUME p \notin history.displaced PROVE WriteChained' /\ UndoChained'
    <3>1. UndoChained
      BY <1>1, <2>1, <2>2 DEF IInv, OperationsChained
    <3>2. batches[p] \in Seq(Operation) /\ batches[p] # <<>> /\ history.origin[p] = After(batches[p], 0)
      BY <1>1, <3>1 DEF IInv, TypeOK, StateOK, UndoChained
    <3>3. history.origin[p] # None
      <4> DEFINE ops == batches[p]
      <4>1. ops \in Seq(Operation) /\ ops # <<>>
        BY <3>2
      <4>2. history.origin[p] = After(ops, 0)
        BY <3>2
      <4> HIDE DEF ops
      <4>3. 0 \in 0 .. Len(ops)
        BY <4>1, LengthIsNat
      <4> QED BY <4>1, <4>2, <4>3, AfterTyped
    <3>5. UndoChained'
      BY <1>2, <1>3, <2>1, <2>2, <3>1, <3>3
    <3> QED BY <3>5 DEF WriteChained
  <2>3. /\ \A q \in Paths \ history'.displaced : Chained(batches'[q])
        /\ \A q \in Paths \ history'.displaced : q # cmd'.path => Settled(q)'
    BY <1>2, <1>3, <2>1, OthersSettled DEF IInv
  <2> QED BY <1>2, <2>2, <2>3 DEF OperationsChained
<1> QED BY <1>4, <1>5, <1>6, <1>7, <1>8 DEF IInv

LEMMA UndoUnlinkKeeps == ASSUME IInv, UndoUnlink PROVE IInv'
<1>1. /\ cmd.at = "undo unlink" /\ cmd.path \in Paths
      /\ files' = [files EXCEPT ![cmd.path] = NoFile]
      /\ UNCHANGED <<stored, batches, baseline, snapshot, rows, counts>>
  BY DEF UndoUnlink, Replace, records, IInv, TypeOK, StepOK
<1>2. CASE files[cmd.path] = NoFile
  <2>1. Ends /\ Happens("unrecorded") /\ UNCHANGED files
    BY <1>1, <1>2 DEF UndoUnlink, IInv, TypeOK, StateOK
  <2>2. Quiet /\ "unrecorded" \in history'.past
    BY <1>1, <2>1, EventNoted DEF Quiet, IInv, TypeOK
  <2> QED BY <1>1, <2>1, <2>2, Finished DEF Straight
<1>3. CASE files[cmd.path] # NoFile
  <2>1. cmd' = [cmd EXCEPT !.at = "undo write"] /\ NoteWrite(cmd.path, NoFile)
    BY <1>3 DEF UndoUnlink, Goto
  <2>2. /\ CommandOK' /\ StepOK' /\ cmd'.at = "undo write" /\ cmd'.path = cmd.path
        /\ cmd'.original = cmd.original /\ cmd'.left = cmd.left
        /\ cmd'.done = cmd.done /\ cmd'.written = cmd.written
    BY <1>1, <2>1, IdleFields DEF IInv, TypeOK, CommandOK, StepOK
  <2>3. KeptBeforeTaken'
    BY <1>1, <2>2 DEF KeptBeforeTaken, IInv, TypeOK, StateOK
  <2>4. UndoChained /\ files'[cmd.path] = NoFile
        /\ history'.origin[cmd.path] = history.origin[cmd.path] => UndoChained'
    BY <1>1, <2>2 DEF UndoChained
  <2>5. NoFile \in FileState
    BY DEF FileState
  <2> QED BY <1>1, <2>1, <2>2, <2>3, <2>4, <2>5, UndoStepKeeps
<1> QED BY <1>2, <1>3

LEMMA AppendOne ==
    ASSUME NEW S, NEW s \in Seq(S), NEW e \in S
    PROVE  Append(s, e) \in Seq(S) /\ Append(s, e) # <<>> /\ Append(s, e) = s \o <<e>>
<1>1. Append(s, e) \in Seq(S) /\ Append(s, e) = s \o <<e>>
  OBVIOUS
<1>2. Len(Append(s, e)) = Len(s) + 1 /\ Len(s) \in Nat
  OBVIOUS
<1> QED BY <1>1, <1>2

LEMMA LeftBelow ==
    ASSUME NEW S, NEW ops \in Seq(S), NEW left \in Nat, left <= Len(ops)
    PROVE  left - 1 <= Len(ops) /\ left - 1 # Len(ops)
<1>1. Len(ops) \in Nat
  OBVIOUS
<1> QED BY <1>1

\* An operation is undone and noted.
LEMMA UndidOne ==
    ASSUME IInv, cmd.at \in {"undo write", "undo readback"}, UNCHANGED batches,
           NEW content \in FileState, Undid(content)
    PROVE  /\ CommandOK' /\ StepOK' /\ KeptBeforeTaken'
           /\ cmd'.at = "undo" /\ cmd'.path = cmd.path /\ cmd'.written = content
           /\ UndoChained /\ Straight /\ cmd.path \notin history.displaced
                  /\ content = Undone.before /\ files'[cmd.path] = content
                  /\ history'.origin[cmd.path] = history.origin[cmd.path]
                  => UndoChained'
<1> DEFINE p == cmd.path
           op == Replacement(content, cmd.original)
<1>1. /\ cmd.at \in {"undo write", "undo readback"} /\ cmd.left > 0
      /\ cmd' = [cmd EXCEPT !.at = "undo", !.left = @ - 1, !.written = content,
                            !.done = Append(@, op)]
  BY DEF Undid, IInv, TypeOK, StepOK
<1>2. /\ p \in Paths /\ batches[p] \in Seq(Operation) /\ cmd.left - 1 \in Nat
      /\ Chained(batches[p]) => Undone.before = After(batches[p], cmd.left - 1)
  BY <1>1, UndoneOperation DEF IInv, TypeOK, Operation
<1>3. op \in Operation /\ op.kind = "replace_file" /\ op.value = content
      /\ op.before = cmd.original
  BY DEF Replacement, Operation, IInv, TypeOK, CommandOK
<1> HIDE DEF op
<1>4. /\ DOMAIN cmd' = DOMAIN cmd /\ cmd'.at = "undo" /\ cmd'.extras = cmd.extras
      /\ cmd'.command = cmd.command /\ cmd'.path = p /\ cmd'.todo = cmd.todo
      /\ cmd'.original = cmd.original /\ cmd'.written = content /\ cmd'.row = cmd.row
      /\ cmd'.left = cmd.left - 1 /\ cmd'.done = Append(cmd.done, op)
  BY <1>1, IdleFields DEF IInv, TypeOK, CommandOK
<1>5. /\ cmd.done \in Seq(Operation) /\ cmd'.done \in Seq(Operation) /\ cmd'.done # <<>>
      /\ cmd'.done = cmd.done \o <<op>>
  <2> DEFINE done == cmd.done
  <2>1. done \in Seq(Operation) /\ cmd'.done = Append(done, op)
    BY <1>4 DEF IInv, TypeOK, CommandOK
  <2> HIDE DEF done
  <2> QED BY <1>3, <2>1, AppendOne DEF done
<1>12. cmd.left - 1 <= Len(batches[p]) /\ cmd.left - 1 # Len(batches[p])
  BY <1>1, <1>2, LeftBelow DEF IInv, TypeOK, CommandOK, StepOK
<1>6. CommandOK' /\ StepOK'
  BY <1>1, <1>2, <1>4, <1>5, <1>12 DEF IInv, TypeOK, CommandOK, StepOK
<1>7. KeptBeforeTaken'
  BY <1>4 DEF KeptBeforeTaken
\* The operation done takes the file from the one undone to the one before it.
<1>8. ASSUME UndoChained, Chained(batches[p]), content = Undone.before,
             files'[p] = content, history'.origin[p] = history.origin[p]
      PROVE  UndoChained'
  <2> DEFINE one == <<op>>
             done == cmd.done
  <2>1. /\ one \in Seq(Operation) /\ one # <<>> /\ Chained(one)
        /\ After(one, 0) = cmd.original /\ After(one, Len(one)) = content
    BY <1>3, OneChained
  <2>2. /\ batches[p] # <<>> /\ history.origin[p] = After(batches[p], 0)
        /\ Chained(done)
        /\ done = <<>> <=> cmd.left = Len(batches[p])
        /\ done # <<>> =>
              /\ After(done, 0) = After(batches[p], Len(batches[p]))
              /\ After(done, Len(done)) = After(batches[p], cmd.left)
        /\ cmd.original = After(batches[p], cmd.left)
    BY <1>1, <1>8 DEF UndoChained
  <2>3. cmd'.done = done \o one /\ done \in Seq(Operation)
    BY <1>5
  <2> HIDE DEF one, done
  <2>4. /\ Chained(done \o one)
        /\ After(done \o one, 0) = IF done = <<>> THEN After(one, 0) ELSE After(done, 0)
        /\ After(done \o one, Len(done \o one)) = After(one, Len(one))
    BY <2>1, <2>2, <2>3, ChainGrows
  <2>5. /\ Chained(cmd'.done)
        /\ After(cmd'.done, 0) = After(batches[p], Len(batches[p]))
        /\ After(cmd'.done, Len(cmd'.done)) = After(batches[p], cmd'.left)
    BY <1>2, <1>4, <1>8, <2>1, <2>2, <2>3, <2>4
  <2>6. cmd'.left # Len(batches[p])
    BY <1>4, <1>12
  <2> QED BY <1>1, <1>2, <1>4, <1>5, <1>8, <2>2, <2>5, <2>6 DEF UndoChained
<1>9. Straight /\ p \notin history.displaced => Chained(batches[p])
  BY <1>2 DEF IInv, OperationsChained
<1> QED BY <1>4, <1>6, <1>7, <1>8, <1>9

LEMMA UndoWriteKeeps == ASSUME IInv, UndoWrite PROVE IInv'
<1> DEFINE p == cmd.path
<1>1. /\ cmd.at = "undo write" /\ p \in Paths /\ Undone.before \in FileState
      /\ UNCHANGED <<stored, batches, baseline, snapshot, rows, counts>>
  BY UndoneOperation DEF UndoWrite, records, IInv, TypeOK, StepOK, Operation
<1>2. CASE Undone.before # NoFile
  <2>1. /\ cmd' = [cmd EXCEPT !.at = "undo readback"]
        /\ files' = [files EXCEPT ![p] = Undone.before] /\ NoteWrite(p, Undone.before)
    BY <1>2 DEF UndoWrite, Replace, Goto
  <2>2. /\ CommandOK' /\ StepOK' /\ cmd'.at = "undo readback" /\ cmd'.path = p
        /\ cmd'.original = cmd.original /\ cmd'.left = cmd.left
        /\ cmd'.done = cmd.done /\ cmd'.written = cmd.written
    BY <1>1, <2>1, IdleFields DEF IInv, TypeOK, CommandOK, StepOK
  <2>3. KeptBeforeTaken' /\ Undone' = Undone
    BY <1>1, <2>2 DEF KeptBeforeTaken, Undone
  <2>4. UndoChained /\ files'[p] = Undone.before
        /\ history'.origin[p] = history.origin[p] => UndoChained'
    BY <1>1, <2>2, <2>3 DEF UndoChained
  <2> QED BY <1>1, <2>1, <2>2, <2>3, <2>4, UndoStepKeeps
<1>3. CASE Undone.before = NoFile
  <2>1. Undid(NoFile) /\ UNCHANGED <<files, history>>
    BY <1>3 DEF UndoWrite
  <2>2. Quiet
    BY <1>1, <2>1, SameHistory DEF Quiet
  <2>3. /\ CommandOK' /\ StepOK' /\ KeptBeforeTaken'
        /\ cmd'.at = "undo" /\ cmd'.path = p /\ cmd'.written = NoFile
        /\ UndoChained /\ Straight /\ p \notin history.displaced /\ files'[p] = NoFile
               => UndoChained'
    BY <1>1, <1>3, <2>1, UndidOne DEF FileState
  <2>4. WritesKnown'
    BY <1>1, <2>2, <2>3, EarlierHistory DEF WritesKnown, Quiet, NothingWritten
  <2>5. Straight' /\ cmd'.path \in Paths \ history.displaced => WriteChained' /\ UndoChained'
    <3> SUFFICES ASSUME Straight', p \notin history.displaced PROVE WriteChained' /\ UndoChained'
      BY <2>3
    <3>1. Straight /\ UndoChained
      BY <1>1, <2>2, EarlierHistory DEF Quiet
    <3>2. files'[p] = NoFile
      BY <1>1, <2>1, <3>1 DEF UndoChained
    <3> QED BY <2>3, <3>1, <3>2 DEF WriteChained
  <2> QED BY <1>1, <2>2, <2>3, <2>4, <2>5, GoesOnWith
<1> QED BY <1>2, <1>3

LEMMA UndoReadBackKeeps == ASSUME IInv, UndoReadBack PROVE IInv'
<1> DEFINE p == cmd.path
<1>1. /\ cmd.at = "undo readback" /\ p \in Paths /\ files[p] \in FileState
      /\ UNCHANGED <<files, stored, batches, baseline, snapshot, rows, counts>>
  BY DEF UndoReadBack, records, IInv, TypeOK, StateOK, StepOK
<1>2. CASE files[p] = NoFile
  <2>1. Ends /\ Happens("unrecorded")
    BY <1>2 DEF UndoReadBack
  <2>2. Quiet /\ "unrecorded" \in history'.past
    BY <1>1, <2>1, EventNoted DEF Quiet, IInv, TypeOK
  <2> QED BY <1>1, <2>1, <2>2, Finished DEF Straight
<1>3. CASE files[p] # NoFile
  <2>1. /\ Undid(files[p])
        /\ IF files[p] = Undone.before THEN UNCHANGED history ELSE Happens("checked too late")
    BY <1>3 DEF UndoReadBack
  <2>2. Quiet /\ (files[p] # Undone.before => ~Clean' /\ ~Straight')
    <3>1. CASE UNCHANGED history /\ files[p] = Undone.before
      BY <1>1, <3>1, SameHistory DEF Quiet
    <3>2. CASE Happens("checked too late")
      <4>1. Quiet /\ "checked too late" \in history'.past
        BY <1>1, <3>2, EventNoted DEF Quiet, IInv, TypeOK
      <4> QED BY <4>1 DEF Clean, Straight
    <3> QED BY <2>1, <3>1, <3>2
  <2>3. /\ CommandOK' /\ StepOK' /\ KeptBeforeTaken'
        /\ cmd'.at = "undo" /\ cmd'.path = p /\ cmd'.written = files[p]
        /\ UndoChained /\ Straight /\ p \notin history.displaced
               /\ files[p] = Undone.before => UndoChained'
    BY <1>1, <2>1, <2>2, UndidOne DEF Quiet, NothingWritten
  <2>4. WritesKnown'
    BY <1>1, <2>2, <2>3, EarlierHistory DEF WritesKnown, Quiet, NothingWritten
  <2>5. Straight' /\ cmd'.path \in Paths \ history.displaced => WriteChained' /\ UndoChained'
    BY <1>1, <2>2, <2>3, EarlierHistory DEF WriteChained, Quiet
  <2> QED BY <1>1, <2>2, <2>3, <2>4, <2>5, GoesOnWith
<1> QED BY <1>2, <1>3

LEMMA UndoRecordKeeps == ASSUME IInv, UndoRecord PROVE IInv'
<1> DEFINE p == cmd.path
<1>1. /\ cmd.at = "undo" /\ cmd.left = 0 /\ p \in Paths /\ Ends /\ Happens("rolled back")
      /\ UNCHANGED <<files, stored, counts, baseline, rows>>
  BY DEF UndoRecord, records, IInv, TypeOK, StepOK
<1>2. NothingWritten /\ history'.past = history.past \cup {"rolled back"}
  BY <1>1, EventNoted DEF IInv, TypeOK
<1>3. /\ batches[p] \in Seq(Operation) /\ cmd.done \in Seq(Operation)
      /\ Straight' /\ p \notin history.displaced => UndoChained /\ Straight
  BY <1>1, <1>2, EarlierHistory DEF IInv, TypeOK, StateOK, CommandOK
<1>4. CASE cmd.done = <<>>
  <2>1. Quiet
    BY <1>1, <1>2, <1>4 DEF UndoRecord, Quiet, records
  <2>2. p \notin history.displaced => ~Straight'
    <3> DEFINE ops == batches[p]
    <3>1. Straight' /\ p \notin history.displaced => ops # <<>> /\ Len(ops) = 0
      BY <1>1, <1>3, <1>4 DEF UndoChained
    <3>2. ops \in Seq(Operation)
      BY <1>3
    <3> HIDE DEF ops
    <3> QED BY <3>1, <3>2
  <2> QED BY <1>1, <2>1, <2>2, Finished
<1>5. CASE cmd.done # <<>>
  <2>1. /\ batches' = [batches EXCEPT ![p] = @ \o cmd.done]
        /\ snapshot' = IF cmd.written = NoFile THEN snapshot
                       ELSE [snapshot EXCEPT ![p] = cmd.written]
    BY <1>5 DEF UndoRecord, AppendBatch
  <2>2. CommandOK' /\ StepOK' /\ KeptBeforeTaken' /\ cmd'.at = "idle"
    BY <1>1, EndsOK
  <2>3. /\ batches'[p] = batches[p] \o cmd.done
        /\ \A q \in Paths : q # p => batches'[q] = batches[q]
    BY <1>1, <2>1 DEF IInv, TypeOK, StateOK
  <2>4. batches' \in [Paths -> Seq(Operation)]
    <3>1. batches[p] \o cmd.done \in Seq(Operation)
      BY <1>3
    <3> QED BY <1>1, <2>1, <3>1 DEF IInv, TypeOK, StateOK
  <2>5. /\ snapshot' \in [Paths -> Contents \cup {None}]
        /\ snapshot'[p] = IF cmd.written = NoFile THEN snapshot[p] ELSE cmd.written
        /\ \A q \in Paths : q # p => snapshot'[q] = snapshot[q]
    BY <1>1, <2>1 DEF IInv, TypeOK, StateOK, CommandOK, FileState
  <2>6. TypeOK'
    BY <1>1, <1>2, <2>2, <2>4, <2>5 DEF IInv, TypeOK, StateOK, NothingWritten
  <2>7. MovesNumbered' /\ RowsTrue' /\ WritesKnown'
    BY <1>1, <1>2, <2>2, LedgerFrame, RestOK DEF IInv, AtRest, NothingWritten
  <2>8. SnapshotsKnown'
    <3> SUFFICES ASSUME Clean', NEW q \in Paths
                 PROVE  /\ snapshot'[q] # None => snapshot'[q] \in history'.wrote[q]
                        /\ \/ history'.wrote[q] # {} \/ baseline'[q] # None
                           \/ \E n \in DOMAIN batches'[q] : batches'[q][n].kind = "replace_file"
                           => snapshot'[q] # None
      BY DEF SnapshotsKnown
    <3>1. Clean /\ history'.wrote = history.wrote
      BY <1>2 DEF Clean, NothingWritten
    <3>2. CASE q = p
      <4>1. /\ snapshot[p] # None /\ snapshot[p] \in history.wrote[p]
            /\ cmd.written = NoFile \/ cmd.written \in history.wrote[p]
        BY <1>1, <1>5, <3>1 DEF IInv, WritesKnown, SnapshotsKnown
      <4>2. cmd.written # None
        BY PathsAssumption DEF IInv, TypeOK, CommandOK, FileState
      <4> QED BY <2>5, <3>1, <3>2, <4>1, <4>2
    <3>3. CASE q # p
      BY <1>1, <2>3, <2>5, <3>1, <3>3 DEF IInv, SnapshotsKnown
    <3> QED BY <3>2, <3>3
  <2>9. OperationsChained'
    <3> SUFFICES ASSUME Straight', NEW q \in Paths \ history.displaced
                 PROVE  Chained(batches'[q]) /\ Settled(q)'
      BY <1>2, <2>2, RestChained DEF OperationsChained, AtRest, NothingWritten
    <3>1. Straight
      BY <1>2 DEF Straight
    <3>2. CASE q = p
      <4> DEFINE ops == batches[p]
                 done == cmd.done
      <4>1. /\ ops # <<>> /\ history.origin[p] = After(ops, 0) /\ Chained(done)
            /\ done # <<>> /\ ops \in Seq(Operation) /\ done \in Seq(Operation)
            /\ After(done, 0) = After(ops, Len(ops))
            /\ After(done, Len(done)) = After(ops, 0)
            /\ files[p] = After(ops, 0)
        BY <1>1, <1>3, <1>5, <3>2 DEF UndoChained
      <4>2. Chained(ops)
        BY <3>1, <3>2 DEF IInv, OperationsChained
      <4>3. batches'[p] = ops \o done
        BY <2>3
      <4> HIDE DEF ops, done
      <4>4. /\ ops \o done # <<>> /\ Chained(ops \o done)
            /\ After(ops \o done, 0) = After(ops, 0)
            /\ After(ops \o done, Len(ops \o done)) = After(ops, 0)
        BY <4>1, <4>2, ChainGrows
      <4> QED BY <1>1, <1>2, <3>2, <4>1, <4>3, <4>4 DEF Settled, NothingWritten
    <3>3. CASE q # p
      <4>1. Chained(batches[q]) /\ Settled(q)
        BY <3>1, <3>3 DEF IInv, OperationsChained
      <4> QED BY <1>1, <1>2, <2>3, <3>3, <4>1 DEF Settled, NothingWritten
    <3> QED BY <3>2, <3>3
  <2> QED BY <2>2, <2>6, <2>7, <2>8, <2>9 DEF IInv
<1> QED BY <1>4, <1>5

-----------------------------------------------------------------------------
(* rollback of moved files *)

LEMMA RestoreNextKeeps == ASSUME IInv, RestoreNext PROVE IInv'
<1>1. /\ cmd.at = "restore"
      /\ UNCHANGED <<batches, baseline, snapshot, rows, counts>>
  BY DEF RestoreNext, records
<1>5. PICK p \in cmd.todo : \E n \in RestoredRow(p) :
        \/ Ends /\ UNCHANGED <<files, stored, history>>
        \/ \E m \in stored :
             /\ m.id = rows[n].id /\ files[p] = NoFile
             /\ Replace(p, m.content)
             /\ stored' = stored \ {m}
             /\ cmd' = [cmd EXCEPT !.at = "mark", !.path = p]
             /\ Happens("restored")
  BY DEF RestoreNext
<1>2. PICK n \in RestoredRow(p) :
        \/ Ends /\ UNCHANGED <<files, stored, history>>
        \/ \E m \in stored :
             /\ m.id = rows[n].id /\ files[p] = NoFile
             /\ Replace(p, m.content)
             /\ stored' = stored \ {m}
             /\ cmd' = [cmd EXCEPT !.at = "mark", !.path = p]
             /\ Happens("restored")
  BY <1>5
<1>3. CASE Ends /\ UNCHANGED <<files, stored, history>>
  BY <1>1, <1>3, SameHistory, Finished DEF Quiet
<1>4. ASSUME NEW m \in stored, m.id = rows[n].id, files[p] = NoFile, Replace(p, m.content),
             stored' = stored \ {m}, cmd' = [cmd EXCEPT !.at = "mark", !.path = p],
             Happens("restored")
      PROVE  IInv'
  <2>1. p \in Paths /\ n \in DOMAIN rows /\ rows[n].path = p /\ m.path = p /\ m.content \in Contents
    BY <1>2, <1>4 DEF IInv, TypeOK, StateOK, CommandOK, MovesNumbered, RestoredRow, Newest, Unrestored
  <2>2. /\ CommandOK' /\ StepOK' /\ cmd'.at = "mark" /\ cmd'.path = p
    BY <1>1, <1>4, <2>1, IdleFields DEF IInv, TypeOK, CommandOK, StepOK
  <2>3. NothingWritten /\ history'.past = history.past \cup {"restored"}
    BY <1>1, <1>4, EventNoted DEF IInv, TypeOK
  <2>4. files' \in [Paths -> FileState]
    BY <1>4, <2>1 DEF Replace, IInv, TypeOK, StateOK, FileState
  <2>5. TypeOK'
    BY <1>1, <1>4, <2>2, <2>3, <2>4 DEF IInv, TypeOK, StateOK, NothingWritten
  <2>6. MovesNumbered'
    BY <1>1, <1>4, <2>2 DEF IInv, MovesNumbered
  <2>7. RowsTrue'
    <3> SUFFICES ASSUME "lost row" \notin history.past PROVE RowsTrue'
      BY <2>3 DEF RowsTrue
    <3>1. ASSUME NEW i \in DOMAIN rows
          PROVE  \/ rows[i].restored \/ rows[i].path = p
                 \/ \E other \in stored' : other.id = rows[i].id /\ other.path = rows[i].path
      <4>1. CASE \E other \in stored : other.id = rows[i].id /\ other.path = rows[i].path
        BY <1>4, <2>1, <4>1
      <4> QED BY <1>1, <4>1 DEF IInv, RowsTrue
    <3>2. \A other \in stored' : \E i \in DOMAIN rows : rows[i].id = other.id
      BY <1>1, <1>4 DEF IInv, RowsTrue
    <3> QED BY <1>1, <2>2, <3>1, <3>2 DEF RowsTrue
  <2>8. SnapshotsKnown' /\ KeptBeforeTaken' /\ WritesKnown'
    BY <1>1, <2>2, <2>3, SnapshotsFrame, RestOK DEF IInv, AtRest, NothingWritten
  <2>9. OperationsChained'
    <3>1. "restored" \in history'.past
      BY <2>3
    <3>2. ~Straight'
      BY <3>1 DEF Straight
    <3> QED BY <3>2 DEF OperationsChained
  <2> QED BY <2>5, <2>6, <2>7, <2>8, <2>9 DEF IInv
<1> QED BY <1>2, <1>3, <1>4

LEMMA MarkGroupKeeps == ASSUME IInv, MarkGroup PROVE IInv'
<1> DEFINE p == cmd.path
<1>1. /\ cmd.at = "mark" /\ p \in Paths /\ MarkRestored(Unrestored(p))
      /\ cmd' = [cmd EXCEPT !.at = "restore", !.todo = @ \ {p}]
      /\ UNCHANGED <<files, stored, batches, baseline, snapshot, counts, history>>
  BY DEF MarkGroup, IInv, TypeOK, StepOK
<1>2. CommandOK' /\ StepOK' /\ cmd'.at = "restore"
  <2>1. /\ DOMAIN cmd' = DOMAIN cmd /\ cmd'.at = "restore" /\ cmd'.extras = cmd.extras
        /\ cmd'.todo = cmd.todo \ {p}
        /\ cmd'.original = cmd.original /\ cmd'.written = cmd.written /\ cmd'.row = cmd.row
        /\ cmd'.left = cmd.left /\ cmd'.done = cmd.done
    BY <1>1, IdleFields DEF IInv, TypeOK, CommandOK
  <2> QED BY <1>1, <2>1 DEF IInv, TypeOK, CommandOK, StepOK
<1>3. /\ rows' \in Seq(Row) /\ DOMAIN rows' = DOMAIN rows
      /\ \A n \in DOMAIN rows :
            /\ rows'[n].id = rows[n].id /\ rows'[n].path = rows[n].path
            /\ rows'[n].restored <=> rows[n].restored \/ n \in Unrestored(p)
  BY <1>1, Marked DEF IInv, TypeOK
<1>4. TypeOK'
  BY <1>1, <1>2, <1>3 DEF IInv, TypeOK, StateOK
<1>5. MovesNumbered'
  <2>1. ASSUME NEW n \in DOMAIN rows
        PROVE  /\ rows'[n].id <= counts.moves
               /\ \A m \in stored : m.id = rows'[n].id => m.path = rows'[n].path
    <3>1. rows'[n].id = rows[n].id /\ rows'[n].path = rows[n].path
      BY <1>3
    <3> QED BY <3>1 DEF IInv, MovesNumbered
  <2>2. \A i, j \in DOMAIN rows : i < j => rows'[i].id < rows'[j].id
    BY <1>3 DEF IInv, MovesNumbered
  <2>3. /\ \A m \in stored : m.id <= counts.moves
        /\ \A m, other \in stored : m.id = other.id => m = other
    BY DEF IInv, MovesNumbered
  <2> QED BY <1>1, <1>2, <1>3, <2>1, <2>2, <2>3 DEF MovesNumbered
<1>6. RowsTrue'
  <2> SUFFICES ASSUME "lost row" \notin history.past PROVE RowsTrue'
    BY <1>1 DEF RowsTrue
  <2>1. ASSUME NEW n \in DOMAIN rows
        PROVE  rows'[n].restored \/ \E m \in stored : m.id = rows'[n].id /\ m.path = rows'[n].path
    <3>1. CASE rows[n].restored \/ rows[n].path = p
      BY <1>3, <3>1 DEF Unrestored
    <3>2. CASE \E m \in stored : m.id = rows[n].id /\ m.path = rows[n].path
      BY <1>3, <3>2
    <3> QED BY <3>1, <3>2 DEF IInv, RowsTrue
  <2>2. ASSUME NEW m \in stored PROVE \E n \in DOMAIN rows' : rows'[n].id = m.id
    <3>1. PICK n \in DOMAIN rows : rows[n].id = m.id
      BY <1>1 DEF IInv, RowsTrue
    <3> QED BY <1>3, <3>1
  <2> QED BY <1>1, <1>3, <2>1, <2>2 DEF RowsTrue
<1>7. SnapshotsKnown' /\ KeptBeforeTaken' /\ WritesKnown'
  BY <1>1, <1>2, SnapshotsFrame, RestOK DEF IInv, AtRest
<1>8. OperationsChained'
  BY <1>1, <1>2, ChainFrame, RestChained DEF IInv, AtRest
<1> QED BY <1>4, <1>5, <1>6, <1>7, <1>8 DEF IInv

LEMMA RestoreEndsKeeps == ASSUME IInv, RestoreEnds PROVE IInv'
<1>1. Quiet /\ Ends /\ cmd.at = "restore"
  BY SameHistory DEF RestoreEnds, Quiet, records
<1> QED BY <1>1, Finished

-----------------------------------------------------------------------------
(* rollback --original of files that prescribe has created *)

LEMMA OriginalStartsKeeps == ASSUME IInv, OriginalStarts PROVE IInv'
<1>1. Quiet /\ cmd.at = "idle"
  BY Counting DEF OriginalStarts, Quiet, records, IInv, TypeOK
<1>2. PICK p \in Paths :
        /\ baseline[p] = NoFile
        /\ cmd' = [Idle EXCEPT !.at = "copy created", !.command = "original", !.path = p]
  BY DEF OriginalStarts
<1>3. /\ CommandOK' /\ StepOK' /\ cmd'.at = "copy created" /\ cmd'.path = p
  BY <1>2, EmptyOK DEF CommandOK, StepOK, Idle, FileState
<1>4. Clean' => snapshot[p] # None
  BY <1>1, <1>2, EarlierHistory, PathsAssumption DEF IInv, SnapshotsKnown, Quiet
<1>5. KeptBeforeTaken' /\ WritesKnown'
  BY <1>1, <1>3, <1>4 DEF KeptBeforeTaken, WritesKnown, Quiet
<1>6. WriteChained' /\ UndoChained'
  BY <1>3 DEF WriteChained, UndoChained
<1> QED BY <1>1, <1>3, <1>5, <1>6, GoesOnWith

LEMMA CopyCreatedKeeps == ASSUME IInv, CopyCreated PROVE IInv'
<1>1. Quiet /\ cmd.at = "copy created" /\ cmd.path \in Paths
  BY SameHistory DEF CopyCreated, Quiet, records, IInv, TypeOK, StepOK
<1> DEFINE copy == IF files[cmd.path] = NoFile THEN {} ELSE {<<cmd.path, files[cmd.path]>>}
<1>2. /\ cmd' = [cmd EXCEPT !.at = "remove created", !.saved = copy, !.editedSinceCopy = FALSE]
      /\ copies' = copies \cup copy
  BY DEF CopyCreated
<1>3. files[cmd.path] = NoFile \/ <<cmd.path, files[cmd.path]>> \in copies'
  BY <1>2
<1> HIDE DEF copy
<1>4. CommandOK' /\ StepOK' /\ cmd'.at = "remove created" /\ cmd'.path = cmd.path
  BY <1>1, <1>2, IdleFields DEF IInv, TypeOK, CommandOK, StepOK
<1>5. KeptBeforeTaken' /\ WritesKnown'
  BY <1>1, <1>3, <1>4, EarlierHistory DEF KeptBeforeTaken, WritesKnown, Quiet, NothingWritten
<1>6. WriteChained' /\ UndoChained'
  BY <1>4 DEF WriteChained, UndoChained
<1> QED BY <1>1, <1>4, <1>5, <1>6, GoesOnWith

LEMMA RemoveCreatedKeeps == ASSUME IInv, RemoveCreated PROVE IInv'
<1> DEFINE p == cmd.path
<1>1. /\ cmd.at = "remove created" /\ p \in Paths /\ files' = [files EXCEPT ![p] = NoFile]
      /\ UNCHANGED <<stored, batches, baseline, snapshot, rows, counts>>
  BY DEF RemoveCreated, Replace, records, IInv, TypeOK, StepOK
<1>2. CASE files[p] = NoFile
  <2>1. Ends /\ UNCHANGED <<files, history>>
    BY <1>1, <1>2 DEF RemoveCreated, IInv, TypeOK, StateOK
  <2> QED BY <1>1, <2>1, SameHistory, Finished DEF Quiet
<1>3. CASE files[p] # NoFile
  <2>1. cmd' = [cmd EXCEPT !.at = "list removed"] /\ NoteWrite(p, NoFile)
    BY <1>3 DEF RemoveCreated, Goto
  <2>2. /\ DOMAIN history' = DOMAIN history
        /\ history'.displaced = history.displaced /\ history'.past = history.past
        /\ history'.wrote \in [Paths -> SUBSET FileState]
        /\ history'.origin \in [Paths -> FileState \cup {None}]
        /\ history'.wrote[p] = history.wrote[p] \cup {NoFile}
        /\ \A q \in Paths : q # p => history'.wrote[q] = history.wrote[q]
                                     /\ history'.origin[q] = history.origin[q]
    BY <1>1, <2>1, Noted DEF IInv, TypeOK, FileState
  <2>3. CommandOK' /\ StepOK' /\ cmd'.at = "list removed" /\ cmd'.path = p
    BY <1>1, <2>1, IdleFields DEF IInv, TypeOK, CommandOK, StepOK
  <2>4. /\ files' \in [Paths -> FileState]
        /\ \A q \in Paths : q # p => files'[q] = files[q]
    BY <1>1 DEF IInv, TypeOK, StateOK, FileState
  <2>5. TypeOK'
    BY <1>1, <2>2, <2>3, <2>4 DEF IInv, TypeOK, StateOK
  <2>6. KeptBeforeTaken' /\ WritesKnown'
    BY <1>1, <2>2, <2>3 DEF KeptBeforeTaken, WritesKnown, IInv, Clean
  <2>7. MovesNumbered' /\ RowsTrue'
    BY <1>1, <2>2, <2>3, LedgerFrame DEF IInv
  <2>8. SnapshotsKnown'
    BY <1>1, <2>2, <2>3, SnapshotsAfterWrite DEF IInv, WritesKnown
  <2>9. OperationsChained'
    <3> SUFFICES ASSUME Straight' PROVE OperationsChained'
      BY DEF OperationsChained
    <3>1. Straight
      BY <2>2 DEF Straight
    <3>2. /\ \A q \in Paths \ history'.displaced : Chained(batches'[q])
          /\ \A q \in Paths \ history'.displaced : q # cmd'.path => Settled(q)'
      BY <1>1, <2>2, <2>3, <2>4, <3>1, OthersSettled DEF IInv
    <3>3. WriteChained' /\ UndoChained'
      BY <2>3 DEF WriteChained, UndoChained
    <3> QED BY <2>2, <2>3, <3>2, <3>3 DEF OperationsChained
  <2> QED BY <2>5, <2>6, <2>7, <2>8, <2>9 DEF IInv
<1> QED BY <1>2, <1>3

LEMMA ListRemovedKeeps == ASSUME IInv, ListRemoved PROVE IInv'
<1>1. Quiet /\ Ends /\ cmd.at = "list removed" /\ "removed" \in history'.past
  BY EventNoted DEF ListRemoved, Quiet, IInv, TypeOK
<1> QED BY <1>1, Finished DEF Straight

-----------------------------------------------------------------------------
(* The environment *)

LEMMA UserEditsKeeps == ASSUME IInv, UserEdits PROVE IInv'
<1>1. PICK p \in Paths, content \in UserContents \cup {NoFile} :
        /\ files' = [files EXCEPT ![p] = content]
        /\ cmd' = IF cmd.at = "idle" \/ p # cmd.path THEN cmd
                  ELSE [cmd EXCEPT !.editedSinceCheck = TRUE, !.editedSinceCopy = TRUE]
  BY DEF UserEdits, Replace
<1>2. /\ UNCHANGED <<stored, batches, baseline, snapshot, rows, listed, copies>>
      /\ Counted("edits") /\ Happens("edited")
  BY DEF UserEdits, records
<1>3. /\ DOMAIN counts' = DOMAIN counts /\ counts'.moves = counts.moves
      /\ DOMAIN history' = DOMAIN history
      /\ history'.wrote = history.wrote /\ history'.origin = history.origin
      /\ history'.past = history.past \cup {"edited"}
  BY <1>2 DEF Counted, Happens, IInv, TypeOK, StateOK
<1>4. /\ files' \in [Paths -> FileState]
      /\ \A q \in Paths : q # p => files'[q] = files[q]
  BY <1>1, PathsAssumption DEF IInv, TypeOK, StateOK, FileState
<1>5. /\ CommandOK' /\ StepOK' /\ cmd'.at = cmd.at /\ cmd'.path = cmd.path
      /\ cmd'.original = cmd.original /\ cmd'.copied = cmd.copied /\ cmd'.spec = cmd.spec
      /\ cmd'.written = cmd.written /\ cmd'.done = cmd.done /\ cmd'.row = cmd.row
      /\ cmd'.left = cmd.left
      /\ \/ cmd.at = "idle"
         \/ cmd'.editedSinceCheck /\ cmd'.editedSinceCopy
         \/ /\ p # cmd.path /\ cmd'.editedSinceCheck = cmd.editedSinceCheck
            /\ cmd'.editedSinceCopy = cmd.editedSinceCopy
  <2>1. CASE cmd' = cmd /\ (cmd.at = "idle" \/ p # cmd.path)
    <3>1. cmd' = cmd /\ UNCHANGED batches
      BY <1>2, <2>1
    <3>2. CommandOK'
      BY <3>1 DEF IInv, TypeOK, CommandOK
    <3>3. StepOK'
      BY <3>1 DEF IInv, TypeOK, StepOK
    <3>4. cmd.at = "idle" \/ p # cmd.path
      BY <2>1
    <3>5. /\ cmd'.at = cmd.at /\ cmd'.path = cmd.path
          /\ cmd'.original = cmd.original /\ cmd'.copied = cmd.copied /\ cmd'.spec = cmd.spec
          /\ cmd'.written = cmd.written /\ cmd'.done = cmd.done /\ cmd'.row = cmd.row
          /\ cmd'.left = cmd.left
          /\ cmd'.editedSinceCheck = cmd.editedSinceCheck
          /\ cmd'.editedSinceCopy = cmd.editedSinceCopy
      BY <3>1
    <3> QED BY <3>2, <3>3, <3>4, <3>5
  <2>2. CASE cmd' = [cmd EXCEPT !.editedSinceCheck = TRUE, !.editedSinceCopy = TRUE]
    BY <1>2, <2>2, IdleFields DEF IInv, TypeOK, CommandOK, StepOK
  <2> QED BY <1>1, <2>1, <2>2
<1>6. TypeOK'
  BY <1>2, <1>3, <1>4, <1>5 DEF IInv, TypeOK, StateOK
<1>7. cmd.at \in {"check", "copy", "list", "write", "undo unlink", "undo write", "remove created"}
          /\ p # cmd.path => files'[cmd.path] = files[cmd.path]
  BY <1>4 DEF IInv, TypeOK, StepOK
<1>8. KeptBeforeTaken'
  BY <1>2, <1>5, <1>7 DEF IInv, KeptBeforeTaken
<1>9. WritesKnown'
  BY <1>2, <1>3, <1>5, <1>7 DEF IInv, WritesKnown, Clean, Undone
<1>10. MovesNumbered' /\ RowsTrue' /\ SnapshotsKnown'
  <2>1. MovesNumbered'
    BY <1>2, <1>3, <1>5 DEF IInv, MovesNumbered
  <2>2. RowsTrue'
    BY <1>2, <1>3, <1>5 DEF IInv, RowsTrue
  <2>3. SnapshotsKnown'
    BY <1>2, <1>3, <1>5 DEF IInv, SnapshotsKnown, Clean
  <2> QED BY <2>1, <2>2, <2>3
<1>11. OperationsChained'
  <2>1. "edited" \in history'.past
    BY <1>3
  <2>2. ~Straight'
    BY <2>1 DEF Straight
  <2> QED BY <2>2 DEF OperationsChained
<1> QED BY <1>6, <1>8, <1>9, <1>10, <1>11 DEF IInv

LEMMA CrashKeeps == ASSUME IInv, Crash PROVE IInv'
<1>1. Ends /\ UNCHANGED <<files, stored, batches, baseline, snapshot, rows>>
  BY DEF Crash, records
<1>2. /\ DOMAIN counts' = DOMAIN counts /\ counts'.moves = counts.moves
      /\ DOMAIN history' = DOMAIN history
      /\ history'.wrote = history.wrote /\ history'.origin = history.origin
      /\ history'.displaced = history.displaced
      /\ history'.past = history.past \cup
            IF cmd.at \in {"moved", "mark"} THEN {"lost row"} ELSE {"unrecorded"}
  BY DEF Crash, Counted, IInv, TypeOK, StateOK
<1>3. Quiet
  BY <1>1, <1>2 DEF Quiet, NothingWritten
<1>4. IF cmd.at \in {"moved", "mark"} THEN "lost row" \in history'.past
      ELSE "unrecorded" \in history'.past
  BY <1>2
<1>5. "unrecorded" \in history'.past => ~Clean' /\ ~Straight'
  BY DEF Clean, Straight
<1> QED BY <1>1, <1>3, <1>4, <1>5, Finished

-----------------------------------------------------------------------------
(* The invariant *)

LEMMA StartsRight == ASSUME Init PROVE IInv
<1>1. StateOK
  BY PathsAssumption DEF Init, StateOK, FileState
<1>2. CommandOK /\ StepOK /\ cmd.at = "idle"
  BY IdleFields, EmptyOK DEF Init, CommandOK, StepOK, FileState
<1>3. KeptBeforeTaken /\ MovesNumbered /\ RowsTrue /\ SnapshotsKnown /\ WritesKnown
  BY <1>2 DEF Init, KeptBeforeTaken, MovesNumbered, RowsTrue, SnapshotsKnown, WritesKnown
<1>4. OperationsChained
  BY <1>2 DEF Init, OperationsChained, Chained, Settled, WriteChained, UndoChained
<1> QED BY <1>1, <1>2, <1>3, <1>4 DEF IInv, TypeOK

LEMMA StepKeeps == ASSUME IInv, [Next]_vars PROVE IInv'
<1>1. CASE UNCHANGED vars
  <2>1. UNCHANGED <<files, stored, batches, baseline, snapshot, rows, copies, listed, cmd,
                    counts, history>>
    BY <1>1 DEF vars
  <2>2. TypeOK'
    BY <2>1 DEF IInv, TypeOK, StateOK, CommandOK, StepOK
  <2>3. KeptBeforeTaken' /\ MovesNumbered' /\ RowsTrue'
    BY <2>1 DEF IInv, KeptBeforeTaken, MovesNumbered, RowsTrue
  <2>4. SnapshotsKnown' /\ WritesKnown'
    BY <2>1 DEF IInv, SnapshotsKnown, WritesKnown, Clean, Undone
  <2>5. OperationsChained'
    BY <2>1 DEF IInv, OperationsChained, Straight, Settled, WriteChained, UndoChained, Undone
  <2> QED BY <2>2, <2>3, <2>4, <2>5 DEF IInv
<1>2. CASE Apply
  BY <1>2, ApplyStartsKeeps, LookKeeps, RecordCheckedKeeps, CheckConflictKeeps,
     CopyForRecoveryKeeps, ListRecoveryBackupKeeps, WriteAssetKeeps, ReadBackKeeps,
     RecordBaselineKeeps, RecordSnapshotKeeps, RecordBatchKeeps, MoveExtraKeeps,
     RecordMoveKeeps, RecordDisplacementKeeps, RecordEventKeeps, DisplacementFailsKeeps,
     ApplyEndsKeeps DEF Apply
<1>3. CASE Rollback
  BY <1>3, RollbackStartsKeeps, UndoNextKeeps, CopyForRollbackKeeps, UndoUnlinkKeeps,
     UndoWriteKeeps, UndoReadBackKeeps, UndoRecordKeeps, RestoreNextKeeps, MarkGroupKeeps, RestoreEndsKeeps,
     OriginalStartsKeeps, CopyCreatedKeeps, RemoveCreatedKeeps, ListRemovedKeeps DEF Rollback
<1> QED BY <1>1, <1>2, <1>3, UserEditsKeeps, CrashKeeps DEF Next

\* Every reachable state has the types, the copies, the rows, the snapshots and the
\* chains of operations of IInv: no order of applies, rollbacks, edits, crashes and
\* refused records breaks what one command relies on in what another one left.
THEOREM InductiveInvariant == Spec => []IInv
BY StartsRight, StepKeeps, PTL DEF Spec

-----------------------------------------------------------------------------
(* What it implies *)

\* The state has its types, and each step of a command finds the path, the source and
\* the operations it uses: rollback never indexes past the operations it counts down.
THEOREM TypeCorrect == Spec => []TypeOK
BY InductiveInvariant, PTL DEF IInv

\* Between commands the rows of asset_backups that are not restored name files that are
\* in backup storage, and every file there has a row (_displace_asset_extra,
\* _restore_asset_backups), as long as no row was lost.
THEOREM RowsNameTheMovedFiles == Spec => []BackupRowsTrue
<1>1. IInv => BackupRowsTrue
  BY DEF IInv, RowsTrue, BackupRowsTrue
<1> QED BY <1>1, InductiveInvariant, PTL

\* A file goes only in the steps that overwrite, delete or move, and each of them has the
\* copy, the listed copy or the moved file of what it takes.
LEMMA TakenStep ==
    ASSUME IInv, Next, ~UserEdits, NEW p \in Paths, Gone(p)
    PROVE  \/ <<p, files[p]>> \in IF cmd.command = "apply" THEN listed ELSE copies
           \/ \E m \in stored' : m.path = p /\ m.content = files[p]
           \/ cmd.editedSinceCopy
<1>1. /\ files[p] # NoFile /\ files'[p] # files[p]
      /\ KeptBeforeTaken /\ StepOK /\ files \in [Paths -> FileState]
  BY DEF Gone, IInv, TypeOK, StateOK
<1>2. ASSUME NEW q, NEW content, Replace(q, content) PROVE q = p
  BY <1>1, <1>2 DEF Replace
<1>3. CASE WriteAsset
  <2>1. cmd.at = "write" /\ p = cmd.path
    BY <1>2, <1>3 DEF WriteAsset
  <2> QED BY <1>1, <2>1 DEF StepOK, KeptBeforeTaken
<1>4. CASE MoveExtra
  <2>1. PICK q \in cmd.extras :
          \/ UNCHANGED files
          \/ /\ stored' = stored \cup {Stored(counts.moves + 1, q, files[q])}
             /\ Replace(q, NoFile)
    BY <1>4 DEF MoveExtra
  <2>2. q = p /\ Stored(counts.moves + 1, p, files[p]) \in stored'
    BY <1>1, <1>2, <2>1
  <2>3. /\ Stored(counts.moves + 1, p, files[p]).path = p
        /\ Stored(counts.moves + 1, p, files[p]).content = files[p]
    BY DEF Stored
  <2> QED BY <2>2, <2>3
<1>5. CASE UndoUnlink
  <2>1. cmd.at = "undo unlink" /\ p = cmd.path
    BY <1>2, <1>5 DEF UndoUnlink
  <2> QED BY <1>1, <2>1 DEF StepOK, KeptBeforeTaken
<1>6. CASE UndoWrite
  <2>1. cmd.at = "undo write" /\ p = cmd.path
    BY <1>1, <1>2, <1>6 DEF UndoWrite
  <2> QED BY <1>1, <2>1 DEF KeptBeforeTaken
<1>7. CASE RemoveCreated
  <2>1. cmd.at = "remove created" /\ p = cmd.path
    BY <1>2, <1>7 DEF RemoveCreated
  <2> QED BY <1>1, <2>1 DEF StepOK, KeptBeforeTaken
\* What goes back goes where there is no file.
<1>8. CASE DisplacementFails
  <2>1. \/ UNCHANGED files
        \/ files[cmd.path] = NoFile /\ \E content : Replace(cmd.path, content)
    BY <1>8 DEF DisplacementFails
  <2> QED BY <1>1, <1>2, <2>1
<1>9. CASE RestoreNext
  <2>1. \/ UNCHANGED files
        \/ \E q : files[q] = NoFile /\ \E content : Replace(q, content)
    BY <1>9 DEF RestoreNext
  <2> QED BY <1>1, <1>2, <2>1
<1>10. CASE UNCHANGED files
  BY <1>1, <1>10
<1> QED
  BY <1>3, <1>4, <1>5, <1>6, <1>7, <1>8, <1>9, <1>10
     DEF Next, Apply, Rollback, ApplyStarts, Look, RecordChecked, CheckConflict,
         CopyForRecovery, ListRecoveryBackup, ReadBack, RecordBaseline, RecordSnapshot,
         RecordBatch, RecordMove, RecordDisplacement, RecordEvent, ApplyEnds, RollbackStarts,
         UndoNext, CopyForRollback, UndoReadBack, UndoRecord, MarkGroup, RestoreEnds, OriginalStarts, CopyCreated,
         ListRemoved, Crash

\* Nothing that apply or rollback overwrites, deletes or moves away is lost: it has been
\* copied (and listed, by apply), or moved into backup storage, before
\* (_apply_asset, _rollback_asset, perform_rollback_original, move_to_backup).
THEOREM TakenContentIsKept == Spec => TakenIsKept
<1>1. IInv /\ Next =>
        \A p \in Paths : Gone(p) /\ ~UserEdits =>
          \/ <<p, files[p]>> \in IF cmd.command = "apply" THEN listed ELSE copies
          \/ \E m \in stored' : m.path = p /\ m.content = files[p]
          \/ cmd.editedSinceCopy
  BY TakenStep
<1> QED BY <1>1, InductiveInvariant, PTL DEF Spec, TakenIsKept

\* Apply overwrites a file that was written before only when it holds what a command left
\* there (_asset_conflict), while the records are complete.
THEOREM OnlyWrittenContentIsOverwritten == Spec => UserContentKept
<1>1. IInv => \A p \in Paths :
          WriteAsset /\ cmd.path = p /\ files[p] # NoFile /\ history.wrote[p] # {}
          /\ history.past \cap {"unrecorded", "checked too late"} = {} =>
              files[p] \in history.wrote[p] \/ cmd.editedSinceCheck
  BY DEF IInv, WritesKnown, Clean, WriteAsset
<1> QED BY <1>1, InductiveInvariant, PTL DEF UserContentKept

\* The newest row that is left of a place has the highest number.
LEMMA RestoreStep ==
    ASSUME IInv, RestoreNext, cmd'.at = "mark"
    PROVE  \E m \in Owed(cmd'.path) :
              /\ m \notin stored' /\ files'[m.path] = m.content
              /\ \A other \in Owed(m.path) : other.id <= m.id
<1>0. ~Ends
  BY EndsOK
<1>1. PICK p \in cmd.todo : \E n \in RestoredRow(p) : \E m \in stored :
                /\ m.id = rows[n].id /\ files[p] = NoFile
                /\ Replace(p, m.content)
                /\ stored' = stored \ {m}
                /\ cmd' = [cmd EXCEPT !.at = "mark", !.path = p]
  BY <1>0 DEF RestoreNext
<1>2. PICK n \in RestoredRow(p), m \in stored :
                /\ m.id = rows[n].id /\ files[p] = NoFile
                /\ Replace(p, m.content)
                /\ stored' = stored \ {m}
                /\ cmd' = [cmd EXCEPT !.at = "mark", !.path = p]
  BY <1>1
<1>3. /\ n \in DOMAIN rows /\ rows[n].path = p /\ ~rows[n].restored
      /\ \A other \in Unrestored(p) : other <= n
  BY DEF RestoredRow, Newest, Unrestored
<1>4. m.path = p /\ p \in Paths /\ m \notin stored' /\ cmd'.path = p
  BY <1>2, <1>3, IdleFields DEF IInv, MovesNumbered, TypeOK, CommandOK
<1>5. m \in Owed(p)
  BY <1>2, <1>3, <1>4 DEF Owed
<1>6. files'[p] = m.content
  BY <1>2, <1>4 DEF Replace, IInv, TypeOK, StateOK
<1>7. ASSUME NEW other \in Owed(p) PROVE other.id <= m.id
  <2>1. PICK i \in DOMAIN rows : rows[i].id = other.id /\ ~rows[i].restored
    BY DEF Owed
  <2>2. rows[i].path = p /\ other.id \in Nat
    BY <2>1 DEF Owed, IInv, MovesNumbered, TypeOK, StateOK
  <2>3. i <= n /\ i \in Nat /\ n \in Nat
    BY <1>3, <2>1, <2>2 DEF Unrestored, IInv, TypeOK, StateOK
  <2>4. i = n \/ i < n
    BY <2>3
  <2>5. i < n => rows[i].id < rows[n].id
    BY <1>3, <2>1 DEF IInv, MovesNumbered
  <2>6. rows[i].id \in Nat /\ rows[n].id \in Nat
    BY <1>3, <2>1, RowTyped DEF IInv, TypeOK
  <2> QED BY <1>2, <2>1, <2>4, <2>5, <2>6
<1> QED BY <1>4, <1>5, <1>6, <1>7

\* Rollback brings back to each place the file that was moved from it last
\* (_restore_asset_backups).
THEOREM LatestComesBack == Spec => RestoreBringsLatest
<1>1. IInv /\ RestoreNext /\ cmd'.at = "mark" =>
          \E m \in Owed(cmd'.path) :
              /\ m \notin stored' /\ files'[m.path] = m.content
              /\ \A other \in Owed(m.path) : other.id <= m.id
  BY RestoreStep
<1> QED BY <1>1, InductiveInvariant, PTL DEF RestoreBringsLatest

\* Rollback of a written asset leads back to the file from before the first write, through
\* any number of applies and rollbacks, whose operations it undoes in turn
\* (_rollback_asset).
THEOREM OriginComesBack == Spec => RollbackRestoresOrigin
<1>1. IInv /\ UndoRecord /\ cmd.path \notin history.displaced
          /\ history.past \subseteq {"rolled back", "skipped"} =>
              files'[cmd.path] = history.origin[cmd.path]
  <2> SUFFICES ASSUME IInv, UndoRecord, cmd.path \notin history.displaced, Straight
               PROVE  files'[cmd.path] = history.origin[cmd.path]
    BY DEF Straight
  <2>1. cmd.at = "undo" /\ cmd.left = 0 /\ cmd.path \in Paths /\ UNCHANGED files
    BY DEF UndoRecord, IInv, TypeOK, StepOK
  <2>2. UndoChained
    BY <2>1 DEF IInv, OperationsChained
  <2> QED BY <2>1, <2>2 DEF UndoChained
<1> QED BY <1>1, InductiveInvariant, PTL DEF RollbackRestoresOrigin
=============================================================================
