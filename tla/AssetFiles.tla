------------------------------ MODULE AssetFiles ------------------------------
(***************************************************************************)
(* The destination files of assets and the ledger about them: how apply    *)
(* writes each file of an asset and moves extra files of a mirror away,    *)
(* how rollback undoes the writes and brings the moved files back, while   *)
(* users edit the files at any moment, the ledger may refuse a record, and *)
(* the program may die between two steps.                                  *)
(*                                                                         *)
(* One mirror root holds all Paths.  The writer lock admits one command at *)
(* a time (module WriterProtocol).                                         *)
(***************************************************************************)
EXTENDS Naturals, Sequences

CONSTANTS
    Paths,       \* the places of files below the destination
    Order,       \* the position of each path in the order of the names
    Contents,    \* what a file may hold
    UserContents,  \* what users write
    Sources,     \* the source trees of the spec: functions from some of Paths to Contents
    NoFile, None,  \* no file, no record
    MaxApplies, MaxRollbacks, MaxEdits, MaxCrashes   \* bounds

ASSUME PathsAssumption ==
    /\ NoFile \notin Contents /\ None \notin Contents \cup {NoFile}
    /\ \A s \in Sources : DOMAIN s \subseteq Paths /\ \A p \in DOMAIN s : s[p] \in Contents
    /\ UserContents \subseteq Contents
    /\ Order \in [Paths -> Nat]

VARIABLES
    files,       \* what is on disk
    stored,      \* backup storage: the moved files that are there
    batches,     \* the operations of the change_batches of each path, oldest first
    baseline,    \* content of the file_baselines row of each path, or None
    snapshot,    \* content of the latest file_snapshots row of each path, or None
    rows,        \* asset_backups, oldest first
    copies, listed,  \* recovery copies made, and those with a recovery_backups row
    cmd,         \* the running command and its local variables
    counts,      \* counters for the bounds, and the number of moves
    history      \* what has happened so far; no guard reads it

vars == <<files, stored, batches, baseline, snapshot, rows, copies, listed, cmd, counts, history>>

records == <<batches, baseline, snapshot, rows, listed>>

Idle == [at |-> "idle", command |-> "none", path |-> None, spec |-> <<>>,
         todo |-> {}, extras |-> {}, original |-> NoFile, copied |-> NoFile,
         written |-> NoFile, row |-> 0, left |-> 0, done |-> <<>>, saved |-> {},
         editedSinceCheck |-> FALSE, editedSinceCopy |-> FALSE]

Init ==
    /\ files \in [Paths -> UserContents \cup {NoFile}]
    /\ stored = {} /\ rows = <<>> /\ copies = {} /\ listed = {}
    /\ batches = [p \in Paths |-> <<>>]
    /\ baseline = [p \in Paths |-> None]
    /\ snapshot = [p \in Paths |-> None]
    /\ cmd = Idle
    /\ counts = [applies |-> 0, rollbacks |-> 0, edits |-> 0, crashes |-> 0, moves |-> 0]
    /\ history = [wrote |-> [p \in Paths |-> {}],      \* what commands left or found right there
                  origin |-> [p \in Paths |-> None],   \* the file before the first write
                  displaced |-> {},                    \* paths that were moved away
                  past |-> {}]                         \* notable events

-----------------------------------------------------------------------------
(* How a command moves on *)

Goto(step) == cmd' = [cmd EXCEPT !.at = step]

Ends == cmd' = Idle

Happens(event) == history' = [history EXCEPT !.past = @ \cup {event}]

Counted(what) == counts' = [counts EXCEPT ![what] = @ + 1]

Replace(p, content) == files' = [files EXCEPT ![p] = content]

NoteWrite(p, content) ==
    history' = [history EXCEPT
        !.wrote[p] = @ \cup {content},
        !.origin[p] = IF @ = None THEN files[p] ELSE @]

\* Entries and extras are gone through in the order of their names.
IsFirst(p, P) == p \in P /\ \A other \in P : Order[p] <= Order[other]

-----------------------------------------------------------------------------
(* apply: _handle_asset, one entry after the other *)

\* asset_entries and asset_extra_paths; the extras are what the mirror does not want.
ApplyStarts ==
    /\ cmd.at = "idle"
    /\ counts.applies < MaxApplies
    /\ \E s \in Sources, replace \in BOOLEAN :
        cmd' = [Idle EXCEPT
            !.at = "look", !.command = "apply", !.spec = s,
            !.todo = DOMAIN s,
            !.extras = {p \in Paths \ DOMAIN s : replace /\ files[p] # NoFile}]
    /\ Counted("applies")
    /\ UNCHANGED <<files, stored, records, copies, history>>

\* The state of the destination is read; content that is right is only recorded.
Look ==
    /\ cmd.at = "look"
    /\ \E p \in cmd.todo :
        /\ IsFirst(p, cmd.todo)
        /\ cmd' = [cmd EXCEPT !.path = p, !.original = files[p], !.editedSinceCopy = FALSE,
                              !.at = IF files[p] = cmd.spec[p] THEN "same" ELSE "check"]
    /\ UNCHANGED <<files, stored, records, copies, counts, history>>

NextEntry == cmd' = [cmd EXCEPT !.at = "look", !.todo = @ \ {cmd.path}]

\* record_checked reads the file once more; without a file apply fails.
RecordChecked ==
    /\ cmd.at = "same"
    /\ \/ files[cmd.path] = NoFile /\ Ends /\ UNCHANGED <<snapshot, history>>
       \/ /\ files[cmd.path] # NoFile
          /\ snapshot' = [snapshot EXCEPT ![cmd.path] = files[cmd.path]]
          /\ NextEntry
          /\ IF files[cmd.path] = cmd.spec[cmd.path]
             THEN history' = [history EXCEPT !.wrote[cmd.path] = @ \cup {files[cmd.path]}]
             ELSE Happens("checked too late")
    /\ UNCHANGED <<files, stored, batches, baseline, rows, listed, copies, counts>>

\* _asset_conflict: an existing file that is not what was last recorded.
AssetConflict(p) == snapshot[p] # None /\ files[p] # NoFile /\ files[p] # snapshot[p]

\* Mutant: conflicts are looked for in new files only.
CheckNewConflict ==
    /\ cmd.at = "check"
    /\ cmd' = IF cmd.original = NoFile /\ AssetConflict(cmd.path) THEN Idle
              ELSE [cmd EXCEPT !.editedSinceCheck = FALSE,
                               !.at = IF cmd.original = NoFile THEN "write" ELSE "copy"]
    /\ UNCHANGED <<files, stored, records, copies, counts, history>>

CheckConflict ==
    /\ cmd.at = "check"
    /\ cmd' = IF AssetConflict(cmd.path) THEN Idle
              ELSE [cmd EXCEPT !.editedSinceCheck = FALSE,
                               !.at = IF cmd.original = NoFile THEN "write" ELSE "copy"]
    /\ UNCHANGED <<files, stored, records, copies, counts, history>>

\* Mutant: a path that has a baseline is not copied again.
CopyOnce ==
    /\ cmd.at = "copy"
    /\ IF files[cmd.path] = NoFile \/ baseline[cmd.path] # None
       THEN Goto("write") /\ UNCHANGED copies
       ELSE /\ cmd' = [cmd EXCEPT !.at = "list", !.copied = files[cmd.path],
                                  !.editedSinceCopy = FALSE]
            /\ copies' = copies \cup {<<cmd.path, files[cmd.path]>>}
    /\ UNCHANGED <<files, stored, records, counts, history>>

\* _apply_asset: the recovery copy of what is there by now.
CopyForRecovery ==
    /\ cmd.at = "copy"
    /\ IF files[cmd.path] = NoFile
       THEN Goto("write") /\ UNCHANGED copies
       ELSE /\ cmd' = [cmd EXCEPT !.at = "list", !.copied = files[cmd.path],
                                  !.editedSinceCopy = FALSE]
            /\ copies' = copies \cup {<<cmd.path, files[cmd.path]>>}
    /\ UNCHANGED <<files, stored, records, counts, history>>

ListRecoveryBackup ==
    /\ cmd.at = "list"
    /\ listed' = listed \cup {<<cmd.path, cmd.copied>>}
    /\ Goto("write")
    /\ UNCHANGED <<files, stored, batches, baseline, snapshot, rows, copies, counts, history>>

WriteAsset ==
    /\ cmd.at = "write"
    /\ Replace(cmd.path, cmd.spec[cmd.path])
    /\ NoteWrite(cmd.path, cmd.spec[cmd.path])
    /\ Goto("readback")
    /\ UNCHANGED <<stored, records, copies, counts>>

\* The hash of the snapshot is taken from the file; without a file apply fails.
ReadBack ==
    /\ cmd.at = "readback"
    /\ IF files[cmd.path] = NoFile
       THEN Ends /\ Happens("unrecorded")
       ELSE /\ cmd' = [cmd EXCEPT !.at = "baseline", !.written = files[cmd.path]]
            /\ IF files[cmd.path] = cmd.spec[cmd.path] THEN UNCHANGED history
               ELSE Happens("checked too late")
    /\ UNCHANGED <<files, stored, records, copies, counts>>

RecordBaseline ==
    /\ cmd.at = "baseline"
    /\ baseline' = IF baseline[cmd.path] # None THEN baseline
                   ELSE [baseline EXCEPT ![cmd.path] = cmd.original]
    /\ Goto("snapshot")
    /\ UNCHANGED <<files, stored, batches, snapshot, rows, listed, copies, counts, history>>

RecordSnapshot ==
    /\ cmd.at = "snapshot"
    /\ snapshot' = [snapshot EXCEPT ![cmd.path] = cmd.written]
    /\ Goto("batch")
    /\ UNCHANGED <<files, stored, batches, baseline, rows, listed, copies, counts, history>>

Replacement(value, before) == [kind |-> "replace_file", value |-> value, before |-> before]
Displacement(p) == [kind |-> "displace_file", value |-> NoFile, before |-> NoFile]

AppendBatch(p, ops) == batches' = [batches EXCEPT ![p] = @ \o ops]

RecordBatch ==
    /\ cmd.at = "batch"
    /\ AppendBatch(cmd.path, <<Replacement(cmd.spec[cmd.path], cmd.original)>>)
    /\ NextEntry
    /\ UNCHANGED <<files, stored, baseline, snapshot, rows, listed, copies, counts, history>>

-----------------------------------------------------------------------------
(* apply: _displace_asset_extra *)

Stored(id, p, content) == [id |-> id, path |-> p, content |-> content]

\* move_to_backup; an extra that is gone makes apply fail.
MoveExtra ==
    /\ cmd.at = "look" /\ cmd.todo = {}
    /\ \E p \in cmd.extras :
        /\ IsFirst(p, cmd.extras)
        /\ \/ files[p] = NoFile /\ Ends /\ UNCHANGED <<files, stored, counts, history>>
           \/ /\ files[p] # NoFile
              /\ stored' = stored \cup {Stored(counts.moves + 1, p, files[p])}
              /\ Replace(p, NoFile)
              /\ Counted("moves")
              /\ cmd' = [cmd EXCEPT !.at = "moved", !.path = p, !.row = counts.moves + 1]
              /\ history' = [history EXCEPT !.displaced = @ \cup {p}]
    /\ UNCHANGED <<records, copies>>

RecordMove ==
    /\ cmd.at = "moved"
    /\ rows' = Append(rows, [id |-> cmd.row, path |-> cmd.path, restored |-> FALSE])
    /\ Goto("displaced")
    /\ UNCHANGED <<files, stored, batches, baseline, snapshot, listed, copies, counts, history>>

RecordDisplacement ==
    /\ cmd.at = "displaced"
    /\ AppendBatch(cmd.path, <<Displacement(cmd.path)>>)
    /\ Goto("event")
    /\ UNCHANGED <<files, stored, baseline, snapshot, rows, listed, copies, counts, history>>

\* The third record is an event, which nothing here reads.
RecordEvent ==
    /\ cmd.at = "event"
    /\ cmd' = [cmd EXCEPT !.at = "look", !.extras = @ \ {cmd.path}]
    /\ UNCHANGED <<files, stored, records, copies, counts, history>>

MarkRestored(N) ==
    rows' = [n \in DOMAIN rows |-> [rows[n] EXCEPT !.restored = @ \/ n \in N]]

\* Mutant: the file goes back, its row stays.
DisplacementFailsUnmarked ==
    /\ cmd.at \in {"moved", "displaced", "event"}
    /\ counts.crashes < MaxCrashes
    /\ Counted("crashes")
    /\ \E moved \in {m \in stored : m.id = cmd.row} :
        /\ files[cmd.path] = NoFile
        /\ Replace(cmd.path, moved.content)
        /\ stored' = stored \ {moved}
        /\ UNCHANGED <<rows, history>>
    /\ Ends
    /\ UNCHANGED <<batches, baseline, snapshot, listed, copies>>

\* The ledger refuses one of the three records: the file goes back unless its place is
\* taken, and its row is marked, unless that is refused too.  A batch that is recorded by
\* then stays.
DisplacementFails ==
    /\ cmd.at \in {"moved", "displaced", "event"}
    /\ counts.crashes < MaxCrashes
    /\ Counted("crashes")
    /\ \E moved \in {m \in stored : m.id = cmd.row} :
        \/ /\ files[cmd.path] # NoFile
           /\ UNCHANGED <<files, stored, rows>>
           /\ IF cmd.at = "moved" THEN Happens("lost row") ELSE UNCHANGED history
        \/ /\ files[cmd.path] = NoFile
           /\ Replace(cmd.path, moved.content)
           /\ stored' = stored \ {moved}
           /\ \/ MarkRestored({n \in DOMAIN rows : rows[n].id = cmd.row}) /\ UNCHANGED history
              \/ cmd.at # "moved" /\ Happens("lost row") /\ UNCHANGED rows
    /\ Ends
    /\ UNCHANGED <<batches, baseline, snapshot, listed, copies>>

ApplyEnds ==
    /\ cmd.at = "look" /\ cmd.todo = {} /\ cmd.extras = {}
    /\ Ends
    /\ UNCHANGED <<files, stored, records, copies, counts, history>>

-----------------------------------------------------------------------------
(* rollback of a path whose last batch wrote an asset: _rollback_asset *)

\* The operations of a batch are of one kind, so the last one tells that of the last batch.
LastKind(p) == IF batches[p] = <<>> THEN "none" ELSE batches[p][Len(batches[p])].kind

\* Mutant: the operations are undone oldest first.
UndoneOldestFirst == batches[cmd.path][Len(batches[cmd.path]) + 1 - cmd.left]

\* The operations of all batches are undone, newest first.
Undone == batches[cmd.path][cmd.left]

RollbackAsset(p, command) ==
    /\ LastKind(p) = "replace_file"
    /\ cmd' = [Idle EXCEPT !.at = "undo", !.command = command, !.path = p,
                           !.left = Len(batches[p])]

\* An operation is skipped when the file is not what it left there, unless the resolver
\* agrees.  An operation of another kind ends the command with an error.
UndoNext ==
    /\ cmd.at = "undo" /\ cmd.left > 0
    /\ \/ Undone.kind # "replace_file" /\ Ends
          /\ IF cmd.done = <<>> THEN UNCHANGED history ELSE Happens("unrecorded")
       \/ /\ Undone.kind = "replace_file" /\ files[cmd.path] # Undone.value
          /\ cmd' = [cmd EXCEPT !.left = @ - 1]
          /\ Happens("skipped")
       \/ /\ Undone.kind = "replace_file"
          /\ cmd' = [cmd EXCEPT !.at = "undo copy", !.original = files[cmd.path]]
          /\ IF files[cmd.path] = Undone.value THEN UNCHANGED history ELSE Happens("forced")
    /\ UNCHANGED <<files, stored, records, copies, counts>>

CopyForRollback ==
    /\ cmd.at = "undo copy"
    /\ IF files[cmd.path] = NoFile
       THEN /\ cmd' = [cmd EXCEPT !.at = "undo write", !.editedSinceCopy = FALSE]
            /\ UNCHANGED copies
       ELSE LET copy == <<cmd.path, files[cmd.path]>>
            IN  /\ copies' = copies \cup {copy}
                /\ cmd' = [cmd EXCEPT !.at = "undo unlink", !.editedSinceCopy = FALSE,
                                      !.saved = @ \cup {copy}]
    /\ UNCHANGED <<files, stored, records, counts, history>>

\* The file is deleted first, whatever comes after; a missing one is an error.
UndoUnlink ==
    /\ cmd.at = "undo unlink"
    /\ \/ files[cmd.path] = NoFile /\ Ends /\ Happens("unrecorded")
       \/ files[cmd.path] # NoFile /\ Goto("undo write") /\ NoteWrite(cmd.path, NoFile)
    /\ Replace(cmd.path, NoFile)
    /\ UNCHANGED <<stored, records, copies, counts>>

\* The state after it is noted as an operation that a later rollback undoes.
Undid(content) ==
    cmd' = [cmd EXCEPT !.at = "undo", !.left = @ - 1, !.written = content,
                       !.done = Append(@, Replacement(content, cmd.original))]

UndoWrite ==
    /\ cmd.at = "undo write"
    /\ IF Undone.before = NoFile THEN Undid(NoFile) /\ UNCHANGED <<files, history>>
       ELSE /\ Replace(cmd.path, Undone.before)
            /\ NoteWrite(cmd.path, Undone.before)
            /\ Goto("undo readback")
    /\ UNCHANGED <<stored, records, copies, counts>>

\* What is noted and recorded is what the file holds by now (its text and its hash come
\* from two readings, one after the other, that are one step here); without a file
\* rollback fails.
UndoReadBack ==
    /\ cmd.at = "undo readback"
    /\ IF files[cmd.path] = NoFile
       THEN Ends /\ Happens("unrecorded")
       ELSE /\ Undid(files[cmd.path])
            /\ IF files[cmd.path] = Undone.before THEN UNCHANGED history
               ELSE Happens("checked too late")
    /\ UNCHANGED <<files, stored, records, copies, counts>>

\* One transaction: backup rows, snapshot of what was written, the new batch.
UndoRecord ==
    /\ cmd.at = "undo" /\ cmd.left = 0
    /\ IF cmd.done = <<>> THEN UNCHANGED records
       ELSE /\ listed' = listed \cup cmd.saved
            /\ snapshot' = IF cmd.written = NoFile THEN snapshot
                           ELSE [snapshot EXCEPT ![cmd.path] = cmd.written]
            /\ AppendBatch(cmd.path, cmd.done)
            /\ UNCHANGED <<baseline, rows>>
    /\ Ends
    /\ Happens("rolled back")
    /\ UNCHANGED <<files, stored, copies, counts>>

-----------------------------------------------------------------------------
(* rollback of moved files: _restore_asset_backups *)

\* The rows of a place that are still to be restored, and those of them to go by.
Unrestored(p) == {n \in DOMAIN rows : rows[n].path = p /\ ~rows[n].restored}

Oldest(p) == {n \in Unrestored(p) : \A other \in Unrestored(p) : n <= other}
Newest(p) == {n \in Unrestored(p) : \A other \in Unrestored(p) : other <= n}

\* Mutant: the first backup of a place is brought back.
RestoredFirst(p) == Oldest(p)

\* The last backup of a place is brought back.
RestoredRow(p) == Newest(p)

\* Any file in the place of a backup refuses all of it.
RestoreBackups(P) ==
    LET places == {p \in P : Unrestored(p) # {}}
    IN  /\ places # {}
        /\ \A p \in places : files[p] = NoFile
        /\ cmd' = [Idle EXCEPT !.at = "restore", !.command = "restore", !.todo = places]

\* The places come in the reverse order of their first backups.
IsNextPlace(p) ==
    \A q \in cmd.todo : \A n \in Oldest(p), other \in Oldest(q) : other <= n

RestoreNext ==
    /\ cmd.at = "restore"
    /\ \E p \in cmd.todo : \E n \in RestoredRow(p) :
        /\ IsNextPlace(p)
        /\ \/ /\ files[p] # NoFile \/ \A m \in stored : m.id # rows[n].id
              /\ Ends /\ UNCHANGED <<files, stored, history>>
           \/ \E m \in stored :
                /\ m.id = rows[n].id /\ files[p] = NoFile
                /\ Replace(p, m.content)
                /\ stored' = stored \ {m}
                /\ cmd' = [cmd EXCEPT !.at = "mark", !.path = p]
                /\ Happens("restored")
    /\ UNCHANGED <<records, copies, counts>>

\* All unrestored rows of the path count as restored with the one that was.
MarkGroup ==
    /\ cmd.at = "mark"
    /\ MarkRestored(Unrestored(cmd.path))
    /\ cmd' = [cmd EXCEPT !.at = "restore", !.todo = @ \ {cmd.path}]
    /\ UNCHANGED <<files, stored, batches, baseline, snapshot, listed, copies, counts, history>>

RestoreEnds ==
    /\ cmd.at = "restore" /\ cmd.todo = {}
    /\ Ends
    /\ UNCHANGED <<files, stored, records, copies, counts, history>>

\* perform_rollback of a file: its last batch decides.
RollbackPath(p, command) ==
    \/ RollbackAsset(p, command)
    \/ LastKind(p) # "replace_file" /\ RestoreBackups({p})

RollbackStarts ==
    /\ cmd.at = "idle"
    /\ counts.rollbacks < MaxRollbacks
    /\ \/ \E p \in Paths : RollbackPath(p, "rollback")
       \/ \E p \in Paths : baseline[p] \notin {None, NoFile} /\ RollbackPath(p, "original")
       \/ RestoreBackups(Paths)        \* rollback of the mirror root
    /\ Counted("rollbacks")
    /\ UNCHANGED <<files, stored, records, copies, history>>

-----------------------------------------------------------------------------
(* rollback --original of a file that the baseline says prescribe has created *)

OriginalStarts ==
    /\ cmd.at = "idle"
    /\ counts.rollbacks < MaxRollbacks
    /\ \E p \in Paths :
        /\ baseline[p] = NoFile /\ files[p] # NoFile
        /\ cmd' = [Idle EXCEPT !.at = "copy created", !.command = "original", !.path = p]
    /\ Counted("rollbacks")
    /\ UNCHANGED <<files, stored, records, copies, history>>

CopyCreated ==
    /\ cmd.at = "copy created"
    /\ LET copy == IF files[cmd.path] = NoFile THEN {} ELSE {<<cmd.path, files[cmd.path]>>}
       IN  /\ copies' = copies \cup copy
           /\ cmd' = [cmd EXCEPT !.at = "remove created", !.saved = copy,
                                 !.editedSinceCopy = FALSE]
    /\ UNCHANGED <<files, stored, records, counts, history>>

RemoveCreated ==
    /\ cmd.at = "remove created"
    /\ \/ files[cmd.path] = NoFile /\ Ends /\ UNCHANGED history
       \/ files[cmd.path] # NoFile /\ Goto("list removed") /\ NoteWrite(cmd.path, NoFile)
    /\ Replace(cmd.path, NoFile)
    /\ UNCHANGED <<stored, records, copies, counts>>

ListRemoved ==
    /\ cmd.at = "list removed"
    /\ listed' = listed \cup cmd.saved
    /\ Ends /\ Happens("removed")
    /\ UNCHANGED <<files, stored, batches, baseline, snapshot, rows, copies, counts>>

-----------------------------------------------------------------------------
(* The environment *)

UserEdits ==
    /\ counts.edits < MaxEdits
    /\ \E p \in Paths, content \in UserContents \cup {NoFile} :
        /\ content # files[p]
        /\ Replace(p, content)
        /\ cmd' = IF cmd.at = "idle" \/ p # cmd.path THEN cmd
                  ELSE [cmd EXCEPT !.editedSinceCheck = TRUE, !.editedSinceCopy = TRUE]
    /\ Counted("edits")
    /\ Happens("edited")
    /\ UNCHANGED <<stored, records, copies>>

\* The process dies, loses the lock, or a write to the ledger fails.
Crash ==
    /\ counts.crashes < MaxCrashes
    /\ cmd.at # "idle"
    /\ Counted("crashes")
    /\ Ends
    /\ history' = [history EXCEPT !.past = @ \cup
            IF cmd.at \in {"moved", "mark"} THEN {"lost row"} ELSE {"unrecorded"}]
    /\ UNCHANGED <<files, stored, records, copies>>

Apply ==
    \/ ApplyStarts \/ Look \/ RecordChecked \/ CheckConflict \/ CopyForRecovery
    \/ ListRecoveryBackup \/ WriteAsset \/ ReadBack \/ RecordBaseline \/ RecordSnapshot
    \/ RecordBatch \/ MoveExtra \/ RecordMove \/ RecordDisplacement \/ RecordEvent
    \/ DisplacementFails \/ ApplyEnds

Rollback ==
    \/ RollbackStarts \/ UndoNext \/ CopyForRollback \/ UndoUnlink \/ UndoWrite
    \/ UndoReadBack \/ UndoRecord \/ RestoreNext \/ MarkGroup \/ RestoreEnds
    \/ OriginalStarts \/ CopyCreated \/ RemoveCreated \/ ListRemoved

Next == Apply \/ Rollback \/ UserEdits \/ Crash

Spec == Init /\ [][Next]_vars

-----------------------------------------------------------------------------
(* Properties *)

Gone(p) == files[p] # NoFile /\ files'[p] # files[p]

\* What a command takes away from a destination is kept: moved into backup storage, or
\* copied, and by apply also listed, before it is overwritten or deleted, unless a user
\* edited the file after the copy (cli.py:356: "Recovery backups are byte-for-byte
\* copies captured before Prescribe overwrites or deletes existing files").
TakenIsKept ==
    [][\A p \in Paths : Gone(p) /\ ~UserEdits =>
          \/ <<p, files[p]>> \in IF cmd.command = "apply" THEN listed ELSE copies
          \/ \E m \in stored' : m.path = p /\ m.content = files[p]
          \/ cmd.editedSinceCopy]_vars

\* A file that commands have written is overwritten by apply only with what one of them
\* left there, however applies, rollbacks and removals came before; anything else a
\* user put there in between is a conflict.  (README.md:290: "If a managed value
\* changes outside Prescribe, apply reports a conflict rather than silently
\* overwriting it").  It ends with a command that stops between a write and its records,
\* and with an edit between a write and the reading back of apply or rollback, which
\* record the edit as their own.
UserContentKept ==
    [][\A p \in Paths :
          WriteAsset /\ cmd.path = p /\ files[p] # NoFile /\ history.wrote[p] # {}
          /\ history.past \cap {"unrecorded", "checked too late"} = {} =>
              files[p] \in history.wrote[p] \/ cmd.editedSinceCheck]_vars

\* Between commands every moved file that is still away can be brought back, and what
\* is marked as restored is not owed any more: the rows name the files in storage, until
\* a row is lost.
BackupRowsTrue ==
    cmd.at = "idle" /\ "lost row" \notin history.past =>
        /\ \A n \in DOMAIN rows : ~rows[n].restored =>
                \E m \in stored : m.id = rows[n].id /\ m.path = rows[n].path
        /\ \A m \in stored : \E n \in DOMAIN rows : rows[n].id = m.id

\* The moved files that rollback still has to bring back to a place.
Owed(p) ==
    {m \in stored : m.path = p /\ \E n \in DOMAIN rows : rows[n].id = m.id /\ ~rows[n].restored}

\* rollback of the mirror root or of a moved file brings back what was moved last from
\* each place.
RestoreBringsLatest ==
    [][RestoreNext /\ cmd'.at = "mark" =>
          \E m \in Owed(cmd'.path) :
              /\ m \notin stored' /\ files'[m.path] = m.content
              /\ \A other \in Owed(m.path) : other.id <= m.id]_vars

\* Every rollback of a written asset gives back the file from before the first write,
\* after any number of applies of different sources and also after other rollbacks,
\* whose results it undoes too (README.md:179: "Roll back a managed asset path to undo
\* its file changes").
RollbackRestoresOrigin ==
    [][UndoRecord /\ cmd.path \notin history.displaced
       /\ history.past \subseteq {"rolled back", "skipped"} =>
          files'[cmd.path] = history.origin[cmd.path]]_vars
=============================================================================
