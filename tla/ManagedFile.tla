----------------------------- MODULE ManagedFile -----------------------------
(***************************************************************************)
(* One managed file and what the ledger knows about it: how apply writes   *)
(* the file and then records what it did, how rollback and rollback        *)
(* --original undo it from these records, while users edit the file at any *)
(* moment and the program may die, or fail to record, between two steps.   *)
(*                                                                         *)
(* Content is a function from keys to values: the keys of a mapping        *)
(* (YAML, JSONC), or the block of a line document and the text around it.  *)
(* The writer lock admits one command at a time (module WriterProtocol);   *)
(* an apply that was interrupted is cleared by recover --force before the  *)
(* next one.                                                               *)
(***************************************************************************)
EXTENDS Naturals, Sequences, FiniteSets

CONSTANTS
    Keys, ManagedKeys,  \* the keys of the file, and those a spec may mention
    Values,             \* values that specs and users write
    Absent, Null,       \* no such key, and the explicit null of a mapping
    Unrecorded,         \* what undoing restores when no before_value is recorded
    Specs,              \* what a spec asks: a value, or Absent to delete, per key
    NoFile, None,       \* no file, no record
    ForcedKeys,         \* sets of keys the conflict resolver agrees to revert
    MaxBatches, MaxEdits, MaxCrashes   \* bounds

Contents == [Keys -> Values \cup {Null, Absent}]
Files == Contents \cup {NoFile}
Empty == [k \in Keys |-> Absent]

ASSUME KeysAssumption ==
    /\ ManagedKeys \subseteq Keys
    /\ Absent \notin Values /\ Null \notin Values /\ Absent # Null
    /\ Unrecorded \in {Null, Absent}
    /\ NoFile \notin Contents
    /\ None \notin Files \cup [content : Files, existed : BOOLEAN]
    /\ \A s \in Specs : /\ DOMAIN s \subseteq ManagedKeys
                        /\ \A k \in DOMAIN s : s[k] \in Values \cup {Absent}
    /\ ForcedKeys \subseteq SUBSET Keys

VARIABLES
    file,        \* the file on disk
    batches,     \* change_batches of the path, oldest first
    baseline,    \* file_baselines row: content and original_exists
    checkpoint,  \* latest file_checkpoints row: content and original_exists
    copies,      \* contents that copy_to_recovery_backup has saved
    listed,      \* contents that have a recovery_backups row
    cmd,         \* the running command and its local variables
    edits, crashes,  \* counters for the bounds
    history      \* what has happened so far; no guard reads it

vars == <<file, batches, baseline, checkpoint, copies, listed, cmd, edits, crashes, history>>

ledger == <<batches, baseline, checkpoint, listed>>
bounds == <<edits, crashes>>

\* No command runs: where the next one stands, and the defaults of its locals.
Idle == [at |-> "idle", command |-> "none",
         spec |-> <<>>, before |-> NoFile, doc |-> Empty, ops |-> <<>>,
         existed |-> FALSE, text |-> NoFile, copied |-> NoFile, written |-> NoFile,
         todo |-> 0, changed |-> FALSE, skipped |-> {},
         editedSinceCheck |-> FALSE, editedSinceCopy |-> FALSE]

Init ==
    /\ file \in {f \in Files : f # NoFile => \A k \in Keys : f[k] # Null}
    /\ batches = <<>>
    /\ baseline = None
    /\ checkpoint = None
    /\ copies = {} /\ listed = {}
    /\ cmd = Idle
    /\ edits = 0 /\ crashes = 0
    /\ history = [origin |-> None,          \* the file before the first write
                  left |-> [k \in ManagedKeys |-> None],  \* last value written per key
                  mine |-> IF file = NoFile THEN Empty ELSE file,  \* last user version
                  last |-> "none",          \* the last command that returned
                  past |-> {}]              \* notable events

-----------------------------------------------------------------------------
(* Plans, batches and undoing *)

\* Planner.plan: what has to change in doc for the spec to hold.
Plan(doc, spec) ==
    [k \in {i \in DOMAIN spec : doc[i] # spec[i]} |->
        [kind |-> IF spec[k] = Absent THEN "delete" ELSE "write",
         value |-> spec[k], before |-> doc[k]]]

\* apply_operations.
Applied(doc, ops) == [k \in Keys |-> IF k \in DOMAIN ops THEN ops[k].value ELSE doc[k]]

BatchKeys == UNION {DOMAIN batches[i].ops : i \in DOMAIN batches}

\* _managed_state_from_batches: the last operation on the key decides.
ManagedState(k) ==
    LET having == {i \in DOMAIN batches : k \in DOMAIN batches[i].ops}
    IN  batches[CHOOSE i \in having : \A j \in having : j <= i].ops[k].value

\* _detect_managed_conflict: a key to be changed is not what the ledger says.
ManagedConflict(doc, ops) ==
    \E k \in DOMAIN ops \cap BatchKeys : doc[k] # ManagedState(k)

\* Whether _rollback_mapping or _rollback_line undoes an operation on a key.
Reverts(op, current, forced) ==
    IF op.kind = "delete" THEN current = Absent ELSE current = op.value \/ forced

\* rollback_batch: the keys whose operation it undoes, and what that makes of a document.
Hits(ops, doc, forced) == {k \in DOMAIN ops : Reverts(ops[k], doc[k], k \in forced)}

Reverted(ops, doc, hits) == [k \in Keys |-> IF k \in hits THEN ops[k].before ELSE doc[k]]

\* _current_state_operations: what the managed keys are now, without before_value.
StateOperations(root, skipped) ==
    [k \in BatchKeys \ skipped |->
        [kind |-> IF root[k] = Absent THEN "delete" ELSE "write",
         value |-> root[k], before |-> Unrecorded]]

HasContent(doc) == \E k \in Keys : doc[k] # Absent

-----------------------------------------------------------------------------
(* How a command moves on *)

Goto(step) == cmd' = [cmd EXCEPT !.at = step]

\* The command returns after its last ledger write.
Returns == cmd' = Idle /\ history' = [history EXCEPT !.last = cmd.command]

\* The command is refused or fails before it has written anything.
Leaves == cmd' = Idle /\ UNCHANGED history

Happens(event) == history' = [history EXCEPT !.past = @ \cup event]

\* A command after a rollback.
Starts == Happens(IF history.last \in {"rollback", "original"} THEN {"rolled back"} ELSE {})

NoteWrite(keys, new) ==
    history' = [history EXCEPT
        !.origin = IF @ = None THEN file ELSE @,
        !.left = [k \in ManagedKeys |-> IF k \in keys THEN new[k] ELSE @[k]]]

-----------------------------------------------------------------------------
(* apply: reading and planning *)

ApplyStarts ==
    /\ cmd.at = "idle"
    /\ Len(batches) < MaxBatches
    /\ \E s \in Specs :
        LET new == Plan(Empty, s)
        IN  \/ /\ file = NoFile /\ DOMAIN new # {}
               /\ cmd' = [Idle EXCEPT !.at = "appeared", !.command = "apply", !.ops = new]
            \/ /\ file # NoFile
               /\ cmd' = [Idle EXCEPT !.at = "load", !.command = "apply", !.spec = s,
                                      !.before = file, !.existed = TRUE]
    /\ Starts
    /\ UNCHANGED <<file, ledger, copies, bounds>>

\* The fingerprint has been taken; the file is loaded, planned and compared with
\* the managed state.  An empty plan only records a snapshot.
LoadAndPlan ==
    /\ cmd.at = "load"
    /\ LET ops == Plan(file, cmd.spec)
       IN  IF file = NoFile \/ DOMAIN ops = {} \/ ManagedConflict(file, ops)
           THEN Leaves
           ELSE /\ cmd' = [cmd EXCEPT !.at = "recheck", !.doc = file, !.ops = ops]
                /\ UNCHANGED history
    /\ UNCHANGED <<file, ledger, copies, bounds>>

\* Mutant: the fingerprint is not compared again before writing.
RecheckNothing ==
    /\ cmd.at = "recheck"
    /\ cmd' = [cmd EXCEPT !.at = "text", !.editedSinceCheck = FALSE]
    /\ UNCHANGED <<file, ledger, copies, bounds, history>>

\* The fingerprint is taken again; any difference is a conflict.
Recheck ==
    /\ cmd.at = "recheck"
    /\ cmd' = IF file = cmd.before THEN [cmd EXCEPT !.at = "text", !.editedSinceCheck = FALSE] ELSE Idle
    /\ UNCHANGED <<file, ledger, copies, bounds, history>>

\* The text that becomes the baseline is read separately.
ReadOriginalText ==
    /\ cmd.at = "text"
    /\ cmd' = IF file = NoFile THEN Idle ELSE [cmd EXCEPT !.at = "copy", !.text = file]
    /\ UNCHANGED <<file, ledger, copies, bounds, history>>

\* A file that was missing must still be missing.
CheckNotAppeared ==
    /\ cmd.at = "appeared"
    /\ cmd' = IF file = NoFile THEN [cmd EXCEPT !.at = "exists", !.editedSinceCheck = FALSE]
                              ELSE Idle
    /\ UNCHANGED <<file, ledger, copies, bounds, history>>

\* original_exists is asked once more, and decides whether there is a copy to make.
LookAgain ==
    /\ cmd.at = "exists"
    /\ cmd' = [cmd EXCEPT !.existed = file # NoFile, !.editedSinceCopy = FALSE,
                         !.at = IF file = NoFile THEN "write" ELSE "copy"]
    /\ UNCHANGED <<file, ledger, copies, bounds, history>>

-----------------------------------------------------------------------------
(* apply: _apply_and_record *)

\* Mutant: a file that has a baseline is not copied again.
CopyOnce ==
    /\ cmd.at = "copy"
    /\ IF file = NoFile \/ baseline # None
       THEN Goto("write") /\ UNCHANGED copies
       ELSE /\ cmd' = [cmd EXCEPT !.at = "list", !.copied = file,
                                !.editedSinceCopy = FALSE]
            /\ copies' = copies \cup {file}
    /\ UNCHANGED <<file, ledger, bounds, history>>

CopyForRecovery ==
    /\ cmd.at = "copy"
    /\ IF file = NoFile
       THEN Goto("write") /\ UNCHANGED copies
       ELSE /\ cmd' = [cmd EXCEPT !.at = "list", !.copied = file,
                                !.editedSinceCopy = FALSE]
            /\ copies' = copies \cup {file}
    /\ UNCHANGED <<file, ledger, bounds, history>>

ListRecoveryBackup ==
    /\ cmd.at = "list"
    /\ listed' = listed \cup {cmd.copied}
    /\ Goto("write")
    /\ UNCHANGED <<file, batches, baseline, checkpoint, copies, bounds, history>>

\* The document that was loaded, with the operations applied, replaces the file.
WriteDocument ==
    /\ cmd.at = "write"
    /\ file' = Applied(cmd.doc, cmd.ops)
    /\ NoteWrite(DOMAIN cmd.ops, file')
    /\ Goto("readback")
    /\ UNCHANGED <<ledger, copies, bounds>>

\* What was written is read again for the records; without a file that fails, and
\* nothing is recorded.
ReadBack ==
    /\ cmd.at = "readback"
    /\ IF file = NoFile
       THEN cmd' = Idle /\ Happens({"unrecorded"})
       ELSE /\ cmd' = [cmd EXCEPT !.written = file,
                      !.at = IF cmd.command = "apply" THEN "baseline" ELSE "record"]
            /\ UNCHANGED history
    /\ UNCHANGED <<file, ledger, copies, bounds>>

\* original_exists is what the planning step has seen, not what is there by now.
RecordBaseline ==
    /\ cmd.at = "baseline"
    /\ baseline' = IF baseline # None THEN baseline
                   ELSE [content |-> IF cmd.text = NoFile THEN Empty ELSE cmd.text,
                         existed |-> cmd.existed]
    /\ Goto("checkpoint")
    /\ UNCHANGED <<file, batches, checkpoint, listed, copies, bounds, history>>

\* Mutant: the checkpoint is the backup row, not the content.
RecordCheckpointOfNothing ==
    /\ cmd.at = "checkpoint"
    /\ checkpoint' = [content |-> cmd.written]
    /\ Goto("batch")
    /\ UNCHANGED <<file, batches, baseline, listed, copies, bounds, history>>

RecordCheckpoint ==
    /\ cmd.at = "checkpoint"
    /\ checkpoint' = [content |-> cmd.written, existed |-> cmd.existed]
    /\ Goto("batch")
    /\ UNCHANGED <<file, batches, baseline, listed, copies, bounds, history>>

RecordBatch ==
    /\ cmd.at = "batch"
    /\ batches' = Append(batches, [ops |-> cmd.ops, existed |-> cmd.existed])
    /\ Returns
    /\ UNCHANGED <<file, baseline, checkpoint, listed, copies, bounds>>

-----------------------------------------------------------------------------
(* rollback *)

\* A missing file that existed before is first written again from the checkpoint;
\* with any other missing file there is nothing to undo.
RollbackStarts(command) ==
    /\ cmd.at = "idle"
    /\ batches # <<>> /\ Len(batches) < MaxBatches
    /\ command = "original" => baseline # None /\ baseline.existed
    /\ file = NoFile => checkpoint # None /\ checkpoint.existed
    /\ cmd' = [Idle EXCEPT !.at = IF file = NoFile THEN "restore" ELSE "reload",
                           !.command = command]
    /\ Starts
    /\ UNCHANGED <<file, ledger, copies, bounds>>

RestoreCheckpoint ==
    /\ cmd.at = "restore"
    /\ file' = checkpoint.content
    /\ Goto("reload")
    /\ UNCHANGED <<ledger, copies, bounds, history>>

\* The file is loaded; its batches are undone in memory.
Reload ==
    /\ cmd.at = "reload"
    /\ IF file = NoFile
       THEN Leaves
       ELSE /\ cmd' = [cmd EXCEPT !.at = "undo", !.before = file, !.doc = file,
                                  !.todo = Len(batches)]
            /\ UNCHANGED history
    /\ UNCHANGED <<file, ledger, copies, bounds>>

\* The keys that undoing one batch gives back or skips; the resolver is asked anew.
UndoOne(ops) ==
    /\ \E forced \in ForcedKeys :
        LET hits == Hits(ops, cmd.doc, forced)
        IN  cmd' = [cmd EXCEPT !.todo = @ - 1,
                               !.doc = Reverted(ops, @, hits),
                               !.changed = @ \/ hits # {},
                               !.skipped = @ \cup {k \in DOMAIN ops \ hits : ops[k].kind = "write"}]
    /\ UNCHANGED <<file, ledger, copies, bounds, history>>

\* Mutant: the batches are undone oldest first.
UndoOldestFirst ==
    /\ cmd.at = "undo" /\ cmd.todo > 0
    /\ UndoOne(batches[Len(batches) + 1 - cmd.todo].ops)

\* The batches are undone from the last to the first.
UndoNext ==
    /\ cmd.at = "undo" /\ cmd.todo > 0
    /\ UndoOne(batches[cmd.todo].ops)

\* A document in which nothing was undone is not written.
FinishUndoing ==
    /\ cmd.at = "undo" /\ cmd.todo = 0
    /\ IF ~cmd.changed
       THEN Returns
       ELSE /\ cmd' = [cmd EXCEPT
                        !.at = IF batches[1].existed \/ HasContent(cmd.doc)
                               THEN "copy rewritten" ELSE "copy deleted",
                        !.ops = StateOperations(cmd.doc, cmd.skipped)]
            /\ Happens(IF cmd.skipped = {} THEN {} ELSE {"skipped"})
    /\ UNCHANGED <<file, ledger, copies, bounds>>

\* The copy is made now and listed in the final transaction only.
CopyForRollback ==
    /\ cmd.at \in {"copy rewritten", "copy deleted"}
    /\ IF file = NoFile /\ cmd.at = "copy deleted" /\ cmd.command # "remove"
       THEN Returns
       ELSE /\ cmd' = [cmd EXCEPT !.at = IF @ = "copy rewritten" THEN "rewrite" ELSE "unlink",
                                  !.copied = file, !.editedSinceCopy = FALSE]
            /\ UNCHANGED history
    /\ copies' = copies \cup ({file} \ {NoFile})
    /\ UNCHANGED <<file, ledger, bounds>>

RollbackRewrites ==
    /\ cmd.at = "rewrite"
    /\ file' = cmd.doc
    /\ NoteWrite(BatchKeys, file')
    /\ Goto("readback")
    /\ UNCHANGED <<ledger, copies, bounds>>

\* Path.unlink fails when the file is gone.
RollbackDeletes ==
    /\ cmd.at = "unlink"
    /\ \/ file = NoFile /\ Leaves
       \/ file # NoFile /\ Goto("record") /\ NoteWrite(BatchKeys, Empty)
    /\ file' = NoFile
    /\ UNCHANGED <<ledger, copies, bounds>>

\* Mutant: the state of a file that rollback has deleted is not recorded.
RecordRollbackOfRewrites ==
    /\ cmd.at = "record" /\ cmd.command # "remove"
    /\ listed' = listed \cup ({cmd.copied} \ {NoFile})
    /\ checkpoint' = IF cmd.written = NoFile THEN checkpoint
                     ELSE [content |-> cmd.written, existed |-> batches[1].existed]
    /\ batches' = IF DOMAIN cmd.ops = {} \/ cmd.written = NoFile THEN batches
                  ELSE Append(batches, [ops |-> cmd.ops, existed |-> batches[1].existed])
    /\ Returns
    /\ UNCHANGED <<file, baseline, copies, bounds>>

\* One transaction: backup row, checkpoint of what was written, state as a batch.
RecordRollback ==
    /\ cmd.at = "record" /\ cmd.command # "remove"
    /\ listed' = listed \cup ({cmd.copied} \ {NoFile})
    /\ checkpoint' = IF cmd.written = NoFile THEN checkpoint
                     ELSE [content |-> cmd.written, existed |-> batches[1].existed]
    /\ batches' = IF DOMAIN cmd.ops = {} THEN batches
                  ELSE Append(batches, [ops |-> cmd.ops, existed |-> batches[1].existed])
    /\ Returns
    /\ UNCHANGED <<file, baseline, copies, bounds>>

-----------------------------------------------------------------------------
(* rollback --original of a file that the baseline says prescribe has created *)

OriginalStarts ==
    /\ cmd.at = "idle"
    /\ baseline # None /\ ~baseline.existed
    /\ file # NoFile
    /\ cmd' = [Idle EXCEPT !.at = "copy deleted", !.command = "remove"]
    /\ Starts
    /\ UNCHANGED <<file, ledger, copies, bounds>>

\* The batches stay as they are.
RecordRemoval ==
    /\ cmd.at = "record" /\ cmd.command = "remove"
    /\ listed' = listed \cup ({cmd.copied} \ {NoFile})
    /\ cmd' = Idle
    /\ history' = [history EXCEPT !.last = "original", !.past = @ \cup {"removed"}]
    /\ UNCHANGED <<file, batches, baseline, checkpoint, copies, bounds>>

-----------------------------------------------------------------------------
(* The environment *)

\* A user removes the file, creates it with one key, or sets or deletes a key.
UserVersions ==
    LET old == IF file = NoFile THEN Empty ELSE file
    IN  ({NoFile} \cup {[old EXCEPT ![k] = v] : k \in Keys, v \in Values \cup {Absent}}) \ {file}

\* Whether an edit concerns what prescribe manages, or meets a running command.
Meddles(new) ==
    \/ cmd.at # "idle"
    \/ history.origin # None /\ (NoFile \in {file, new} \/ \E k \in ManagedKeys : new[k] # file[k])

UserEdits ==
    /\ edits < MaxEdits
    /\ \E new \in UserVersions :
        /\ file' = new
        /\ history' = [history EXCEPT !.mine = IF new = NoFile THEN Empty ELSE new,
                                      !.past = @ \cup IF Meddles(new) THEN {"meddled"} ELSE {}]
    /\ edits' = edits + 1
    /\ cmd' = IF cmd.at = "idle" THEN cmd ELSE [cmd EXCEPT !.editedSinceCheck = TRUE, !.editedSinceCopy = TRUE]
    /\ UNCHANGED <<ledger, copies, crashes>>

\* The process dies, loses the lock, or a write to the ledger fails.
Crash ==
    /\ crashes < MaxCrashes
    /\ cmd.at # "idle"
    /\ crashes' = crashes + 1
    /\ cmd' = Idle
    /\ Happens(IF cmd.at \in {"readback", "baseline", "checkpoint", "batch", "record"}
               THEN {"unrecorded"} ELSE {})
    /\ UNCHANGED <<file, ledger, copies, edits>>

Command ==
    \/ ApplyStarts \/ LoadAndPlan \/ Recheck \/ ReadOriginalText
    \/ CheckNotAppeared \/ LookAgain \/ CopyForRecovery \/ ListRecoveryBackup
    \/ WriteDocument \/ ReadBack
    \/ RecordBaseline \/ RecordCheckpoint \/ RecordBatch
    \/ RollbackStarts("rollback") \/ RollbackStarts("original")
    \/ RestoreCheckpoint \/ Reload \/ UndoNext \/ FinishUndoing \/ CopyForRollback \/ RollbackRewrites
    \/ RollbackDeletes \/ RecordRollback \/ OriginalStarts \/ RecordRemoval

Next == Command \/ UserEdits \/ Crash

Spec == Init /\ [][Next]_vars

-----------------------------------------------------------------------------
(* Properties *)

Operations(K) == [K -> [kind : {"write", "delete"}, value : Values \cup {Null, Absent},
                        before : Values \cup {Null, Absent}]]

Records == {None} \cup [content : Files, existed : BOOLEAN]

TypeOK ==
    /\ file \in Files
    /\ \A i \in DOMAIN batches :
        /\ batches[i].ops \in Operations(DOMAIN batches[i].ops)
        /\ DOMAIN batches[i].ops \subseteq ManagedKeys
        /\ batches[i].existed \in BOOLEAN
    /\ baseline \in Records
    /\ checkpoint \in Records
    /\ copies \subseteq Contents
    /\ listed \subseteq copies
    /\ cmd.doc \in Contents
    /\ cmd.before \in Files

\* The steps that overwrite or delete the file.
Replaces == WriteDocument \/ RollbackRewrites \/ RollbackDeletes \/ RestoreCheckpoint

\* Whatever a command overwrites or deletes has been copied before, and by apply also
\* listed, unless a user edited the file after the copy, or after it was found
\* missing (README: "Recovery backups capture existing file bytes before supported
\* managed writes and deletes").
OverwrittenWasCopied ==
    [][Replaces /\ file # NoFile =>
          \/ file \in IF cmd.command = "apply" THEN listed ELSE copies
          \/ cmd.editedSinceCopy]_vars

\* apply replaces only the content its plan was made for, unless a user edited the
\* file after the last look at it (the second fingerprint, the check that a new
\* file has not appeared).
PlannedForThisContent ==
    [][WriteDocument => file = cmd.before \/ cmd.editedSinceCheck]_vars

\* As long as every write could be recorded and nothing was skipped or removed, the
\* batches say of each key what prescribe has last left there: the managed state
\* that conflicts are detected with is the truth, across applies and rollbacks.
\* (Writing a missing file back from its checkpoint does not count as a new value.)
LedgerMatchesWrites ==
    cmd.at = "idle" /\ history.past \cap {"unrecorded", "skipped", "removed"} = {} =>
        \A k \in BatchKeys : history.left[k] = ManagedState(k)

\* The rollback returns with its work done: neither refused, nor failed, nor crashed.
Finishes(command) ==
    cmd.command = command /\ Returns /\ (FinishUndoing \/ CopyForRollback \/ RecordRollback)

KeyOf(f, k) == IF f = NoFile THEN Absent ELSE f[k]

\* What the file should be once everything managed is undone.
Undone ==
    LET root == [k \in Keys |-> IF k \in ManagedKeys THEN KeyOf(history.origin, k)
                                ELSE history.mine[k]]
    IN  IF history.origin = NoFile /\ ~HasContent(root) THEN NoFile ELSE root

\* After any number of applies, also with different specs, the first rollback gives
\* back the managed keys as they were and keeps every other edit, and it deletes a
\* file that prescribe created and nobody else uses (cli.py, rollback topic:
\* "Default rollback undoes Prescribe-managed changes while preserving unrelated
\* edits").
FirstRollbackRestores ==
    [][Finishes("rollback") /\ history'.past = {} => file' = Undone']_vars

\* A managed block that was not there before the first apply is gone after every
\* rollback, however applies and rollbacks alternate.
NewBlocksGoAway ==
    [][Finishes("rollback") /\ history'.past \subseteq {"rolled back", "skipped"} =>
          \A k \in ManagedKeys :
              KeyOf(history'.origin, k) = Absent => KeyOf(file', k) = Absent]_vars

\* rollback --original gives back the managed keys as they were before the first
\* apply, also when other rollbacks came before it (README: "--original restores
\* managed content to its baseline before Prescribe first managed it").
OriginalRestoresBaseline ==
    [][Finishes("original") /\ history'.past \subseteq {"rolled back", "skipped"} =>
          \A k \in ManagedKeys : KeyOf(file', k) = KeyOf(history'.origin, k)]_vars
=============================================================================
