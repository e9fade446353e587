-------------------------- MODULE ManagedFileProofs --------------------------
(***************************************************************************)
(* Theorems about ManagedFile, for every set of keys, values and specs,    *)
(* every number of batches, edits and crashes, and every resolver.         *)
(*                                                                         *)
(* The first invariant, IInv, says that the program copies what it         *)
(* overwrites, writes what it has planned for and records what it has      *)
(* written.  The second, Known, says what the batches make of the original *)
(* file as long as only applies have happened, and so what undoing them,   *)
(* one after the other, gives back.  The third, NewKeysGoAway, says the    *)
(* same of keys that were not there, through any number of rollbacks.      *)
(***************************************************************************)
EXTENDS ManagedFile, TLAPS, WellFoundedInduction

-----------------------------------------------------------------------------
(* Steps of the commands *)

\* The steps of an apply before it writes, and between that and its last record.
Preparing == {"load", "recheck", "text", "appeared", "exists", "copy", "list", "write"}

Recording == {"baseline", "checkpoint", "batch"}

\* The steps of a rollback before it writes.
Undoing == {"restore", "reload", "undo", "copy rewritten", "rewrite"}

Removing == {"copy deleted", "unlink"}

Rollbacks == {"rollback", "original"}

AllSteps == {"idle", "readback", "record"} \cup Preparing \cup Recording \cup Undoing \cup Removing

\* Every step belongs to commands that reach it.
StepsOfCommands ==
    /\ DOMAIN cmd = DOMAIN Idle
    /\ DOMAIN history = {"origin", "left", "mine", "last", "past"}
    /\ cmd.at \in AllSteps
    /\ cmd.at \in Preparing \cup Recording => cmd.command = "apply"
    /\ cmd.at \in Undoing => cmd.command \in Rollbacks
    /\ cmd.at \in Removing \cup {"record"} => cmd.command \in Rollbacks \cup {"remove"}
    /\ cmd.at = "readback" => cmd.command \in Rollbacks \cup {"apply"}

-----------------------------------------------------------------------------
(* Copies and plans *)

\* What is about to be overwritten has been copied, unless it was edited since.
CopiedBeforeWrite ==
    /\ cmd.at = "list" => file = cmd.copied \/ cmd.editedSinceCopy
    /\ cmd.at = "write" => file = NoFile \/ file \in listed \/ cmd.editedSinceCopy
    /\ cmd.at = "restore" => file = NoFile \/ cmd.editedSinceCopy
    /\ cmd.at \in {"rewrite", "unlink"} => file = NoFile \/ file \in copies \/ cmd.editedSinceCopy

\* What is about to be overwritten is what the plan was made for.
PlannedBeforeWrite ==
    /\ cmd.at = "appeared" => cmd.before = NoFile
    /\ cmd.at \in {"text", "exists", "copy", "list", "write"} =>
           file = cmd.before \/ cmd.editedSinceCheck

-----------------------------------------------------------------------------
(* The ledger and the file *)

\* Nothing has happened that leaves the batches behind.
Clean == history.past \cap {"unrecorded", "skipped", "removed"} = {}

\* The batches say what was last written.
Matches == \A k \in BatchKeys : history.left[k] = ManagedState(k)

\* Only keys that specs may mention are recorded or planned.
ManagedOnly ==
    /\ \E B : batches \in Seq(B)
    /\ BatchKeys \subseteq ManagedKeys
    /\ cmd.at = "load" => cmd.spec \in Specs
    /\ cmd.at \in (Preparing \ {"load"}) \cup {"readback"} \cup Recording => DOMAIN cmd.ops \subseteq ManagedKeys

\* Before anything is written the batches are right; after an apply has written they
\* are right once its operations are appended.
ApplyLedger ==
    /\ cmd.at \in {"idle"} \cup Preparing \cup Undoing \cup Removing /\ Clean => Matches
    /\ cmd.at \in {"readback"} \cup Recording /\ cmd.command = "apply" /\ Clean =>
        \A k \in BatchKeys \cup DOMAIN cmd.ops :
            history.left[k] = IF k \in DOMAIN cmd.ops THEN cmd.ops[k].value ELSE ManagedState(k)

\* The operations say of every key that was not skipped what the document has there.
RecordsDocument(ops, doc, skipped) ==
    /\ DOMAIN ops = BatchKeys \ skipped
    /\ \A k \in DOMAIN ops : ops[k].value = doc[k]

\* A rollback is going to record the document that it writes.
RollbackLedger ==
    /\ cmd.at \in {"copy rewritten", "copy deleted", "rewrite", "unlink", "readback", "record"}
       /\ cmd.command \in Rollbacks =>
        /\ RecordsDocument(cmd.ops, cmd.doc, cmd.skipped)
        /\ cmd.skipped # {} => "skipped" \in history.past
    /\ cmd.at \in Removing /\ cmd.command \in Rollbacks => ~HasContent(cmd.doc)
    /\ cmd.at \in {"readback", "record"} /\ cmd.command \in Rollbacks =>
        \A k \in BatchKeys : history.left[k] = cmd.doc[k]

\* The inductive invariant.
IInv == StepsOfCommands /\ CopiedBeforeWrite /\ PlannedBeforeWrite
        /\ ManagedOnly /\ ApplyLedger /\ RollbackLedger

-----------------------------------------------------------------------------
(* The batches of a path *)

\* A set of positions that is not empty has a last one.
LEMMA LastPosition ==
    ASSUME NEW n \in Nat, NEW S \in SUBSET (1 .. n), S # {}
    PROVE  \E i \in S : \A j \in S : j <= i
<1> DEFINE T == {n - i : i \in S}
<1>1. T \subseteq Nat /\ T # {}
  <2>1. \A i \in S : n - i \in Nat
    OBVIOUS
  <2>2. PICK e \in S : TRUE
    OBVIOUS
  <2> HIDE DEF T
  <2>3. \A t : t \in T <=> \E i \in S : t = n - i
    BY DEF T
  <2> QED
    BY <2>1, <2>2, <2>3
<1>2. PICK m \in T : \A t \in T : ~(<<t, m>> \in OpToRel(<, Nat))
  BY <1>1, NatLessThanWellFounded, WFMin
<1>3. PICK i \in S : m = n - i
  BY <1>2
<1>4. \A j \in S : ~(n - j < n - i)
  BY <1>1, <1>2, <1>3 DEF OpToRel
<1> QED
  BY <1>4

\* Appending a batch: its operations decide, for other keys nothing changes.
LEMMA AppendedBatch ==
    ASSUME NEW B, batches \in Seq(B), NEW b, batches' = Append(batches, b)
    PROVE  /\ \E C : batches' \in Seq(C)
           /\ BatchKeys' = BatchKeys \cup DOMAIN b.ops
           /\ \A k \in DOMAIN b.ops : ManagedState(k)' = b.ops[k].value
           /\ \A k \in BatchKeys \ DOMAIN b.ops : ManagedState(k)' = ManagedState(k)
<1> DEFINE n == Len(batches)
<1>1. batches \in Seq(B \cup {b}) /\ b \in B \cup {b}
  OBVIOUS
<1>2. /\ n \in Nat /\ DOMAIN batches = 1 .. n
      /\ DOMAIN batches' = 1 .. n + 1
      /\ \A i \in 1 .. n : batches'[i] = batches[i]
      /\ batches'[n + 1] = b
  BY <1>1
<1>3. \E C : batches' \in Seq(C)
  BY <1>1
<1> DEFINE Having(k) == {i \in DOMAIN batches : k \in DOMAIN batches[i].ops}
           HavingNow(k) == {i \in 1 .. n + 1 : k \in DOMAIN batches'[i].ops}
<1>4. BatchKeys' = BatchKeys \cup DOMAIN b.ops
  <2>1. ASSUME NEW k PROVE k \in BatchKeys' <=> k \in BatchKeys \/ k \in DOMAIN b.ops
    <3>1. k \in BatchKeys' <=> \E i \in 1 .. n + 1 : k \in DOMAIN batches'[i].ops
      BY <1>2 DEF BatchKeys
    <3>2. k \in BatchKeys <=> \E i \in 1 .. n : k \in DOMAIN batches[i].ops
      BY <1>2 DEF BatchKeys
    <3>3. \A i : i \in 1 .. n + 1 <=> i \in 1 .. n \/ i = n + 1
      BY <1>2
    <3> QED
      BY <1>2, <3>1, <3>2, <3>3
  <2> QED
    BY <2>1
<1>5. ASSUME NEW k \in DOMAIN b.ops
      PROVE  ManagedState(k)' = b.ops[k].value
  <2>1. n + 1 \in HavingNow(k) /\ \A j \in HavingNow(k) : j <= n + 1
    BY <1>2
  <2>2. \A i \in HavingNow(k) : (\A j \in HavingNow(k) : j <= i) => i = n + 1
    BY <1>2, <2>1
  <2>3. (CHOOSE i \in HavingNow(k) : \A j \in HavingNow(k) : j <= i) = n + 1
    BY <2>1, <2>2
  <2>4. ManagedState(k)' =
            batches'[CHOOSE i \in HavingNow(k) : \A j \in HavingNow(k) : j <= i].ops[k].value
    BY <1>2 DEF ManagedState
  <2> QED
    BY <1>2, <2>3, <2>4
<1>6. ASSUME NEW k \in BatchKeys \ DOMAIN b.ops
      PROVE  ManagedState(k)' = ManagedState(k)
  <2>1. HavingNow(k) = Having(k)
    BY <1>2
  <2>2. Having(k) \in SUBSET (1 .. n) /\ Having(k) # {}
    BY <1>2 DEF BatchKeys
  <2>3. PICK i \in Having(k) : \A j \in Having(k) : j <= i
    BY <1>2, <2>2, LastPosition
  <2> DEFINE last == CHOOSE i0 \in Having(k) : \A j \in Having(k) : j <= i0
  <2>4. last \in Having(k)
    BY <2>3
  <2>5. ManagedState(k) = batches[last].ops[k].value
    BY DEF ManagedState
  <2>6. ManagedState(k)' = batches'[last].ops[k].value
    <3>1. ManagedState(k)' =
              batches'[CHOOSE i0 \in HavingNow(k) : \A j \in HavingNow(k) : j <= i0].ops[k].value
      BY <1>2 DEF ManagedState
    <3> QED
      BY <2>1, <3>1
  <2> QED
    BY <1>2, <2>2, <2>4, <2>5, <2>6
<1> QED
  BY <1>3, <1>4, <1>5, <1>6

-----------------------------------------------------------------------------
(* The invariant is inductive: steps of the commands *)

USE DEF Goto, Returns, Leaves, Happens, Starts, NoteWrite, ledger, bounds

LEMMA IdleFields ==
    /\ DOMAIN Idle = {"at", "command", "spec", "before", "doc", "ops", "existed", "text",
                      "copied", "written", "todo", "changed", "skipped", "editedSinceCheck",
                      "editedSinceCopy"}
    /\ Idle.at = "idle" /\ Idle.command = "none" /\ Idle.before = NoFile
    /\ Idle.skipped = {}
  BY DEF Idle

\* What the three steps with a branch in them make of the command.
LEMMA StartedApply ==
    ASSUME ApplyStarts
    PROVE  \/ \E new : cmd' = [Idle EXCEPT !.at = "appeared", !.command = "apply", !.ops = new]
           \/ \E spec \in Specs :
                 cmd' = [Idle EXCEPT !.at = "load", !.command = "apply", !.spec = spec,
                                     !.before = file, !.existed = TRUE]
  BY DEF ApplyStarts

LEMMA ReloadedFile ==
    ASSUME Reload, cmd' # Idle
    PROVE  /\ cmd' = [cmd EXCEPT !.at = "undo", !.before = file, !.doc = file,
                                 !.todo = Len(batches)]
           /\ file # NoFile /\ UNCHANGED history
  BY DEF Reload

LEMMA UndoneBatch ==
    ASSUME UndoNext
    PROVE  \E forced \in ForcedKeys :
             LET ops == batches[cmd.todo].ops
                 hits == Hits(ops, cmd.doc, forced)
             IN  cmd' = [cmd EXCEPT
                           !.todo = cmd.todo - 1,
                           !.doc = Reverted(ops, cmd.doc, hits),
                           !.changed = cmd.changed \/ hits # {},
                           !.skipped = cmd.skipped \cup
                                       {k \in DOMAIN ops \ hits : ops[k].kind = "write"}]
  BY DEF UndoNext, UndoOne

LEMMA FinishedUndoing ==
    ASSUME FinishUndoing, cmd' # Idle
    PROVE  /\ cmd.changed
           /\ cmd' = [cmd EXCEPT
                        !.at = IF batches[1].existed \/ HasContent(cmd.doc)
                               THEN "copy rewritten" ELSE "copy deleted",
                        !.ops = StateOperations(cmd.doc, cmd.skipped)]
           /\ Happens(IF cmd.skipped = {} THEN {} ELSE {"skipped"})
  BY DEF FinishUndoing

LEMMA AfterUndoing ==
    ASSUME StepsOfCommands
    PROVE  /\ Reload => cmd'.at \in {"idle", "undo"}
           /\ UndoNext => cmd'.at = "undo"
           /\ FinishUndoing => cmd'.at \in {"idle", "copy rewritten", "copy deleted"}
<1>1. cmd' = Idle => cmd'.at = "idle"
  BY IdleFields
<1>2. Reload /\ cmd' # Idle => cmd'.at = "undo"
  BY ReloadedFile, IdleFields DEF StepsOfCommands
<1>3. UndoNext => cmd'.at = "undo"
  BY UndoneBatch, IdleFields, ZenonT(60) DEF StepsOfCommands, UndoNext
<1>4. FinishUndoing /\ cmd' # Idle => cmd'.at \in {"copy rewritten", "copy deleted"}
  BY FinishedUndoing, IdleFields DEF StepsOfCommands
<1> QED
  BY <1>1, <1>2, <1>3, <1>4

LEMMA CopiedForRollback ==
    ASSUME CopyForRollback, cmd' # Idle
    PROVE  \E at \in {"rewrite", "unlink"} :
             /\ at = IF cmd.at = "copy rewritten" THEN "rewrite" ELSE "unlink"
             /\ cmd' = [cmd EXCEPT !.at = at, !.copied = file, !.editedSinceCopy = FALSE]
             /\ UNCHANGED history
  BY DEF CopyForRollback

\* Every step belongs to the commands that reach it.
LEMMA CommandsStep ==
    ASSUME StepsOfCommands, Next
    PROVE  StepsOfCommands'
<1> USE IdleFields
    DEF StepsOfCommands, AllSteps, Preparing, Recording, Undoing, Removing, Rollbacks
<1>1. ASSUME ApplyStarts PROVE StepsOfCommands'
  <2>1. DOMAIN history' = DOMAIN history
    BY <1>1 DEF ApplyStarts
  <2>2. ASSUME NEW new, cmd' = [Idle EXCEPT !.at = "appeared", !.command = "apply", !.ops = new]
        PROVE  StepsOfCommands'
    BY <2>1, <2>2
  <2>3. ASSUME NEW spec, cmd' = [Idle EXCEPT !.at = "load", !.command = "apply", !.spec = spec,
                                          !.before = file, !.existed = TRUE]
        PROVE  StepsOfCommands'
    BY <2>1, <2>3
  <2> QED
    BY <1>1, <2>2, <2>3, ZenonT(60) DEF ApplyStarts
<1>2. ASSUME LoadAndPlan PROVE StepsOfCommands'
  <2>1. \/ cmd' = Idle
        \/ \E ops : cmd' = [cmd EXCEPT !.at = "recheck", !.doc = file, !.ops = ops]
    BY <1>2 DEF LoadAndPlan
  <2> QED
    BY <1>2, <2>1, ZenonT(60) DEF LoadAndPlan
<1>3. ASSUME Recheck PROVE StepsOfCommands'
  BY <1>3 DEF Recheck
<1>4. ASSUME ReadOriginalText PROVE StepsOfCommands'
  BY <1>4 DEF ReadOriginalText
<1>5. ASSUME CheckNotAppeared PROVE StepsOfCommands'
  BY <1>5 DEF CheckNotAppeared
<1>6. ASSUME LookAgain PROVE StepsOfCommands'
  BY <1>6 DEF LookAgain
<1>7. ASSUME CopyForRecovery PROVE StepsOfCommands'
  <2>1. CASE cmd' = [cmd EXCEPT !.at = "write"]
    BY <1>7, <2>1 DEF CopyForRecovery
  <2>2. CASE cmd' = [cmd EXCEPT !.at = "list", !.copied = file, !.editedSinceCopy = FALSE]
    BY <1>7, <2>2 DEF CopyForRecovery
  <2> QED
    BY <1>7, <2>1, <2>2 DEF CopyForRecovery
<1>8. ASSUME ListRecoveryBackup PROVE StepsOfCommands'
  BY <1>8 DEF ListRecoveryBackup
<1>9. ASSUME WriteDocument PROVE StepsOfCommands'
  BY <1>9 DEF WriteDocument
<1>10. ASSUME ReadBack PROVE StepsOfCommands'
  <2>1. cmd.at = "readback" /\ DOMAIN history' = DOMAIN history
    BY <1>10 DEF ReadBack
  <2>2. CASE cmd' = Idle
    BY <2>1, <2>2
  <2>3. ASSUME NEW at \in {"baseline", "record"},
               cmd' = [cmd EXCEPT !.written = file, !.at = at],
               at = IF cmd.command = "apply" THEN "baseline" ELSE "record"
        PROVE  StepsOfCommands'
    BY <2>1, <2>3
  <2> QED
    BY <1>10, <2>2, <2>3 DEF ReadBack
<1>11. ASSUME RecordBaseline PROVE StepsOfCommands'
  BY <1>11 DEF RecordBaseline
<1>12. ASSUME RecordCheckpoint PROVE StepsOfCommands'
  BY <1>12 DEF RecordCheckpoint
<1>13. ASSUME RecordBatch PROVE StepsOfCommands'
  BY <1>13 DEF RecordBatch
<1>14. ASSUME RollbackStarts("rollback") PROVE StepsOfCommands'
  BY <1>14 DEF RollbackStarts
<1>15. ASSUME RollbackStarts("original") PROVE StepsOfCommands'
  BY <1>15 DEF RollbackStarts
<1>16. ASSUME RestoreCheckpoint PROVE StepsOfCommands'
  BY <1>16 DEF RestoreCheckpoint
<1>17. ASSUME Reload PROVE StepsOfCommands'
  <2>1. cmd.at = "reload" /\ UNCHANGED history
    BY <1>17 DEF Reload
  <2>2. CASE cmd' = Idle
    BY <2>1, <2>2
  <2>3. CASE cmd' # Idle
    <3>1. /\ cmd' = [cmd EXCEPT !.at = "undo", !.before = file, !.doc = file,
                                !.todo = Len(batches)]
          /\ UNCHANGED history
      BY <1>17, <2>3, ReloadedFile
    <3>2. cmd'.at = "undo" /\ cmd'.command = cmd.command /\ DOMAIN cmd' = DOMAIN cmd
      BY <3>1
    <3> QED
      BY <2>1, <3>1, <3>2
  <2> QED
    BY <2>2, <2>3
<1>17a. ASSUME UndoNext PROVE StepsOfCommands'
  <2>1. cmd.at = "undo" /\ UNCHANGED history
    BY <1>17a DEF UndoNext, UndoOne
  <2>2. cmd'.at = cmd.at /\ cmd'.command = cmd.command /\ DOMAIN cmd' = DOMAIN cmd
    BY <1>17a, UndoneBatch, ZenonT(60)
  <2> QED
    BY <2>1, <2>2
<1>17b. ASSUME FinishUndoing PROVE StepsOfCommands'
  <2>1. cmd.at = "undo" /\ DOMAIN history' = DOMAIN history
    BY <1>17b DEF FinishUndoing
  <2>2. CASE cmd' = Idle
    BY <2>1, <2>2
  <2>3. ASSUME NEW at \in {"copy rewritten", "copy deleted"}, NEW ops,
               cmd' = [cmd EXCEPT !.at = at, !.ops = ops]
        PROVE  StepsOfCommands'
    BY <2>1, <2>3
  <2>4. CASE cmd' # Idle
    BY <1>17b, <2>3, <2>4, FinishedUndoing
  <2> QED
    BY <2>2, <2>4
<1>18. ASSUME CopyForRollback PROVE StepsOfCommands'
  <2>1. cmd.at \in {"copy rewritten", "copy deleted"} /\ DOMAIN history' = DOMAIN history
    BY <1>18 DEF CopyForRollback
  <2>2. CASE cmd' = Idle
    BY <2>1, <2>2
  <2>3. ASSUME NEW at \in {"rewrite", "unlink"},
               cmd' = [cmd EXCEPT !.at = at, !.copied = file, !.editedSinceCopy = FALSE],
               at = IF cmd.at = "copy rewritten" THEN "rewrite" ELSE "unlink"
        PROVE  StepsOfCommands'
    BY <2>1, <2>3
  <2> QED
    BY <1>18, <2>2, <2>3 DEF CopyForRollback
<1>19. ASSUME RollbackRewrites PROVE StepsOfCommands'
  BY <1>19 DEF RollbackRewrites
<1>20. ASSUME RollbackDeletes PROVE StepsOfCommands'
  BY <1>20, ZenonT(60) DEF RollbackDeletes
<1>21. ASSUME RecordRollback PROVE StepsOfCommands'
  BY <1>21 DEF RecordRollback
<1>22. ASSUME OriginalStarts PROVE StepsOfCommands'
  BY <1>22 DEF OriginalStarts
<1>23. ASSUME RecordRemoval PROVE StepsOfCommands'
  BY <1>23 DEF RecordRemoval
<1>24. ASSUME UserEdits PROVE StepsOfCommands'
  BY <1>24 DEF UserEdits
<1>25. ASSUME Crash PROVE StepsOfCommands'
  BY <1>25 DEF Crash
<1> QED
  BY <1>1, <1>2, <1>3, <1>4, <1>5, <1>6, <1>7, <1>8, <1>9, <1>10, <1>11, <1>12, <1>13, <1>14, <1>15, <1>16, <1>17, <1>17a, <1>17b, <1>18, <1>19, <1>20, <1>21, <1>22, <1>23, <1>24, <1>25 DEF Next, Command

-----------------------------------------------------------------------------
(* The invariant is inductive: copies and plans *)

\* What is about to be overwritten has been copied or was edited since.
LEMMA CopiedStep ==
    ASSUME StepsOfCommands, CopiedBeforeWrite, Next
    PROVE  CopiedBeforeWrite'
<1> USE IdleFields DEF StepsOfCommands, CopiedBeforeWrite
<1>1. ASSUME ApplyStarts PROVE CopiedBeforeWrite'
  <2>1. CASE \E new : cmd' = [Idle EXCEPT !.at = "appeared", !.command = "apply", !.ops = new]
    BY <2>1
  <2>2. CASE \E spec \in Specs :
               cmd' = [Idle EXCEPT !.at = "load", !.command = "apply", !.spec = spec,
                                   !.before = file, !.existed = TRUE]
    BY <2>2
  <2> QED
    BY <1>1, <2>1, <2>2, StartedApply
<1>2. ASSUME LoadAndPlan PROVE CopiedBeforeWrite'
  BY <1>2 DEF LoadAndPlan
<1>3. ASSUME Recheck PROVE CopiedBeforeWrite'
  BY <1>3 DEF Recheck
<1>4. ASSUME ReadOriginalText PROVE CopiedBeforeWrite'
  BY <1>4 DEF ReadOriginalText
<1>5. ASSUME CheckNotAppeared PROVE CopiedBeforeWrite'
  BY <1>5 DEF CheckNotAppeared
<1>6. ASSUME LookAgain PROVE CopiedBeforeWrite'
  BY <1>6 DEF LookAgain
<1>7. ASSUME CopyForRecovery PROVE CopiedBeforeWrite'
  BY <1>7, ZenonT(60) DEF CopyForRecovery
<1>8. ASSUME ListRecoveryBackup PROVE CopiedBeforeWrite'
  BY <1>8 DEF ListRecoveryBackup
<1>9. ASSUME WriteDocument PROVE CopiedBeforeWrite'
  BY <1>9 DEF WriteDocument
<1>10. ASSUME ReadBack PROVE CopiedBeforeWrite'
  BY <1>10, ZenonT(60) DEF ReadBack
<1>11. ASSUME RecordBaseline PROVE CopiedBeforeWrite'
  BY <1>11 DEF RecordBaseline
<1>12. ASSUME RecordCheckpoint PROVE CopiedBeforeWrite'
  BY <1>12 DEF RecordCheckpoint
<1>13. ASSUME RecordBatch PROVE CopiedBeforeWrite'
  BY <1>13 DEF RecordBatch
<1>14. ASSUME RollbackStarts("rollback") PROVE CopiedBeforeWrite'
  BY <1>14 DEF RollbackStarts
<1>15. ASSUME RollbackStarts("original") PROVE CopiedBeforeWrite'
  BY <1>15 DEF RollbackStarts
<1>16. ASSUME RestoreCheckpoint PROVE CopiedBeforeWrite'
  BY <1>16 DEF RestoreCheckpoint
<1>17. ASSUME Reload PROVE CopiedBeforeWrite'
  BY <1>17, AfterUndoing
<1>17a. ASSUME UndoNext PROVE CopiedBeforeWrite'
  BY <1>17a, AfterUndoing
<1>17b. ASSUME FinishUndoing PROVE CopiedBeforeWrite'
  BY <1>17b, AfterUndoing
<1>18. ASSUME CopyForRollback PROVE CopiedBeforeWrite'
  BY <1>18, ZenonT(60) DEF CopyForRollback
<1>19. ASSUME RollbackRewrites PROVE CopiedBeforeWrite'
  BY <1>19 DEF RollbackRewrites
<1>20. ASSUME RollbackDeletes PROVE CopiedBeforeWrite'
  BY <1>20 DEF RollbackDeletes
<1>21. ASSUME RecordRollback PROVE CopiedBeforeWrite'
  BY <1>21 DEF RecordRollback
<1>22. ASSUME OriginalStarts PROVE CopiedBeforeWrite'
  BY <1>22 DEF OriginalStarts
<1>23. ASSUME RecordRemoval PROVE CopiedBeforeWrite'
  BY <1>23 DEF RecordRemoval
<1>24. ASSUME UserEdits PROVE CopiedBeforeWrite'
  BY <1>24 DEF UserEdits
<1>25. ASSUME Crash PROVE CopiedBeforeWrite'
  BY <1>25 DEF Crash
<1> QED
  BY <1>1, <1>2, <1>3, <1>4, <1>5, <1>6, <1>7, <1>8, <1>9, <1>10, <1>11, <1>12, <1>13, <1>14, <1>15, <1>16, <1>17, <1>17a, <1>17b, <1>18, <1>19, <1>20, <1>21, <1>22, <1>23, <1>24, <1>25 DEF Next, Command

\* What is about to be overwritten is what the plan was made for, or was edited since.
LEMMA PlannedStep ==
    ASSUME StepsOfCommands, PlannedBeforeWrite, Next
    PROVE  PlannedBeforeWrite'
<1> USE IdleFields DEF StepsOfCommands, PlannedBeforeWrite
<1>1. ASSUME ApplyStarts PROVE PlannedBeforeWrite'
  <2>1. CASE \E new : cmd' = [Idle EXCEPT !.at = "appeared", !.command = "apply", !.ops = new]
    BY <2>1
  <2>2. CASE \E spec \in Specs :
               cmd' = [Idle EXCEPT !.at = "load", !.command = "apply", !.spec = spec,
                                   !.before = file, !.existed = TRUE]
    BY <2>2
  <2> QED
    BY <1>1, <2>1, <2>2, StartedApply
<1>2. ASSUME LoadAndPlan PROVE PlannedBeforeWrite'
  BY <1>2, ZenonT(60) DEF LoadAndPlan
<1>3. ASSUME Recheck PROVE PlannedBeforeWrite'
  BY <1>3 DEF Recheck
<1>4. ASSUME ReadOriginalText PROVE PlannedBeforeWrite'
  BY <1>4 DEF ReadOriginalText
<1>5. ASSUME CheckNotAppeared PROVE PlannedBeforeWrite'
  BY <1>5 DEF CheckNotAppeared
<1>6. ASSUME LookAgain PROVE PlannedBeforeWrite'
  BY <1>6 DEF LookAgain
<1>7. ASSUME CopyForRecovery PROVE PlannedBeforeWrite'
  <2>1. /\ cmd.at = "copy" /\ file' = file
        /\ \/ cmd' = [cmd EXCEPT !.at = "write"]
           \/ cmd' = [cmd EXCEPT !.at = "list", !.copied = file, !.editedSinceCopy = FALSE]
    BY <1>7 DEF CopyForRecovery, Goto
  <2>2. cmd'.before = cmd.before /\ cmd'.editedSinceCheck = cmd.editedSinceCheck
    BY <2>1, ZenonT(60)
  <2>3. cmd'.at \in {"write", "list"}
    BY <2>1, ZenonT(60)
  <2> QED
    BY <2>1, <2>2, <2>3
<1>8. ASSUME ListRecoveryBackup PROVE PlannedBeforeWrite'
  BY <1>8 DEF ListRecoveryBackup
<1>9. ASSUME WriteDocument PROVE PlannedBeforeWrite'
  BY <1>9 DEF WriteDocument
<1>10. ASSUME ReadBack PROVE PlannedBeforeWrite'
  <2>1. cmd'.at \in {"idle", "baseline", "record"}
    <3>1. CASE cmd' = Idle
      BY <3>1
    <3>2. CASE cmd' # Idle
      BY <1>10, <3>2 DEF ReadBack
    <3> QED
      BY <3>1, <3>2
  <2> QED
    BY <2>1
<1>11. ASSUME RecordBaseline PROVE PlannedBeforeWrite'
  BY <1>11 DEF RecordBaseline
<1>12. ASSUME RecordCheckpoint PROVE PlannedBeforeWrite'
  BY <1>12 DEF RecordCheckpoint
<1>13. ASSUME RecordBatch PROVE PlannedBeforeWrite'
  BY <1>13 DEF RecordBatch
<1>14. ASSUME RollbackStarts("rollback") PROVE PlannedBeforeWrite'
  BY <1>14 DEF RollbackStarts
<1>15. ASSUME RollbackStarts("original") PROVE PlannedBeforeWrite'
  BY <1>15 DEF RollbackStarts
<1>16. ASSUME RestoreCheckpoint PROVE PlannedBeforeWrite'
  BY <1>16 DEF RestoreCheckpoint
<1>17. ASSUME Reload PROVE PlannedBeforeWrite'
  BY <1>17, AfterUndoing
<1>17a. ASSUME UndoNext PROVE PlannedBeforeWrite'
  BY <1>17a, AfterUndoing
<1>17b. ASSUME FinishUndoing PROVE PlannedBeforeWrite'
  BY <1>17b, AfterUndoing
<1>18. ASSUME CopyForRollback PROVE PlannedBeforeWrite'
  <2>1. CASE cmd' = Idle
    BY <2>1
  <2>2. CASE cmd' # Idle
    <3>1. cmd'.at \in {"rewrite", "unlink"}
      BY <1>18, <2>2, CopiedForRollback, ZenonT(60)
    <3> QED
      BY <3>1
  <2> QED
    BY <2>1, <2>2
<1>19. ASSUME RollbackRewrites PROVE PlannedBeforeWrite'
  BY <1>19 DEF RollbackRewrites
<1>20. ASSUME RollbackDeletes PROVE PlannedBeforeWrite'
  BY <1>20 DEF RollbackDeletes
<1>21. ASSUME RecordRollback PROVE PlannedBeforeWrite'
  BY <1>21 DEF RecordRollback
<1>22. ASSUME OriginalStarts PROVE PlannedBeforeWrite'
  BY <1>22 DEF OriginalStarts
<1>23. ASSUME RecordRemoval PROVE PlannedBeforeWrite'
  BY <1>23 DEF RecordRemoval
<1>24. ASSUME UserEdits PROVE PlannedBeforeWrite'
  BY <1>24 DEF UserEdits
<1>25. ASSUME Crash PROVE PlannedBeforeWrite'
  BY <1>25 DEF Crash
<1> QED
  BY <1>1, <1>2, <1>3, <1>4, <1>5, <1>6, <1>7, <1>8, <1>9, <1>10, <1>11, <1>12, <1>13, <1>14, <1>15, <1>16, <1>17, <1>17a, <1>17b, <1>18, <1>19, <1>20, <1>21, <1>22, <1>23, <1>24, <1>25 DEF Next, Command

-----------------------------------------------------------------------------
(* The invariant is inductive: the ledger and the file *)

\* What is read from the batches changes with them only.
LEMMA SameBatches ==
    ASSUME UNCHANGED batches
    PROVE  /\ BatchKeys' = BatchKeys
           /\ \A k : ManagedState(k)' = ManagedState(k)
  BY DEF BatchKeys, ManagedState

\* A plan mentions only keys of the spec.
LEMMA PlannedKeys ==
    ASSUME NEW doc, NEW spec \in Specs
    PROVE  DOMAIN Plan(doc, spec) \subseteq ManagedKeys
  BY KeysAssumption DEF Plan

\* Plans and batches mention only keys that specs may mention.
LEMMA ManagedOnlyStep ==
    ASSUME StepsOfCommands, ManagedOnly, RollbackLedger, Next
    PROVE  ManagedOnly'
<1> USE IdleFields, SameBatches DEF StepsOfCommands, ManagedOnly, Preparing, Recording
<1>1. ASSUME ApplyStarts PROVE ManagedOnly'
  <2>1. UNCHANGED batches
    BY <1>1 DEF ApplyStarts
  <2>2. CASE \E spec \in Specs :
               cmd' = [Idle EXCEPT !.at = "load", !.command = "apply", !.spec = spec,
                                   !.before = file, !.existed = TRUE]
    BY <2>1, <2>2
  <2>3. CASE ~ \E spec \in Specs :
               cmd' = [Idle EXCEPT !.at = "load", !.command = "apply", !.spec = spec,
                                   !.before = file, !.existed = TRUE]
    <3>1. PICK spec \in Specs :
              cmd' = [Idle EXCEPT !.at = "appeared", !.command = "apply", !.ops = Plan(Empty, spec)]
      BY <1>1, <2>3 DEF ApplyStarts
    <3>2. DOMAIN Plan(Empty, spec) \subseteq ManagedKeys
      BY PlannedKeys
    <3> QED
      BY <2>1, <3>1, <3>2
  <2> QED
    BY <2>2, <2>3
<1>2. ASSUME LoadAndPlan PROVE ManagedOnly'
  <2>1. UNCHANGED batches /\ cmd.at = "load"
    BY <1>2 DEF LoadAndPlan
  <2>2. CASE cmd' = Idle
    BY <2>1, <2>2
  <2>3. CASE cmd' = [cmd EXCEPT !.at = "recheck", !.doc = file, !.ops = Plan(file, cmd.spec)]
    <3>1. DOMAIN Plan(file, cmd.spec) \subseteq ManagedKeys
      BY <2>1, PlannedKeys
    <3> QED
      BY <2>1, <2>3, <3>1
  <2> QED
    BY <1>2, <2>2, <2>3 DEF LoadAndPlan
<1>3. ASSUME Recheck PROVE ManagedOnly'
  BY <1>3 DEF Recheck
<1>4. ASSUME ReadOriginalText PROVE ManagedOnly'
  BY <1>4 DEF ReadOriginalText
<1>5. ASSUME CheckNotAppeared PROVE ManagedOnly'
  BY <1>5 DEF CheckNotAppeared
<1>6. ASSUME LookAgain PROVE ManagedOnly'
  BY <1>6 DEF LookAgain
<1>7. ASSUME CopyForRecovery PROVE ManagedOnly'
  BY <1>7, ZenonT(60) DEF CopyForRecovery
<1>8. ASSUME ListRecoveryBackup PROVE ManagedOnly'
  BY <1>8 DEF ListRecoveryBackup
<1>9. ASSUME WriteDocument PROVE ManagedOnly'
  BY <1>9 DEF WriteDocument
<1>10. ASSUME ReadBack PROVE ManagedOnly'
  BY <1>10, ZenonT(60) DEF ReadBack
<1>11. ASSUME RecordBaseline PROVE ManagedOnly'
  BY <1>11 DEF RecordBaseline
<1>12. ASSUME RecordCheckpoint PROVE ManagedOnly'
  BY <1>12 DEF RecordCheckpoint
<1>13. ASSUME RecordBatch PROVE ManagedOnly'
  <2>1. PICK B : batches \in Seq(B)
    OBVIOUS
  <2> DEFINE b == [ops |-> cmd.ops, existed |-> cmd.existed]
  <2>2. batches' = Append(batches, b) /\ b.ops = cmd.ops /\ cmd' = Idle
    BY <1>13 DEF RecordBatch
  <2>3. (\E C : batches' \in Seq(C)) /\ BatchKeys' = BatchKeys \cup DOMAIN cmd.ops
    <3> HIDE DEF b
    <3> QED
      BY <2>1, <2>2, AppendedBatch
  <2>4. DOMAIN cmd.ops \subseteq ManagedKeys
    BY <1>13 DEF RecordBatch
  <2> QED
    BY <2>2, <2>3, <2>4
<1>14. ASSUME RollbackStarts("rollback") PROVE ManagedOnly'
  BY <1>14 DEF RollbackStarts
<1>15. ASSUME RollbackStarts("original") PROVE ManagedOnly'
  BY <1>15 DEF RollbackStarts
<1>16. ASSUME RestoreCheckpoint PROVE ManagedOnly'
  BY <1>16 DEF RestoreCheckpoint
<1>17. ASSUME Reload PROVE ManagedOnly'
  <2>1. UNCHANGED batches
    BY <1>17 DEF Reload
  <2> QED
    BY <1>17, <2>1, AfterUndoing
<1>17a. ASSUME UndoNext PROVE ManagedOnly'
  <2>1. UNCHANGED batches
    BY <1>17a DEF UndoNext, UndoOne
  <2> QED
    BY <1>17a, <2>1, AfterUndoing
<1>17b. ASSUME FinishUndoing PROVE ManagedOnly'
  <2>1. UNCHANGED batches
    BY <1>17b DEF FinishUndoing
  <2> QED
    BY <1>17b, <2>1, AfterUndoing
<1>18. ASSUME CopyForRollback PROVE ManagedOnly'
  <2>1. UNCHANGED batches
    BY <1>18 DEF CopyForRollback
  <2>2. CASE cmd' = Idle
    BY <2>1, <2>2
  <2>3. CASE cmd' # Idle
    <3>1. cmd'.at \in {"rewrite", "unlink"}
      BY <1>18, <2>3, CopiedForRollback
    <3> QED
      BY <2>1, <3>1
  <2> QED
    BY <2>2, <2>3
<1>19. ASSUME RollbackRewrites PROVE ManagedOnly'
  <2>1. UNCHANGED batches /\ cmd' = [cmd EXCEPT !.at = "readback"] /\ cmd.at = "rewrite"
    BY <1>19 DEF RollbackRewrites
  <2>2. DOMAIN cmd.ops \subseteq BatchKeys
    BY <2>1 DEF RollbackLedger, RecordsDocument, Undoing
  <2> QED
    BY <2>1, <2>2
<1>20. ASSUME RollbackDeletes PROVE ManagedOnly'
  BY <1>20 DEF RollbackDeletes
<1>21. ASSUME RecordRollback PROVE ManagedOnly'
  <2>1. cmd' = Idle /\ cmd.at = "record" /\ cmd.command \in Rollbacks
    BY <1>21 DEF RecordRollback, Rollbacks, Undoing, Removing
  <2>2. CASE UNCHANGED batches
    BY <2>1, <2>2
  <2>3. CASE batches' # batches
    <3>1. PICK B : batches \in Seq(B)
      OBVIOUS
    <3> DEFINE b == [ops |-> cmd.ops, existed |-> batches[1].existed]
    <3>2. batches' = Append(batches, b) /\ b.ops = cmd.ops
      BY <1>21, <2>3 DEF RecordRollback
    <3>3. (\E C : batches' \in Seq(C)) /\ BatchKeys' = BatchKeys \cup DOMAIN cmd.ops
      <4> HIDE DEF b
      <4> QED
        BY <3>1, <3>2, AppendedBatch
    <3>4. DOMAIN cmd.ops \subseteq BatchKeys
      BY <2>1 DEF RollbackLedger, RecordsDocument
    <3> QED
      BY <2>1, <3>3, <3>4
  <2> QED
    BY <2>2, <2>3
<1>22. ASSUME OriginalStarts PROVE ManagedOnly'
  BY <1>22 DEF OriginalStarts
<1>23. ASSUME RecordRemoval PROVE ManagedOnly'
  BY <1>23 DEF RecordRemoval
<1>24. ASSUME UserEdits PROVE ManagedOnly'
  BY <1>24 DEF UserEdits
<1>25. ASSUME Crash PROVE ManagedOnly'
  BY <1>25 DEF Crash
<1> QED
  BY <1>1, <1>2, <1>3, <1>4, <1>5, <1>6, <1>7, <1>8, <1>9, <1>10, <1>11, <1>12, <1>13, <1>14, <1>15, <1>16, <1>17, <1>17a, <1>17b, <1>18, <1>19, <1>20, <1>21, <1>22, <1>23, <1>24, <1>25 DEF Next, Command

\* A rollback keeps the operations that it is going to record.
LEMMA RollbackLedgerStep ==
    ASSUME StepsOfCommands, ManagedOnly, RollbackLedger, Next
    PROVE  RollbackLedger'
<1> USE IdleFields, SameBatches
    DEF StepsOfCommands, RollbackLedger, RecordsDocument, Preparing, Recording, Undoing,
        Removing, Rollbacks
<1>1. ASSUME ApplyStarts PROVE RollbackLedger'
  BY <1>1, ZenonT(60) DEF ApplyStarts
<1>2. ASSUME LoadAndPlan PROVE RollbackLedger'
  BY <1>2, ZenonT(60) DEF LoadAndPlan
<1>3. ASSUME Recheck PROVE RollbackLedger'
  BY <1>3 DEF Recheck
<1>4. ASSUME ReadOriginalText PROVE RollbackLedger'
  BY <1>4 DEF ReadOriginalText
<1>5. ASSUME CheckNotAppeared PROVE RollbackLedger'
  BY <1>5 DEF CheckNotAppeared
<1>6. ASSUME LookAgain PROVE RollbackLedger'
  BY <1>6 DEF LookAgain
<1>7. ASSUME CopyForRecovery PROVE RollbackLedger'
  BY <1>7, ZenonT(60) DEF CopyForRecovery
<1>8. ASSUME ListRecoveryBackup PROVE RollbackLedger'
  BY <1>8 DEF ListRecoveryBackup
<1>9. ASSUME WriteDocument PROVE RollbackLedger'
  BY <1>9 DEF WriteDocument
<1>10. ASSUME ReadBack PROVE RollbackLedger'
  <2>1. UNCHANGED batches /\ cmd.at = "readback"
    BY <1>10 DEF ReadBack
  <2>2. CASE cmd' = Idle
    BY <2>2
  <2>3. CASE cmd' # Idle
    <3>1. UNCHANGED history
      BY <1>10, <2>3 DEF ReadBack
    <3>2. /\ cmd'.ops = cmd.ops /\ cmd'.doc = cmd.doc /\ cmd'.skipped = cmd.skipped
          /\ cmd'.command = cmd.command
          /\ cmd'.at \in {"baseline", "record"}
      BY <1>10, <2>3, ZenonT(60) DEF ReadBack
    <3> QED
      BY <2>1, <3>1, <3>2, ZenonT(60)
  <2> QED
    BY <2>2, <2>3
<1>11. ASSUME RecordBaseline PROVE RollbackLedger'
  BY <1>11 DEF RecordBaseline
<1>12. ASSUME RecordCheckpoint PROVE RollbackLedger'
  BY <1>12 DEF RecordCheckpoint
<1>13. ASSUME RecordBatch PROVE RollbackLedger'
  BY <1>13 DEF RecordBatch
<1>14. ASSUME RollbackStarts("rollback") PROVE RollbackLedger'
  BY <1>14 DEF RollbackStarts
<1>15. ASSUME RollbackStarts("original") PROVE RollbackLedger'
  BY <1>15 DEF RollbackStarts
<1>16. ASSUME RestoreCheckpoint PROVE RollbackLedger'
  BY <1>16 DEF RestoreCheckpoint
<1>17. ASSUME Reload PROVE RollbackLedger'
  BY <1>17, AfterUndoing
<1>17a. ASSUME UndoNext PROVE RollbackLedger'
  BY <1>17a, AfterUndoing
<1>17b. ASSUME FinishUndoing PROVE RollbackLedger'
  <2>1. UNCHANGED batches /\ cmd.at = "undo"
    BY <1>17b DEF FinishUndoing
  <2>2. CASE cmd' = Idle
    BY <2>2
  <2>3. CASE cmd' # Idle
    <3>1. /\ cmd' = [cmd EXCEPT
                       !.at = IF batches[1].existed \/ HasContent(cmd.doc)
                              THEN "copy rewritten" ELSE "copy deleted",
                       !.ops = StateOperations(cmd.doc, cmd.skipped)]
          /\ Happens(IF cmd.skipped = {} THEN {} ELSE {"skipped"})
      BY <1>17b, <2>3, FinishedUndoing
    <3>2. /\ cmd'.ops = StateOperations(cmd.doc, cmd.skipped)
          /\ cmd'.doc = cmd.doc /\ cmd'.skipped = cmd.skipped
          /\ cmd'.at \in {"copy rewritten", "copy deleted"}
          /\ cmd'.at = "copy deleted" => ~HasContent(cmd.doc)
      BY <3>1
    <3>3. cmd.skipped # {} => "skipped" \in history'.past
      BY <3>1
    <3>4. /\ DOMAIN cmd'.ops = BatchKeys \ cmd.skipped
          /\ \A k \in DOMAIN cmd'.ops : cmd'.ops[k].value = cmd.doc[k]
      <4> DEFINE ops == StateOperations(cmd.doc, cmd.skipped)
      <4>1. DOMAIN ops = BatchKeys \ cmd.skipped
        BY DEF StateOperations
      <4>2. \A k \in DOMAIN ops : ops[k].value = cmd.doc[k]
        BY DEF StateOperations
      <4> HIDE DEF ops
      <4>3. cmd'.ops = ops
        BY <3>2 DEF ops
      <4> QED
        BY <4>1, <4>2, <4>3
    <3>5. BatchKeys' = BatchKeys
      BY <2>1
    <3> HIDE DEF StepsOfCommands
    <3> QED
      BY <3>2, <3>3, <3>4, <3>5
  <2> QED
    BY <2>2, <2>3
<1>18. ASSUME CopyForRollback PROVE RollbackLedger'
  <2>1. UNCHANGED batches /\ cmd.at \in {"copy rewritten", "copy deleted"}
    BY <1>18 DEF CopyForRollback
  <2>2. CASE cmd' = Idle
    BY <2>2
  <2>3. CASE cmd' # Idle
    <3>1. PICK at \in {"rewrite", "unlink"} :
              /\ at = IF cmd.at = "copy rewritten" THEN "rewrite" ELSE "unlink"
              /\ cmd' = [cmd EXCEPT !.at = at, !.copied = file, !.editedSinceCopy = FALSE]
              /\ UNCHANGED history
      BY <1>18, <2>3, CopiedForRollback
    <3>2. /\ cmd'.ops = cmd.ops /\ cmd'.doc = cmd.doc /\ cmd'.skipped = cmd.skipped
          /\ cmd'.command = cmd.command /\ cmd'.at = at
      BY <3>1
    <3> QED
      BY <2>1, <3>1, <3>2, ZenonT(60)
  <2> QED
    BY <2>2, <2>3
<1>19. ASSUME RollbackRewrites PROVE RollbackLedger'
  <2>1. /\ UNCHANGED batches /\ cmd.at = "rewrite" /\ cmd' = [cmd EXCEPT !.at = "readback"]
        /\ file' = cmd.doc
    BY <1>19 DEF RollbackRewrites
  <2>2. \A k \in BatchKeys : history'.left[k] = cmd.doc[k]
    <3>1. history' = [history EXCEPT
              !.origin = IF @ = None THEN file ELSE @,
              !.left = [k \in ManagedKeys |-> IF k \in BatchKeys THEN file'[k] ELSE @[k]]]
      BY <1>19 DEF RollbackRewrites
    <3>2. history'.left = [k \in ManagedKeys |-> IF k \in BatchKeys THEN file'[k]
                                                 ELSE history.left[k]]
      BY <3>1
    <3> QED
      BY <2>1, <3>2 DEF ManagedOnly
  <2>3. history'.past = history.past
    BY <1>19 DEF RollbackRewrites
  <2>4. /\ cmd'.ops = cmd.ops /\ cmd'.doc = cmd.doc /\ cmd'.skipped = cmd.skipped
        /\ cmd'.command = cmd.command /\ cmd'.at = "readback"
    BY <2>1
  <2> QED
    BY <2>1, <2>2, <2>3, <2>4
<1>20. ASSUME RollbackDeletes PROVE RollbackLedger'
  <2>1. UNCHANGED batches /\ cmd.at = "unlink"
    BY <1>20 DEF RollbackDeletes
  <2>2. CASE cmd' = Idle
    BY <2>2
  <2>3. CASE cmd' # Idle
    <3>1. /\ cmd' = [cmd EXCEPT !.at = "record"]
          /\ history' = [history EXCEPT
                 !.origin = IF @ = None THEN file ELSE @,
                 !.left = [k \in ManagedKeys |-> IF k \in BatchKeys THEN Empty[k] ELSE @[k]]]
      BY <1>20, <2>3 DEF RollbackDeletes
    <3>2. /\ cmd'.ops = cmd.ops /\ cmd'.doc = cmd.doc /\ cmd'.skipped = cmd.skipped
          /\ cmd'.command = cmd.command /\ cmd'.at = "record"
      BY <3>1
    <3>3. history'.past = history.past
      BY <3>1
    <3>4. ASSUME cmd.command \in Rollbacks, NEW k \in BatchKeys
          PROVE  history'.left[k] = cmd.doc[k]
      <4>1. history'.left = [i \in ManagedKeys |-> IF i \in BatchKeys THEN Empty[i]
                                                   ELSE history.left[i]]
        BY <3>1
      <4>2. k \in ManagedKeys /\ k \in Keys
        BY KeysAssumption DEF ManagedOnly
      <4>3. history'.left[k] = Absent
        BY <4>1, <4>2 DEF Empty
      <4>4. cmd.doc[k] = Absent
        BY <2>1, <3>4, <4>2 DEF HasContent
      <4> QED
        BY <4>3, <4>4
    <3> QED
      BY <2>1, <3>2, <3>3, <3>4
  <2> QED
    BY <2>2, <2>3
<1>21. ASSUME RecordRollback PROVE RollbackLedger'
  BY <1>21 DEF RecordRollback
<1>22. ASSUME OriginalStarts PROVE RollbackLedger'
  BY <1>22 DEF OriginalStarts
<1>23. ASSUME RecordRemoval PROVE RollbackLedger'
  BY <1>23 DEF RecordRemoval
<1>24. ASSUME UserEdits PROVE RollbackLedger'
  <2>1. /\ UNCHANGED batches
        /\ cmd' = IF cmd.at = "idle" THEN cmd
                  ELSE [cmd EXCEPT !.editedSinceCheck = TRUE, !.editedSinceCopy = TRUE]
    BY <1>24 DEF UserEdits
  <2>2. history'.left = history.left /\ history.past \subseteq history'.past
    <3>1. PICK new \in UserVersions :
              history' = [history EXCEPT !.mine = IF new = NoFile THEN Empty ELSE new,
                                         !.past = @ \cup IF Meddles(new) THEN {"meddled"} ELSE {}]
      BY <1>24 DEF UserEdits
    <3> QED
      BY <3>1
  <2>3. /\ cmd'.ops = cmd.ops /\ cmd'.doc = cmd.doc /\ cmd'.skipped = cmd.skipped
        /\ cmd'.command = cmd.command /\ cmd'.at = cmd.at
    <3>1. CASE cmd.at = "idle"
      BY <2>1, <3>1
    <3>2. CASE cmd.at # "idle"
      BY <2>1, <3>2
    <3> QED
      BY <3>1, <3>2
  <2>4. BatchKeys' = BatchKeys
    BY <2>1
  <2> HIDE DEF StepsOfCommands
  <2> QED
    BY <2>2, <2>3, <2>4
<1>25. ASSUME Crash PROVE RollbackLedger'
  BY <1>25 DEF Crash
<1> QED
  BY <1>1, <1>2, <1>3, <1>4, <1>5, <1>6, <1>7, <1>8, <1>9, <1>10, <1>11, <1>12, <1>13, <1>14, <1>15, <1>16, <1>17, <1>17a, <1>17b, <1>18, <1>19, <1>20, <1>21, <1>22, <1>23, <1>24, <1>25 DEF Next, Command

\* The batches say what was last written, whenever no command is between its write
\* and its records.
LEMMA ApplyLedgerStep ==
    ASSUME StepsOfCommands, ManagedOnly, ApplyLedger, RollbackLedger, Next
    PROVE  ApplyLedger'
<1> USE IdleFields, SameBatches
    DEF StepsOfCommands, ApplyLedger, Clean, Matches, Preparing, Recording, Undoing, Removing,
        Rollbacks
<1> DEFINE Before == {"idle"} \cup Preparing \cup Undoing \cup Removing
\* Steps that write neither the file's keys nor the batches.
<1>0. ASSUME UNCHANGED batches, history'.left = history.left,
             history.past \subseteq history'.past,
             cmd.at \in Before, cmd'.at \in Before
      PROVE  ApplyLedger'
  BY <1>0, ZenonT(60)
<1>1. ASSUME ApplyStarts PROVE ApplyLedger'
  <2>1. /\ UNCHANGED batches /\ cmd.at = "idle"
        /\ history'.left = history.left /\ history.past \subseteq history'.past
    BY <1>1 DEF ApplyStarts
  <2>2. cmd'.at \in {"appeared", "load"}
    BY <1>1, StartedApply
  <2> QED
    BY <1>0, <2>1, <2>2
<1>2. ASSUME LoadAndPlan PROVE ApplyLedger'
  <2>1. UNCHANGED <<batches, history>> /\ cmd.at = "load"
    BY <1>2 DEF LoadAndPlan
  <2>2. cmd'.at \in {"idle", "recheck"}
    BY <1>2 DEF LoadAndPlan
  <2> QED
    BY <1>0, <2>1, <2>2
<1>3. ASSUME Recheck PROVE ApplyLedger'
  BY <1>3, ZenonT(60) DEF Recheck
<1>4. ASSUME ReadOriginalText PROVE ApplyLedger'
  BY <1>4, ZenonT(60) DEF ReadOriginalText
<1>5. ASSUME CheckNotAppeared PROVE ApplyLedger'
  BY <1>5, ZenonT(60) DEF CheckNotAppeared
<1>6. ASSUME LookAgain PROVE ApplyLedger'
  BY <1>6 DEF LookAgain
<1>7. ASSUME CopyForRecovery PROVE ApplyLedger'
  <2>1. UNCHANGED <<batches, history>> /\ cmd.at = "copy"
    BY <1>7 DEF CopyForRecovery
  <2>2. cmd'.at \in {"write", "list"}
    BY <1>7 DEF CopyForRecovery
  <2> QED
    BY <1>0, <2>1, <2>2
<1>8. ASSUME ListRecoveryBackup PROVE ApplyLedger'
  BY <1>8 DEF ListRecoveryBackup
<1>9. ASSUME WriteDocument PROVE ApplyLedger'
  <2>1. /\ UNCHANGED batches /\ cmd.at = "write" /\ cmd' = [cmd EXCEPT !.at = "readback"]
        /\ file' = Applied(cmd.doc, cmd.ops)
        /\ history' = [history EXCEPT
               !.origin = IF @ = None THEN file ELSE @,
               !.left = [k \in ManagedKeys |-> IF k \in DOMAIN cmd.ops THEN file'[k] ELSE @[k]]]
    BY <1>9 DEF WriteDocument
  <2>2. cmd'.at = "readback" /\ cmd'.ops = cmd.ops
    BY <2>1
  <2>3. history'.past = history.past
    BY <2>1
  <2>4. DOMAIN cmd.ops \subseteq ManagedKeys /\ BatchKeys \subseteq ManagedKeys
    BY <2>1 DEF ManagedOnly
  <2>5. ASSUME NEW k \in ManagedKeys
        PROVE  history'.left[k] = IF k \in DOMAIN cmd.ops THEN cmd.ops[k].value
                                  ELSE history.left[k]
    <3>1. history'.left = [i \in ManagedKeys |-> IF i \in DOMAIN cmd.ops THEN file'[i]
                                                 ELSE history.left[i]]
      BY <2>1
    <3>2. k \in DOMAIN cmd.ops => file'[k] = cmd.ops[k].value
      BY <2>1, KeysAssumption DEF Applied
    <3> QED
      BY <3>1, <3>2
  <2>6. Clean => Matches
    BY <2>1
  <2>7. ASSUME Clean', NEW k \in BatchKeys \cup DOMAIN cmd.ops
        PROVE  history'.left[k] = IF k \in DOMAIN cmd.ops THEN cmd.ops[k].value
                                  ELSE ManagedState(k)
    BY <2>3, <2>4, <2>5, <2>6, <2>7
  <2> QED
    BY <2>1, <2>2, <2>7
<1>10. ASSUME ReadBack PROVE ApplyLedger'
  <2>1. UNCHANGED batches /\ cmd.at = "readback"
    BY <1>10 DEF ReadBack
  <2>2. CASE cmd' = Idle
    <3>1. history' = [history EXCEPT !.past = @ \cup {"unrecorded"}]
      BY <1>10, <2>1, <2>2 DEF ReadBack
    <3> QED
      BY <2>2, <3>1
  <2>3. CASE cmd' # Idle
    <3>1. UNCHANGED history
      BY <1>10, <2>3 DEF ReadBack
    <3>2. /\ cmd'.ops = cmd.ops /\ cmd'.command = cmd.command
          /\ cmd'.at = IF cmd.command = "apply" THEN "baseline" ELSE "record"
      BY <1>10, <2>3 DEF ReadBack
    <3> QED
      BY <2>1, <3>1, <3>2
  <2> QED
    BY <2>2, <2>3
<1>11. ASSUME RecordBaseline PROVE ApplyLedger'
  BY <1>11 DEF RecordBaseline
<1>12. ASSUME RecordCheckpoint PROVE ApplyLedger'
  BY <1>12 DEF RecordCheckpoint
<1>13. ASSUME RecordBatch PROVE ApplyLedger'
  <2>1. PICK B : batches \in Seq(B)
    BY DEF ManagedOnly
  <2> DEFINE b == [ops |-> cmd.ops, existed |-> cmd.existed]
  <2>2. /\ cmd.at = "batch" /\ cmd' = Idle
        /\ batches' = Append(batches, b) /\ b.ops = cmd.ops
        /\ history'.left = history.left /\ history'.past = history.past
    BY <1>13 DEF RecordBatch
  <2>3. /\ BatchKeys' = BatchKeys \cup DOMAIN cmd.ops
        /\ \A k \in DOMAIN cmd.ops : ManagedState(k)' = cmd.ops[k].value
        /\ \A k \in BatchKeys \ DOMAIN cmd.ops : ManagedState(k)' = ManagedState(k)
    <3> HIDE DEF b
    <3> QED
      BY <2>1, <2>2, AppendedBatch
  <2>4. ASSUME Clean', NEW k \in BatchKeys' PROVE history'.left[k] = ManagedState(k)'
    <3>1. Clean /\ cmd.command = "apply"
      BY <2>2, <2>4
    <3>2. history.left[k] = IF k \in DOMAIN cmd.ops THEN cmd.ops[k].value ELSE ManagedState(k)
      BY <2>2, <2>3, <2>4, <3>1
    <3> QED
      BY <2>2, <2>3, <3>2
  <2> QED
    BY <2>2, <2>4
<1>14. ASSUME RollbackStarts("rollback") PROVE ApplyLedger'
  BY <1>14, ZenonT(60) DEF RollbackStarts
<1>15. ASSUME RollbackStarts("original") PROVE ApplyLedger'
  BY <1>15, ZenonT(60) DEF RollbackStarts
<1>16. ASSUME RestoreCheckpoint PROVE ApplyLedger'
  BY <1>16 DEF RestoreCheckpoint
<1>17. ASSUME Reload PROVE ApplyLedger'
  <2>1. UNCHANGED <<batches, history>> /\ cmd.at = "reload"
    BY <1>17 DEF Reload
  <2> QED
    BY <1>0, <1>17, <2>1, AfterUndoing
<1>17a. ASSUME UndoNext PROVE ApplyLedger'
  <2>1. UNCHANGED <<batches, history>> /\ cmd.at = "undo"
    BY <1>17a DEF UndoNext, UndoOne
  <2> QED
    BY <1>0, <1>17a, <2>1, AfterUndoing
<1>17b. ASSUME FinishUndoing PROVE ApplyLedger'
  <2>1. /\ UNCHANGED batches /\ cmd.at = "undo"
        /\ history'.left = history.left /\ history.past \subseteq history'.past
    <3>1. \/ UNCHANGED history
          \/ history' = [history EXCEPT !.last = cmd.command]
          \/ \E event : history' = [history EXCEPT !.past = @ \cup event]
      BY <1>17b DEF FinishUndoing
    <3>2. UNCHANGED batches /\ cmd.at = "undo"
      BY <1>17b DEF FinishUndoing
    <3> QED
      BY <3>1, <3>2
  <2> QED
    BY <1>0, <1>17b, <2>1, AfterUndoing
<1>18. ASSUME CopyForRollback PROVE ApplyLedger'
  <2>1. /\ UNCHANGED batches /\ cmd.at \in {"copy rewritten", "copy deleted"}
        /\ history'.left = history.left /\ history.past \subseteq history'.past
    BY <1>18 DEF CopyForRollback
  <2>2. cmd'.at \in {"idle", "rewrite", "unlink"}
    <3>1. CASE cmd' = Idle
      BY <3>1
    <3>2. CASE cmd' # Idle
      BY <1>18, <3>2, CopiedForRollback, ZenonT(60)
    <3> QED
      BY <3>1, <3>2
  <2> QED
    BY <1>0, <2>1, <2>2
<1>19. ASSUME RollbackRewrites PROVE ApplyLedger'
  BY <1>19 DEF RollbackRewrites
<1>20. ASSUME RollbackDeletes PROVE ApplyLedger'
  <2>1. UNCHANGED batches /\ cmd.at = "unlink"
    BY <1>20 DEF RollbackDeletes
  <2>2. CASE cmd' = Idle
    <3>1. UNCHANGED history
      BY <1>20, <2>2 DEF RollbackDeletes
    <3> QED
      BY <1>0, <2>1, <2>2, <3>1
  <2>3. CASE cmd' # Idle
    <3>1. cmd'.at = "record"
      BY <1>20, <2>3 DEF RollbackDeletes
    <3> QED
      BY <3>1
  <2> QED
    BY <2>2, <2>3
<1>21. ASSUME RecordRollback PROVE ApplyLedger'
  <2>1. /\ cmd' = Idle /\ cmd.at = "record" /\ cmd.command \in Rollbacks
        /\ history'.left = history.left /\ history'.past = history.past
    BY <1>21 DEF RecordRollback
  <2>2. /\ RecordsDocument(cmd.ops, cmd.doc, cmd.skipped)
        /\ cmd.skipped # {} => "skipped" \in history.past
        /\ \A k \in BatchKeys : history.left[k] = cmd.doc[k]
    BY <2>1 DEF RollbackLedger
  <2>3. ASSUME Clean' PROVE Matches'
    <3>1. cmd.skipped = {}
      BY <2>1, <2>2, <2>3
    <3>2. /\ DOMAIN cmd.ops = BatchKeys
          /\ \A k \in BatchKeys : cmd.ops[k].value = cmd.doc[k]
      BY <2>2, <3>1 DEF RecordsDocument
    <3>3. CASE DOMAIN cmd.ops = {}
      <4>1. UNCHANGED batches
        BY <1>21, <3>3 DEF RecordRollback
      <4> QED
        BY <3>2, <3>3, <4>1
    <3>4. CASE DOMAIN cmd.ops # {}
      <4>1. PICK B : batches \in Seq(B)
        BY DEF ManagedOnly
      <4> DEFINE b == [ops |-> cmd.ops, existed |-> batches[1].existed]
      <4>2. batches' = Append(batches, b) /\ b.ops = cmd.ops
        BY <1>21, <3>4 DEF RecordRollback
      <4> HIDE DEF b
      <4>3. /\ BatchKeys' = BatchKeys \cup DOMAIN b.ops
            /\ \A k \in DOMAIN b.ops : ManagedState(k)' = b.ops[k].value
        BY <4>1, <4>2, AppendedBatch
      <4> QED
        BY <2>1, <2>2, <3>2, <4>2, <4>3
    <3> QED
      BY <3>3, <3>4
  <2> QED
    BY <2>1, <2>3
<1>22. ASSUME OriginalStarts PROVE ApplyLedger'
  BY <1>22, ZenonT(60) DEF OriginalStarts
<1>23. ASSUME RecordRemoval PROVE ApplyLedger'
  BY <1>23 DEF RecordRemoval
<1>24. ASSUME UserEdits PROVE ApplyLedger'
  <2>1. /\ UNCHANGED batches
        /\ cmd' = IF cmd.at = "idle" THEN cmd
                  ELSE [cmd EXCEPT !.editedSinceCheck = TRUE, !.editedSinceCopy = TRUE]
    BY <1>24 DEF UserEdits
  <2>2. history'.left = history.left /\ history.past \subseteq history'.past
    <3>1. PICK new \in UserVersions :
              history' = [history EXCEPT !.mine = IF new = NoFile THEN Empty ELSE new,
                                         !.past = @ \cup IF Meddles(new) THEN {"meddled"} ELSE {}]
      BY <1>24 DEF UserEdits
    <3> QED
      BY <3>1
  <2>3. cmd'.ops = cmd.ops /\ cmd'.command = cmd.command /\ cmd'.at = cmd.at
    BY <2>1
  <2>4. Clean' => Clean
    BY <2>2
  <2>5. BatchKeys' = BatchKeys /\ \A k : ManagedState(k)' = ManagedState(k)
    BY <2>1
  <2> HIDE DEF StepsOfCommands, Clean
  <2> QED
    BY <2>2, <2>3, <2>4, <2>5
<1>25. ASSUME Crash PROVE ApplyLedger'
  <2>1. /\ UNCHANGED batches /\ cmd' = Idle
        /\ history'.left = history.left /\ history.past \subseteq history'.past
    BY <1>25 DEF Crash
  <2>2. CASE cmd.at \in Before
    BY <1>0, <2>1, <2>2
  <2>3. CASE cmd.at \notin Before
    <3>1. "unrecorded" \in history'.past
      BY <1>25, <2>3 DEF Crash, AllSteps
    <3> QED
      BY <2>1, <3>1
  <2> QED
    BY <2>2, <2>3
<1> QED
  BY <1>1, <1>2, <1>3, <1>4, <1>5, <1>6, <1>7, <1>8, <1>9, <1>10, <1>11, <1>12, <1>13, <1>14, <1>15, <1>16, <1>17, <1>17a, <1>17b, <1>18, <1>19, <1>20, <1>21, <1>22, <1>23, <1>24, <1>25 DEF Next, Command

-----------------------------------------------------------------------------
(* Where a command stands between its plan and its records *)

\* The steps before the file is written.
BeforeWriting == {"idle"} \cup Preparing \cup Undoing \cup Removing

\* An apply has its operations; an apply has written and not recorded them yet.
Planned == cmd.at \in (Preparing \ {"load"}) \cup {"readback"} \cup Recording /\ cmd.command = "apply"

AfterApply == cmd.at \in {"readback"} \cup Recording /\ cmd.command = "apply"

\* A rollback has undone every batch in its document; it has written that, too.
RollsBack == cmd.at \in {"copy rewritten", "rewrite", "copy deleted", "unlink"} /\ cmd.command \in Rollbacks

AfterRollback == cmd.at \in {"readback", "record"} /\ cmd.command \in Rollbacks

-----------------------------------------------------------------------------
(* Types *)

\* What deletes leaves nothing, and only that.
KindsFit(ops) ==
    \A k \in DOMAIN ops : ops[k].kind = "delete" <=> ops[k].value = Absent

OperationsOK(ops) == ops \in Operations(DOMAIN ops) /\ KindsFit(ops)

LocalsTyped ==
    /\ {cmd.text, cmd.copied, cmd.written} \subseteq Files
    /\ cmd.existed \in BOOLEAN
    /\ Planned \/ RollsBack \/ AfterRollback => OperationsOK(cmd.ops)
    /\ cmd.at = "list" => cmd.copied \in copies
    /\ cmd.at \in {"rewrite", "unlink", "record"} \/ AfterRollback => cmd.copied \in copies \cup {NoFile}
    /\ cmd.at \in Undoing \/ RollsBack \/ AfterRollback => batches # <<>>
    /\ cmd.at = "undo" => cmd.todo \in 0 .. Len(batches)
    /\ cmd.at = "restore" => checkpoint # None

RecordsTyped ==
    /\ \A i \in DOMAIN batches : KindsFit(batches[i].ops)
    /\ history.mine \in Contents

\* The inductive type invariant.
Typed == TypeOK /\ LocalsTyped /\ RecordsTyped

-----------------------------------------------------------------------------
(* What a command knows of the file *)

DocOf(f) == IF f = NoFile THEN Empty ELSE f

\* The operations of an apply are about the document it has loaded, those of a rollback
\* do not know what was before; a rollback in which nothing was undone still has the
\* document it has loaded; a checkpoint is what was read back.
DocumentsFit ==
    /\ Planned => /\ DOMAIN cmd.ops # {}
                  /\ \A k \in DOMAIN cmd.ops : cmd.ops[k].before = cmd.doc[k]
    /\ RollsBack \/ AfterRollback => \A k \in DOMAIN cmd.ops : cmd.ops[k].before = Unrecorded
    /\ cmd.at = "undo" /\ ~cmd.changed => cmd.doc = cmd.before
    /\ cmd.at = "batch" => checkpoint # None /\ checkpoint.content = cmd.written

\* As long as nobody meddles, a command works on the file that it has read.
Undisturbed ==
    "meddled" \notin history.past =>
        /\ cmd.at \in Preparing => file = cmd.before /\ (cmd.existed <=> file # NoFile)
        /\ cmd.at \in Preparing \ {"load"} => cmd.doc = DocOf(file)
        /\ AfterApply => file = Applied(cmd.doc, cmd.ops)
        /\ cmd.at \in Recording => cmd.written = file
        /\ cmd.at = "undo" \/ RollsBack => file = cmd.before /\ file # NoFile
        /\ AfterRollback => \/ file = cmd.doc
                            \/ cmd.at = "record" /\ file = NoFile /\ ~HasContent(cmd.doc)

-----------------------------------------------------------------------------
(* The first rollback *)

\* The value of a key once the first i of the batches were applied to the original file.
AfterBatches(bs, origin, i, k) ==
    LET having == {j \in 1 .. i : k \in DOMAIN bs[j].ops}
    IN  IF having = {} THEN KeyOf(origin, k)
        ELSE bs[CHOOSE j \in having : \A l \in having : l <= j].ops[k].value

StateAfter(i, k) == AfterBatches(batches, history.origin, i, k)

\* Nothing but applies has happened to managed keys, and each was recorded.
OnlyApplied == history.past = {} /\ history.last \notin Rollbacks

\* A rollback before the running command is on record.
RollbacksNoted == cmd.at # "idle" /\ history.last \in Rollbacks => history.past # {}

\* Before the first write there is no record.
Untouched ==
    history.origin = None =>
        /\ batches = <<>> /\ baseline = None /\ checkpoint = None
        /\ cmd.at \in {"idle"} \cup Preparing

\* Each batch says what its keys were before it.
Chained ==
    \A i \in DOMAIN batches :
        /\ DOMAIN batches[i].ops # {}
        /\ \A k \in DOMAIN batches[i].ops : batches[i].ops[k].before = StateAfter(i - 1, k)

\* What prescribe does not manage is as its users left it.
UsersPart ==
    IF history.origin = None THEN history.mine = DocOf(file)
    ELSE cmd.at \in BeforeWriting \/ AfterApply =>
            file # NoFile /\ \A k \in Keys \ ManagedKeys : file[k] = history.mine[k]

\* What it manages is what the batches make of the original file.
ManagedPart ==
    history.origin # None =>
        /\ cmd.at \in BeforeWriting =>
            /\ batches # <<>> /\ cmd.at # "restore"
            /\ \A k \in ManagedKeys : file[k] = StateAfter(Len(batches), k)
        /\ AfterApply => \A k \in ManagedKeys : cmd.doc[k] = StateAfter(Len(batches), k)

\* The first batch knows whether there was a file.
ExistenceRecorded ==
    /\ batches # <<>> => (batches[1].existed <=> history.origin # NoFile)
    /\ batches = <<>> /\ AfterApply => (cmd.existed <=> history.origin # NoFile)

\* A rollback undoes one batch after the other and ends with the original.
ComesBack ==
    /\ cmd.at = "reload" => ~cmd.changed /\ cmd.skipped = {}
    /\ cmd.at = "undo" =>
        /\ \A k \in ManagedKeys : cmd.doc[k] = StateAfter(cmd.todo, k)
        /\ \A k \in Keys \ ManagedKeys : cmd.doc[k] = history.mine[k]
        /\ cmd.skipped = {}
        /\ cmd.changed <=> cmd.todo < Len(batches)
    /\ cmd.at \in {"copy rewritten", "rewrite"} => cmd.doc = Undone
    /\ cmd.at \in {"copy deleted", "unlink"} /\ cmd.command \in Rollbacks => Undone = NoFile
    /\ AfterRollback => file = Undone

Traced == Chained /\ UsersPart /\ ManagedPart /\ ExistenceRecorded /\ ComesBack

FirstRollback == RollbacksNoted /\ (OnlyApplied => Traced)

-----------------------------------------------------------------------------
(* Managed blocks that were not there before *)

\* Undoing the first i of the batches takes value v of a key away: it is not there, or it
\* was written by a batch after which the key was only deleted.
UndoneFrom(bs, v, i, k) ==
    \/ v = Absent
    \/ \E j \in 1 .. i :
        /\ k \in DOMAIN bs[j].ops /\ bs[j].ops[k].value = v
        /\ \A l \in j + 1 .. i : k \in DOMAIN bs[l].ops => bs[l].ops[k].kind = "delete"

GoesAway(v, i, k) == UndoneFrom(batches, v, i, k)

\* Nothing has happened that the batches do not know of, but for skipped keys.
NothingLost == history.past \subseteq {"rolled back", "skipped"}

\* The key was not in the original file.
NewKey(k) == k \in ManagedKeys /\ KeyOf(history.origin, k) = Absent

\* What is on disk, in a document, in the checkpoint or in a batch goes away.
BatchesGoAway ==
    \A i \in DOMAIN batches : \A k \in DOMAIN batches[i].ops :
        NewKey(k) => GoesAway(batches[i].ops[k].before, i - 1, k)

CheckpointGoesAway ==
    checkpoint # None /\ cmd.at # "batch" =>
        \A k : NewKey(k) => GoesAway(KeyOf(checkpoint.content, k), Len(batches), k)

FileGoesAway ==
    /\ cmd.at \in BeforeWriting => \A k : NewKey(k) => GoesAway(KeyOf(file, k), Len(batches), k)
    /\ AfterApply => \A k : NewKey(k) => GoesAway(cmd.doc[k], Len(batches), k)

DocumentGoesAway ==
    /\ cmd.at = "undo" => \A k : NewKey(k) => GoesAway(cmd.doc[k], cmd.todo, k)
    /\ RollsBack \/ AfterRollback => \A k : NewKey(k) => cmd.doc[k] = Absent
    /\ cmd.command \in Rollbacks => \A k : NewKey(k) => KeyOf(cmd.written, k) = Absent

AllGoesAway == BatchesGoAway /\ CheckpointGoesAway /\ FileGoesAway /\ DocumentGoesAway

NewKeysGoAway ==
    NothingLost /\ history.origin # None => AllGoesAway

-----------------------------------------------------------------------------
(* Documents, plans and what undoing makes of them *)

LEMMA ContentsFacts ==
    /\ Empty \in Contents /\ Contents \subseteq Files /\ NoFile \in Files
    /\ \A f \in Files : f # NoFile => f \in Contents
    /\ \A f \in Files : DocOf(f) \in Contents
    /\ \A doc \in Contents : doc # NoFile
    /\ ManagedKeys \subseteq Keys
  BY KeysAssumption DEF Contents, Files, Empty, DocOf

\* A plan is well formed, and says of each key what the document has there.
LEMMA PlanTyped ==
    ASSUME NEW doc \in Contents, NEW spec \in Specs
    PROVE  /\ OperationsOK(Plan(doc, spec))
           /\ \A k \in DOMAIN Plan(doc, spec) : Plan(doc, spec)[k].before = doc[k]
<1> DEFINE ops == Plan(doc, spec)
<1>1. DOMAIN ops = {i \in DOMAIN spec : doc[i] # spec[i]}
  BY DEF Plan
<1>2. \A k \in DOMAIN ops :
          ops[k] = [kind |-> IF spec[k] = Absent THEN "delete" ELSE "write",
                    value |-> spec[k], before |-> doc[k]]
  BY DEF Plan
<1>3. DOMAIN ops \subseteq Keys /\ \A k \in DOMAIN ops : spec[k] \in Values \cup {Absent}
  BY <1>1, KeysAssumption
<1>4. ops = [k \in DOMAIN ops |-> ops[k]]
  BY DEF Plan
<1> HIDE DEF ops
<1>5. \A k \in DOMAIN ops : ops[k] \in [kind : {"write", "delete"},
                                        value : Values \cup {Null, Absent},
                                        before : Values \cup {Null, Absent}]
  BY <1>2, <1>3 DEF Contents
<1> QED
  BY <1>2, <1>4, <1>5 DEF OperationsOK, Operations, KindsFit, ops

LEMMA OperationFields ==
    ASSUME NEW ops, OperationsOK(ops), NEW k \in DOMAIN ops
    PROVE  /\ ops[k].value \in Values \cup {Null, Absent}
           /\ ops[k].before \in Values \cup {Null, Absent}
           /\ ops[k].kind \in {"write", "delete"}
           /\ ops[k].kind = "delete" <=> ops[k].value = Absent
  BY DEF OperationsOK, Operations, KindsFit

LEMMA AppliedTyped ==
    ASSUME NEW doc \in Contents, NEW ops, OperationsOK(ops)
    PROVE  /\ Applied(doc, ops) \in Contents
           /\ \A k \in Keys : Applied(doc, ops)[k] = IF k \in DOMAIN ops THEN ops[k].value
                                                     ELSE doc[k]
  BY OperationFields DEF Applied, Contents

LEMMA RevertedTyped ==
    ASSUME NEW doc \in Contents, NEW ops, OperationsOK(ops), NEW hits \in SUBSET DOMAIN ops
    PROVE  /\ Reverted(ops, doc, hits) \in Contents
           /\ \A k \in Keys : Reverted(ops, doc, hits)[k] = IF k \in hits THEN ops[k].before
                                                            ELSE doc[k]
           /\ hits = {} => Reverted(ops, doc, hits) = doc
<1>1. \A k \in hits : ops[k].before \in Values \cup {Null, Absent}
  BY OperationFields
<1> QED
  BY <1>1 DEF Reverted, Contents

LEMMA StateOperationsTyped ==
    ASSUME NEW doc \in Contents, BatchKeys \subseteq ManagedKeys, NEW skipped
    PROVE  /\ OperationsOK(StateOperations(doc, skipped))
           /\ \A k \in DOMAIN StateOperations(doc, skipped) :
                  StateOperations(doc, skipped)[k].before = Unrecorded
<1> DEFINE ops == StateOperations(doc, skipped)
<1>1. DOMAIN ops = BatchKeys \ skipped
  BY DEF StateOperations
<1>2. \A k \in DOMAIN ops :
          ops[k] = [kind |-> IF doc[k] = Absent THEN "delete" ELSE "write",
                    value |-> doc[k], before |-> Unrecorded]
  BY DEF StateOperations
<1>3. ops = [k \in DOMAIN ops |-> ops[k]]
  BY DEF StateOperations
<1>4. DOMAIN ops \subseteq Keys
  BY <1>1, KeysAssumption
<1> HIDE DEF ops
<1>5. \A k \in DOMAIN ops : ops[k] \in [kind : {"write", "delete"},
                                        value : Values \cup {Null, Absent},
                                        before : Values \cup {Null, Absent}]
  BY <1>2, <1>4, KeysAssumption DEF Contents
<1> QED
  BY <1>2, <1>3, <1>5 DEF OperationsOK, Operations, KindsFit, ops

-----------------------------------------------------------------------------
(* What the steps change, field by field *)

USE DEF Goto, Returns, Leaves, Happens, Starts, NoteWrite, ledger, bounds

LEMMA IdleDefaults ==
    /\ Idle.doc = Empty /\ Idle.text = NoFile /\ Idle.copied = NoFile /\ Idle.written = NoFile
    /\ Idle.existed = FALSE /\ Idle.changed = FALSE /\ Idle.todo = 0
  BY DEF Idle

\* Only notable events are added.
HistoryKept ==
    /\ history'.origin = history.origin /\ history'.left = history.left
    /\ history'.mine = history.mine /\ history.past \subseteq history'.past

DocumentsKept == UNCHANGED <<file, batches, baseline, checkpoint, listed, copies>>

\* Locals that only some steps set.
ReadsKept ==
    /\ cmd'.command = cmd.command /\ cmd'.existed = cmd.existed /\ cmd'.text = cmd.text
    /\ cmd'.written = cmd.written

UndoKept == cmd'.todo = cmd.todo /\ cmd'.changed = cmd.changed /\ cmd'.skipped = cmd.skipped

LEMMA StartingEffect ==
    ASSUME StepsOfCommands, Starts
    PROVE  /\ HistoryKept /\ history'.last = history.last
           /\ history.last \in Rollbacks => history'.past # {}
           /\ history.past \subseteq {"rolled back", "skipped"} =>
                  history'.past \subseteq {"rolled back", "skipped"}
  BY DEF StepsOfCommands, HistoryKept, Rollbacks

LEMMA ApplyStartsEffect ==
    ASSUME StepsOfCommands, ApplyStarts
    PROVE  /\ cmd.at = "idle" /\ DocumentsKept /\ Starts
           /\ cmd'.command = "apply" /\ cmd'.doc = Empty /\ cmd'.before = file
           /\ cmd'.text = NoFile /\ cmd'.copied = NoFile /\ cmd'.written = NoFile
           /\ \/ /\ cmd'.at = "appeared" /\ file = NoFile /\ cmd'.existed = FALSE
                 /\ \E spec \in Specs : cmd'.ops = Plan(Empty, spec)
                 /\ DOMAIN cmd'.ops # {}
              \/ cmd'.at = "load" /\ file # NoFile /\ cmd'.existed = TRUE
<1> USE IdleFields, IdleDefaults
<1>1. cmd.at = "idle" /\ DocumentsKept /\ Starts
  BY DEF ApplyStarts, DocumentsKept
<1>2. PICK spec \in Specs :
        \/ /\ file = NoFile /\ DOMAIN Plan(Empty, spec) # {}
           /\ cmd' = [Idle EXCEPT !.at = "appeared", !.command = "apply", !.ops = Plan(Empty, spec)]
        \/ /\ file # NoFile
           /\ cmd' = [Idle EXCEPT !.at = "load", !.command = "apply", !.spec = spec,
                                  !.before = file, !.existed = TRUE]
  BY DEF ApplyStarts
<1>3. CASE file = NoFile
  <2>1. cmd' = [Idle EXCEPT !.at = "appeared", !.command = "apply", !.ops = Plan(Empty, spec)]
    BY <1>2, <1>3
  <2> QED BY <1>1, <1>2, <1>3, <2>1
<1>4. CASE file # NoFile
  <2>1. cmd' = [Idle EXCEPT !.at = "load", !.command = "apply", !.spec = spec,
                            !.before = file, !.existed = TRUE]
    BY <1>2, <1>4
  <2> QED BY <1>1, <1>4, <2>1
<1> QED BY <1>3, <1>4

LEMMA LoadAndPlanEffect ==
    ASSUME StepsOfCommands, LoadAndPlan, cmd' # Idle
    PROVE  /\ cmd.at = "load" /\ DocumentsKept /\ UNCHANGED history /\ file # NoFile
           /\ cmd'.at = "recheck" /\ cmd'.doc = file
           /\ cmd'.ops = Plan(file, cmd.spec) /\ DOMAIN cmd'.ops # {}
           /\ cmd'.before = cmd.before /\ cmd'.copied = cmd.copied /\ ReadsKept /\ UndoKept
<1>1. /\ cmd.at = "load" /\ DocumentsKept /\ UNCHANGED history /\ file # NoFile
      /\ DOMAIN Plan(file, cmd.spec) # {}
      /\ cmd' = [cmd EXCEPT !.at = "recheck", !.doc = file, !.ops = Plan(file, cmd.spec)]
  BY DEF LoadAndPlan, DocumentsKept
<1> QED BY <1>1 DEF StepsOfCommands, ReadsKept, UndoKept, Idle

\* The steps of an apply between its plan and its write that look at the file.
LEMMA LookingEffect ==
    ASSUME StepsOfCommands, Recheck \/ ReadOriginalText \/ CheckNotAppeared \/ LookAgain, cmd' # Idle
    PROVE  /\ cmd.at \in {"recheck", "text", "appeared", "exists"}
           /\ DocumentsKept /\ UNCHANGED history
           /\ cmd'.at \in {"text", "copy", "exists", "write"}
           /\ cmd'.at = "write" => file = NoFile
           /\ cmd'.at \in {"text", "exists"} => ~LookAgain
           /\ cmd'.existed = (IF LookAgain THEN file # NoFile ELSE cmd.existed)
           /\ cmd'.text \in {cmd.text, file} /\ cmd'.written = cmd.written
           /\ cmd'.command = cmd.command /\ cmd'.copied = cmd.copied
           /\ cmd'.before = cmd.before /\ cmd'.doc = cmd.doc /\ cmd'.ops = cmd.ops /\ UndoKept
<1> USE IdleFields DEF StepsOfCommands, UndoKept, DocumentsKept
<1>1. CASE Recheck
  <2>1. cmd.at = "recheck" /\ file = cmd.before /\ ~LookAgain /\ DocumentsKept /\ UNCHANGED history
        /\ cmd' = [cmd EXCEPT !.at = "text", !.editedSinceCheck = FALSE]
    BY <1>1 DEF Recheck, LookAgain
  <2> QED BY <2>1
<1>2. CASE ReadOriginalText
  <2>1. cmd.at = "text" /\ ~LookAgain /\ DocumentsKept /\ UNCHANGED history
        /\ cmd' = [cmd EXCEPT !.at = "copy", !.text = file]
    BY <1>2 DEF ReadOriginalText, LookAgain
  <2> QED BY <2>1
<1>3. CASE CheckNotAppeared
  <2>1. cmd.at = "appeared" /\ file = NoFile /\ ~LookAgain /\ DocumentsKept /\ UNCHANGED history
        /\ cmd' = [cmd EXCEPT !.at = "exists", !.editedSinceCheck = FALSE]
    BY <1>3 DEF CheckNotAppeared, LookAgain
  <2> QED BY <2>1
<1>4. CASE LookAgain
  <2>1. cmd.at = "exists" /\ DocumentsKept /\ UNCHANGED history
        /\ cmd' = [cmd EXCEPT !.existed = (file # NoFile), !.editedSinceCopy = FALSE,
                              !.at = IF file = NoFile THEN "write" ELSE "copy"]
    BY <1>4 DEF LookAgain
  <2> QED BY <1>4, <2>1
<1> QED BY <1>1, <1>2, <1>3, <1>4

LEMMA CopyForRecoveryEffect ==
    ASSUME StepsOfCommands, CopyForRecovery
    PROVE  /\ cmd.at = "copy" /\ UNCHANGED <<file, batches, baseline, checkpoint, listed, history>>
           /\ \/ cmd'.at = "write" /\ UNCHANGED copies /\ cmd'.copied = cmd.copied
              \/ /\ cmd'.at = "list" /\ file # NoFile
                 /\ cmd'.copied = file /\ copies' = copies \cup {file}
           /\ ReadsKept /\ UndoKept
           /\ cmd'.before = cmd.before /\ cmd'.doc = cmd.doc /\ cmd'.ops = cmd.ops
<1> USE DEF StepsOfCommands, ReadsKept, UndoKept
<1> USE IdleFields
<1>0. cmd.at = "copy" /\ UNCHANGED <<file, batches, baseline, checkpoint, listed, history>>
  BY DEF CopyForRecovery
<1>1. CASE file = NoFile
  <2>1. cmd' = [cmd EXCEPT !.at = "write"] /\ UNCHANGED copies
    BY <1>1 DEF CopyForRecovery
  <2> QED BY <1>0, <2>1
<1>2. CASE file # NoFile
  <2>1. /\ cmd' = [cmd EXCEPT !.at = "list", !.copied = file, !.editedSinceCopy = FALSE]
        /\ copies' = copies \cup {file}
    BY <1>2 DEF CopyForRecovery
  <2> QED BY <1>0, <1>2, <2>1
<1> QED BY <1>1, <1>2

LEMMA WriteDocumentEffect ==
    ASSUME StepsOfCommands, WriteDocument
    PROVE  /\ cmd.at = "write" /\ cmd.command = "apply" /\ cmd'.at = "readback"
           /\ file' = Applied(cmd.doc, cmd.ops)
           /\ UNCHANGED <<batches, baseline, checkpoint, listed, copies>>
           /\ history'.origin = IF history.origin = None THEN file ELSE history.origin
           /\ history'.mine = history.mine /\ history'.last = history.last
           /\ history'.past = history.past
           /\ ReadsKept /\ UndoKept
           /\ cmd'.before = cmd.before /\ cmd'.doc = cmd.doc /\ cmd'.ops = cmd.ops
           /\ cmd'.copied = cmd.copied
<1>1. /\ cmd.at = "write" /\ cmd' = [cmd EXCEPT !.at = "readback"]
      /\ file' = Applied(cmd.doc, cmd.ops)
      /\ UNCHANGED <<batches, baseline, checkpoint, listed, copies>>
      /\ history' = [history EXCEPT
             !.origin = IF @ = None THEN file ELSE @,
             !.left = [k \in ManagedKeys |-> IF k \in DOMAIN cmd.ops THEN file'[k] ELSE @[k]]]
  BY DEF WriteDocument
<1> QED BY <1>1, IdleFields DEF StepsOfCommands, Preparing, ReadsKept, UndoKept

LEMMA ReadBackEffect ==
    ASSUME StepsOfCommands, ReadBack, cmd' # Idle
    PROVE  /\ cmd.at = "readback" /\ DocumentsKept /\ UNCHANGED history /\ file # NoFile
           /\ cmd'.at = IF cmd.command = "apply" THEN "baseline" ELSE "record"
           /\ cmd'.written = file /\ cmd'.command = cmd.command
           /\ cmd'.existed = cmd.existed /\ cmd'.text = cmd.text /\ UndoKept
           /\ cmd'.before = cmd.before /\ cmd'.doc = cmd.doc /\ cmd'.ops = cmd.ops
           /\ cmd'.copied = cmd.copied
<1>1. cmd.at = "readback" /\ DocumentsKept /\ UNCHANGED history /\ file # NoFile
  BY DEF ReadBack, DocumentsKept
<1>2. PICK at \in {"baseline", "record"} :
          /\ at = IF cmd.command = "apply" THEN "baseline" ELSE "record"
          /\ cmd' = [cmd EXCEPT !.written = file, !.at = at]
  BY DEF ReadBack
<1> QED BY <1>1, <1>2, IdleFields DEF StepsOfCommands, UndoKept

LEMMA RecordBaselineEffect ==
    ASSUME StepsOfCommands, RecordBaseline
    PROVE  /\ cmd.at = "baseline" /\ cmd'.at = "checkpoint"
           /\ UNCHANGED <<file, batches, checkpoint, listed, copies, history>>
           /\ baseline' \in {baseline, [content |-> IF cmd.text = NoFile THEN Empty ELSE cmd.text,
                                        existed |-> cmd.existed]}
           /\ ReadsKept /\ UndoKept
           /\ cmd'.before = cmd.before /\ cmd'.doc = cmd.doc /\ cmd'.ops = cmd.ops
           /\ cmd'.copied = cmd.copied
<1>1. /\ cmd.at = "baseline" /\ cmd' = [cmd EXCEPT !.at = "checkpoint"]
      /\ UNCHANGED <<file, batches, checkpoint, listed, copies, history>>
  BY DEF RecordBaseline
<1>2. baseline' \in {baseline, [content |-> IF cmd.text = NoFile THEN Empty ELSE cmd.text,
                                existed |-> cmd.existed]}
  BY DEF RecordBaseline
<1>3. /\ cmd'.at = "checkpoint" /\ ReadsKept /\ UndoKept
      /\ cmd'.before = cmd.before /\ cmd'.doc = cmd.doc /\ cmd'.ops = cmd.ops
      /\ cmd'.copied = cmd.copied
  BY <1>1, IdleFields DEF StepsOfCommands, ReadsKept, UndoKept
<1> QED BY <1>1, <1>2, <1>3

LEMMA RecordCheckpointEffect ==
    ASSUME StepsOfCommands, RecordCheckpoint
    PROVE  /\ cmd.at = "checkpoint" /\ cmd'.at = "batch"
           /\ UNCHANGED <<file, batches, baseline, listed, copies, history>>
           /\ checkpoint' = [content |-> cmd.written, existed |-> cmd.existed]
           /\ ReadsKept /\ UndoKept
           /\ cmd'.before = cmd.before /\ cmd'.doc = cmd.doc /\ cmd'.ops = cmd.ops
           /\ cmd'.copied = cmd.copied
<1>1. /\ cmd.at = "checkpoint" /\ cmd' = [cmd EXCEPT !.at = "batch"]
      /\ UNCHANGED <<file, batches, baseline, listed, copies, history>>
      /\ checkpoint' = [content |-> cmd.written, existed |-> cmd.existed]
  BY DEF RecordCheckpoint
<1> QED BY <1>1, IdleFields DEF StepsOfCommands, ReadsKept, UndoKept

\* A command returns: what has happened so far is kept.
LEMMA ReturningEffect ==
    ASSUME StepsOfCommands, Returns
    PROVE  /\ cmd' = Idle /\ HistoryKept /\ history'.past = history.past
           /\ history'.last = cmd.command
  BY DEF StepsOfCommands, HistoryKept

LEMMA RecordBatchEffect ==
    ASSUME StepsOfCommands, RecordBatch
    PROVE  /\ cmd.at = "batch" /\ cmd.command = "apply"
           /\ UNCHANGED <<file, baseline, checkpoint, listed, copies>>
           /\ batches' = Append(batches, [ops |-> cmd.ops, existed |-> cmd.existed])
           /\ Returns
  BY DEF RecordBatch, StepsOfCommands, Recording

LEMMA ReloadEffect ==
    ASSUME StepsOfCommands, Reload, cmd' # Idle
    PROVE  /\ cmd.at = "reload" /\ DocumentsKept /\ UNCHANGED history /\ file # NoFile
           /\ cmd'.at = "undo" /\ cmd'.before = file /\ cmd'.doc = file
           /\ cmd'.todo = Len(batches) /\ cmd'.changed = cmd.changed /\ cmd'.skipped = cmd.skipped
           /\ ReadsKept /\ cmd'.copied = cmd.copied
<1>1. /\ cmd.at = "reload" /\ DocumentsKept /\ UNCHANGED history /\ file # NoFile
      /\ cmd' = [cmd EXCEPT !.at = "undo", !.before = file, !.doc = file, !.todo = Len(batches)]
  BY DEF Reload, DocumentsKept
<1> QED BY <1>1, IdleFields DEF StepsOfCommands, ReadsKept, UndoKept

LEMMA UndoNextEffect ==
    ASSUME StepsOfCommands, UndoNext
    PROVE  /\ cmd.at = "undo" /\ cmd.todo > 0 /\ DocumentsKept /\ UNCHANGED history
           /\ cmd'.at = "undo" /\ cmd'.before = cmd.before /\ cmd'.todo = cmd.todo - 1
           /\ ReadsKept /\ cmd'.copied = cmd.copied
           /\ \E forced \in ForcedKeys :
                LET ops == batches[cmd.todo].ops
                    hits == Hits(ops, cmd.doc, forced)
                IN  /\ cmd'.doc = Reverted(ops, cmd.doc, hits)
                    /\ cmd'.changed = (cmd.changed \/ hits # {})
                    /\ cmd'.skipped = cmd.skipped \cup
                                      {k \in DOMAIN ops \ hits : ops[k].kind = "write"}
<1>1. cmd.at = "undo" /\ cmd.todo > 0 /\ DocumentsKept /\ UNCHANGED history
  BY DEF UndoNext, UndoOne, DocumentsKept
<1> DEFINE ops == batches[cmd.todo].ops
           hits(forced) == Hits(ops, cmd.doc, forced)
<1>2. PICK forced \in ForcedKeys :
          cmd' = [cmd EXCEPT
                    !.todo = cmd.todo - 1,
                    !.doc = Reverted(ops, cmd.doc, hits(forced)),
                    !.changed = cmd.changed \/ hits(forced) # {},
                    !.skipped = cmd.skipped \cup
                                {k \in DOMAIN ops \ hits(forced) : ops[k].kind = "write"}]
  BY UndoneBatch
<1>3. /\ cmd'.at = "undo" /\ cmd'.before = cmd.before /\ cmd'.todo = cmd.todo - 1
      /\ ReadsKept /\ cmd'.copied = cmd.copied
      /\ cmd'.doc = Reverted(ops, cmd.doc, hits(forced))
      /\ cmd'.changed = (cmd.changed \/ hits(forced) # {})
      /\ cmd'.skipped = cmd.skipped \cup
                        {k \in DOMAIN ops \ hits(forced) : ops[k].kind = "write"}
  <2> HIDE DEF hits, ops
  <2> QED BY <1>1, <1>2, IdleFields DEF StepsOfCommands, ReadsKept
<1> QED BY <1>1, <1>3

LEMMA FinishUndoingEffect ==
    ASSUME StepsOfCommands, FinishUndoing, cmd' # Idle
    PROVE  /\ cmd.at = "undo" /\ cmd.todo = 0 /\ DocumentsKept /\ HistoryKept
           /\ history'.last = history.last
           /\ history'.past \subseteq history.past \cup
                  (IF cmd.skipped = {} THEN {} ELSE {"skipped"})
           /\ cmd'.at = IF batches[1].existed \/ HasContent(cmd.doc)
                        THEN "copy rewritten" ELSE "copy deleted"
           /\ cmd'.ops = StateOperations(cmd.doc, cmd.skipped)
           /\ ReadsKept /\ UndoKept
           /\ cmd'.before = cmd.before /\ cmd'.doc = cmd.doc /\ cmd'.copied = cmd.copied
<1>1. cmd.at = "undo" /\ cmd.todo = 0 /\ DocumentsKept
  BY DEF FinishUndoing, DocumentsKept
<1>2. PICK at \in {"copy rewritten", "copy deleted"} :
        /\ at = IF batches[1].existed \/ HasContent(cmd.doc) THEN "copy rewritten" ELSE "copy deleted"
        /\ cmd' = [cmd EXCEPT !.at = at, !.ops = StateOperations(cmd.doc, cmd.skipped)]
        /\ Happens(IF cmd.skipped = {} THEN {} ELSE {"skipped"})
  BY FinishedUndoing
<1> QED BY <1>1, <1>2, IdleFields DEF StepsOfCommands, ReadsKept, UndoKept, HistoryKept

LEMMA CopyForRollbackEffect ==
    ASSUME StepsOfCommands, CopyForRollback, cmd' # Idle
    PROVE  /\ cmd.at \in {"copy rewritten", "copy deleted"}
           /\ UNCHANGED <<file, batches, baseline, checkpoint, listed, history>>
           /\ copies' = copies \cup ({file} \ {NoFile})
           /\ cmd'.at = IF cmd.at = "copy rewritten" THEN "rewrite" ELSE "unlink"
           /\ cmd'.copied = file
           /\ ReadsKept /\ UndoKept
           /\ cmd'.before = cmd.before /\ cmd'.doc = cmd.doc /\ cmd'.ops = cmd.ops
<1>1. /\ cmd.at \in {"copy rewritten", "copy deleted"}
      /\ UNCHANGED <<file, batches, baseline, checkpoint, listed>>
      /\ copies' = copies \cup ({file} \ {NoFile})
  BY DEF CopyForRollback
<1>2. PICK at \in {"rewrite", "unlink"} :
             /\ at = IF cmd.at = "copy rewritten" THEN "rewrite" ELSE "unlink"
             /\ cmd' = [cmd EXCEPT !.at = at, !.copied = file, !.editedSinceCopy = FALSE]
             /\ UNCHANGED history
  BY CopiedForRollback
<1> QED BY <1>1, <1>2, IdleFields DEF StepsOfCommands, ReadsKept, UndoKept

LEMMA RollbackRewritesEffect ==
    ASSUME StepsOfCommands, RollbackRewrites
    PROVE  /\ cmd.at = "rewrite" /\ cmd'.at = "readback" /\ file' = cmd.doc
           /\ UNCHANGED <<batches, baseline, checkpoint, listed, copies>>
           /\ history.origin # None => history'.origin = history.origin
           /\ history'.mine = history.mine /\ history'.last = history.last
           /\ history'.past = history.past
           /\ ReadsKept /\ UndoKept
           /\ cmd'.before = cmd.before /\ cmd'.doc = cmd.doc /\ cmd'.ops = cmd.ops
           /\ cmd'.copied = cmd.copied
<1>1. /\ cmd.at = "rewrite" /\ cmd' = [cmd EXCEPT !.at = "readback"] /\ file' = cmd.doc
      /\ UNCHANGED <<batches, baseline, checkpoint, listed, copies>>
      /\ history' = [history EXCEPT
             !.origin = IF @ = None THEN file ELSE @,
             !.left = [k \in ManagedKeys |-> IF k \in BatchKeys THEN file'[k] ELSE @[k]]]
  BY DEF RollbackRewrites
<1> QED BY <1>1, IdleFields DEF StepsOfCommands, ReadsKept, UndoKept

LEMMA RollbackDeletesEffect ==
    ASSUME StepsOfCommands, RollbackDeletes, cmd' # Idle
    PROVE  /\ cmd.at = "unlink" /\ cmd'.at = "record" /\ file # NoFile /\ file' = NoFile
           /\ UNCHANGED <<batches, baseline, checkpoint, listed, copies>>
           /\ history.origin # None => history'.origin = history.origin
           /\ history'.mine = history.mine /\ history'.last = history.last
           /\ history'.past = history.past
           /\ ReadsKept /\ UndoKept
           /\ cmd'.before = cmd.before /\ cmd'.doc = cmd.doc /\ cmd'.ops = cmd.ops
           /\ cmd'.copied = cmd.copied
<1>1. /\ cmd.at = "unlink" /\ cmd' = [cmd EXCEPT !.at = "record"] /\ file # NoFile /\ file' = NoFile
      /\ UNCHANGED <<batches, baseline, checkpoint, listed, copies>>
      /\ history' = [history EXCEPT
             !.origin = IF @ = None THEN file ELSE @,
             !.left = [k \in ManagedKeys |-> IF k \in BatchKeys THEN Empty[k] ELSE @[k]]]
  BY DEF RollbackDeletes
<1> QED BY <1>1, IdleFields DEF StepsOfCommands, ReadsKept, UndoKept

LEMMA RecordRollbackEffect ==
    ASSUME StepsOfCommands, RecordRollback
    PROVE  /\ cmd.at = "record" /\ cmd.command \in Rollbacks
           /\ UNCHANGED <<file, baseline, copies>>
           /\ listed' = listed \cup ({cmd.copied} \ {NoFile})
           /\ checkpoint' \in {checkpoint,
                               [content |-> cmd.written, existed |-> batches[1].existed]}
           /\ cmd.written = NoFile => UNCHANGED checkpoint
           /\ \/ UNCHANGED batches /\ DOMAIN cmd.ops = {}
              \/ batches' = Append(batches, [ops |-> cmd.ops, existed |-> batches[1].existed])
           /\ Returns
  BY DEF RecordRollback, StepsOfCommands, Removing

\* The user's version is the file afterwards; an edit that concerns prescribe is noted.
LEMMA UserEditsEffect ==
    ASSUME StepsOfCommands, UserEdits
    PROVE  /\ UNCHANGED <<batches, baseline, checkpoint, listed, copies>>
           /\ file' \in UserVersions
           /\ history'.mine = DocOf(file') /\ history'.origin = history.origin
           /\ history'.last = history.last /\ history.past \subseteq history'.past
           /\ \/ Meddles(file') /\ "meddled" \in history'.past
              \/ ~Meddles(file') /\ history'.past = history.past /\ UNCHANGED cmd
           /\ cmd'.at = cmd.at /\ ReadsKept /\ UndoKept
           /\ cmd'.before = cmd.before /\ cmd'.doc = cmd.doc /\ cmd'.ops = cmd.ops
           /\ cmd'.copied = cmd.copied /\ cmd'.spec = cmd.spec
<1>1. PICK new \in UserVersions :
        /\ file' = new
        /\ history' = [history EXCEPT !.mine = IF new = NoFile THEN Empty ELSE new,
                                      !.past = @ \cup IF Meddles(new) THEN {"meddled"} ELSE {}]
  BY DEF UserEdits
<1>2. /\ UNCHANGED <<batches, baseline, checkpoint, listed, copies>>
      /\ cmd' = IF cmd.at = "idle" THEN cmd
                ELSE [cmd EXCEPT !.editedSinceCheck = TRUE, !.editedSinceCopy = TRUE]
  BY DEF UserEdits
<1>3. /\ history'.mine = DocOf(file') /\ history'.origin = history.origin
      /\ history'.last = history.last
      /\ history'.past = history.past \cup IF Meddles(new) THEN {"meddled"} ELSE {}
  BY <1>1 DEF StepsOfCommands, DocOf
<1>4. /\ cmd'.at = cmd.at /\ ReadsKept /\ UndoKept
      /\ cmd'.before = cmd.before /\ cmd'.doc = cmd.doc /\ cmd'.ops = cmd.ops
      /\ cmd'.copied = cmd.copied /\ cmd'.spec = cmd.spec
  BY <1>2, IdleFields DEF StepsOfCommands, ReadsKept, UndoKept
<1>5. ~Meddles(new) => UNCHANGED cmd
  BY <1>2 DEF Meddles
<1> QED BY <1>1, <1>2, <1>3, <1>4, <1>5

\* A crash, a refusal and the removal of a created file leave no command behind.
LEMMA CrashEffect ==
    ASSUME StepsOfCommands, Crash
    PROVE  /\ DocumentsKept /\ HistoryKept /\ cmd' = Idle /\ cmd.at # "idle"
           /\ history'.last = history.last
           /\ IF cmd.at \in {"readback", "baseline", "checkpoint", "batch", "record"}
              THEN "unrecorded" \in history'.past ELSE history'.past = history.past
  BY DEF Crash, DocumentsKept, HistoryKept, StepsOfCommands

-----------------------------------------------------------------------------
(* The invariant is inductive: types *)

\* A batch that is appended is typed as the others are.
LEMMA AppendedTyped ==
    ASSUME ManagedOnly, Typed, NEW ops, NEW existed \in BOOLEAN,
           OperationsOK(ops), DOMAIN ops \subseteq ManagedKeys,
           batches' = Append(batches, [ops |-> ops, existed |-> existed])
    PROVE  \A i \in DOMAIN batches' :
             /\ OperationsOK(batches'[i].ops)
             /\ DOMAIN batches'[i].ops \subseteq ManagedKeys
             /\ batches'[i].existed \in BOOLEAN
<1> DEFINE b == [ops |-> ops, existed |-> existed]
           n == Len(batches)
<1>1. PICK B : batches \in Seq(B)
  BY DEF ManagedOnly
<1>2. batches \in Seq(B \cup {b}) /\ batches' = Append(batches, b)
  BY <1>1
<1>3. b.ops = ops /\ b.existed = existed
  OBVIOUS
<1> HIDE DEF b
<1>4. /\ n \in Nat /\ DOMAIN batches' = 1 .. n + 1 /\ DOMAIN batches = 1 .. n
      /\ \A i \in 1 .. n : batches'[i] = batches[i]
      /\ batches'[n + 1] = b
  BY <1>2
<1>5. \A i \in 1 .. n + 1 : i \in 1 .. n \/ i = n + 1
  BY <1>4
<1> QED BY <1>3, <1>4, <1>5 DEF Typed, TypeOK, RecordsTyped, OperationsOK

LEMMA TypeOKStep ==
    ASSUME Typed, StepsOfCommands, ManagedOnly, RollbackLedger, Next
    PROVE  TypeOK'
<1> USE IdleFields, IdleDefaults, ContentsFacts
    DEF StepsOfCommands, Typed, TypeOK, LocalsTyped, DocumentsKept
<1>0. ASSUME UNCHANGED <<batches, baseline, checkpoint>>, file' \in Files,
             copies' \subseteq Contents, listed' \subseteq copies',
             cmd'.doc \in Contents, cmd'.before \in Files
      PROVE  TypeOK'
  BY <1>0
<1>i. ASSUME UNCHANGED <<file, batches, baseline, checkpoint, copies, listed>>, cmd' = Idle
      PROVE  TypeOK'
  BY <1>i
<1>1. ASSUME ApplyStarts PROVE TypeOK'
  BY <1>0, <1>1, ApplyStartsEffect
<1>2. ASSUME LoadAndPlan PROVE TypeOK'
  <2>1. UNCHANGED <<file, batches, baseline, checkpoint, copies, listed>>
    BY <1>2 DEF LoadAndPlan
  <2> QED BY <1>0, <1>2, <1>i, <2>1, LoadAndPlanEffect
<1>3. ASSUME Recheck \/ ReadOriginalText \/ CheckNotAppeared \/ LookAgain PROVE TypeOK'
  <2>1. UNCHANGED <<file, batches, baseline, checkpoint, copies, listed>>
    BY <1>3 DEF Recheck, ReadOriginalText, CheckNotAppeared, LookAgain
  <2> QED BY <1>0, <1>3, <1>i, <2>1, LookingEffect
<1>7. ASSUME CopyForRecovery PROVE TypeOK'
  BY <1>0, <1>7, CopyForRecoveryEffect
<1>8. ASSUME ListRecoveryBackup PROVE TypeOK'
  BY <1>0, <1>8 DEF ListRecoveryBackup
<1>9. ASSUME WriteDocument PROVE TypeOK'
  <2>1. OperationsOK(cmd.ops)
    BY <1>9, WriteDocumentEffect DEF Planned, Preparing
  <2> QED BY <1>0, <1>9, <2>1, WriteDocumentEffect, AppliedTyped
<1>10. ASSUME ReadBack PROVE TypeOK'
  <2>1. UNCHANGED <<file, batches, baseline, checkpoint, copies, listed>>
    BY <1>10 DEF ReadBack
  <2> QED BY <1>0, <1>10, <1>i, <2>1, ReadBackEffect
<1>11. ASSUME RecordBaseline PROVE TypeOK'
  <2>1. [content |-> IF cmd.text = NoFile THEN Empty ELSE cmd.text, existed |-> cmd.existed]
            \in Records
    BY DEF Records
  <2> QED BY <1>11, <2>1, RecordBaselineEffect
<1>12. ASSUME RecordCheckpoint PROVE TypeOK'
  <2>1. [content |-> cmd.written, existed |-> cmd.existed] \in Records
    BY DEF Records
  <2> QED BY <1>12, <2>1, RecordCheckpointEffect
<1>13. ASSUME RecordBatch PROVE TypeOK'
  <2>1. OperationsOK(cmd.ops) /\ DOMAIN cmd.ops \subseteq ManagedKeys
    BY <1>13, RecordBatchEffect DEF Planned, Recording, ManagedOnly
  <2>2. \A i \in DOMAIN batches' :
             /\ OperationsOK(batches'[i].ops)
             /\ DOMAIN batches'[i].ops \subseteq ManagedKeys
             /\ batches'[i].existed \in BOOLEAN
    BY <1>13, <2>1, RecordBatchEffect, AppendedTyped
  <2> QED BY <1>13, <2>2, RecordBatchEffect DEF OperationsOK
<1>14. ASSUME NEW command \in Rollbacks, RollbackStarts(command) PROVE TypeOK'
  BY <1>0, <1>14 DEF RollbackStarts
<1>16. ASSUME RestoreCheckpoint PROVE TypeOK'
  BY <1>0, <1>16 DEF RestoreCheckpoint, Records
<1>17. ASSUME Reload PROVE TypeOK'
  <2>1. UNCHANGED <<file, batches, baseline, checkpoint, copies, listed>>
    BY <1>17 DEF Reload
  <2> QED BY <1>0, <1>17, <1>i, <2>1, ReloadEffect
<1>17a. ASSUME UndoNext PROVE TypeOK'
  <2> DEFINE ops == batches[cmd.todo].ops
  <2>1. PICK hits \in SUBSET DOMAIN ops : cmd'.doc = Reverted(ops, cmd.doc, hits)
    BY <1>17a, UndoNextEffect DEF Hits
  <2>2. cmd.todo \in DOMAIN batches
    BY <1>17a, UndoNextEffect DEF ManagedOnly
  <2>3. OperationsOK(ops)
    BY <2>2 DEF OperationsOK, RecordsTyped
  <2>4. Reverted(ops, cmd.doc, hits) \in Contents
    <3> HIDE DEF ops
    <3> QED BY <2>3, RevertedTyped
  <2> QED BY <1>0, <1>17a, <2>1, <2>4, UndoNextEffect
<1>17b. ASSUME FinishUndoing PROVE TypeOK'
  <2>1. UNCHANGED <<file, batches, baseline, checkpoint, copies, listed>>
    BY <1>17b DEF FinishUndoing
  <2> QED BY <1>0, <1>17b, <1>i, <2>1, FinishUndoingEffect
<1>18. ASSUME CopyForRollback PROVE TypeOK'
  <2>1. /\ UNCHANGED <<file, batches, baseline, checkpoint, listed>>
        /\ copies' = copies \cup ({file} \ {NoFile})
    BY <1>18 DEF CopyForRollback
  <2>2. cmd'.doc \in Contents /\ cmd'.before \in Files
    BY <1>18, CopyForRollbackEffect
  <2> QED BY <1>0, <2>1, <2>2
<1>19. ASSUME RollbackRewrites PROVE TypeOK'
  BY <1>0, <1>19, RollbackRewritesEffect
<1>20. ASSUME RollbackDeletes PROVE TypeOK'
  BY <1>0, <1>20 DEF RollbackDeletes
<1>21. ASSUME RecordRollback PROVE TypeOK'
  <2>1. AfterRollback /\ cmd.at = "record"
    BY <1>21, RecordRollbackEffect DEF AfterRollback
  <2>2. /\ OperationsOK(cmd.ops) /\ DOMAIN cmd.ops \subseteq ManagedKeys
        /\ cmd.copied \in copies \cup {NoFile} /\ batches # <<>>
    BY <2>1 DEF ManagedOnly, RollbackLedger, RecordsDocument, AfterRollback
  <2>3. batches[1].existed \in BOOLEAN
    BY <2>2 DEF ManagedOnly
  <2>4. \A i \in DOMAIN batches' :
             /\ OperationsOK(batches'[i].ops)
             /\ DOMAIN batches'[i].ops \subseteq ManagedKeys
             /\ batches'[i].existed \in BOOLEAN
    <3>1. CASE UNCHANGED batches
      BY <3>1 DEF RecordsTyped, OperationsOK
    <3>2. CASE batches' # batches
      BY <1>21, <2>2, <2>3, <3>2, RecordRollbackEffect, AppendedTyped
    <3> QED BY <3>1, <3>2
  <2>5. checkpoint' \in Records
    BY <1>21, <2>3, RecordRollbackEffect DEF Records
  <2>6. UNCHANGED <<file, baseline, copies>> /\ listed' \subseteq copies' /\ cmd' = Idle
    BY <1>21, <2>2, RecordRollbackEffect
  <2> QED BY <2>4, <2>5, <2>6 DEF OperationsOK
<1>22. ASSUME OriginalStarts PROVE TypeOK'
  BY <1>0, <1>22 DEF OriginalStarts
<1>23. ASSUME RecordRemoval PROVE TypeOK'
  BY <1>0, <1>23 DEF RecordRemoval
<1>24. ASSUME UserEdits PROVE TypeOK'
  <2>1. \A new \in UserVersions : new \in Files
    BY DEF UserVersions, Contents, Files
  <2> QED BY <1>0, <1>24, <2>1, UserEditsEffect
<1>25. ASSUME Crash PROVE TypeOK'
  BY <1>i, <1>25, CrashEffect
<1> QED
  BY <1>1, <1>2, <1>3, <1>7, <1>8, <1>9, <1>10, <1>11, <1>12, <1>13, <1>14, <1>16, <1>17, <1>17a, <1>17b, <1>18, <1>19, <1>20, <1>21, <1>22, <1>23, <1>24, <1>25 DEF Next, Command, Rollbacks

LEMMA FromZero == \A n \in Nat : n \in 0 .. n
  OBVIOUS

LEMMA BatchesSequence ==
    ASSUME ManagedOnly
    PROVE  /\ Len(batches) \in Nat /\ DOMAIN batches = 1 .. Len(batches)
           /\ batches # <<>> <=> Len(batches) > 0
  BY DEF ManagedOnly

\* The locals of a command are typed at the steps that use them.
LEMMA LocalsTypedStep ==
    ASSUME Typed, StepsOfCommands, ManagedOnly, Next
    PROVE  LocalsTyped'
<1> USE IdleFields, IdleDefaults DEF StepsOfCommands, Typed, TypeOK, LocalsTyped, DocumentsKept, ReadsKept, UndoKept,
        Planned, RollsBack, AfterRollback, Preparing, Recording, Undoing, Removing, Rollbacks
<1>i. ASSUME cmd' = Idle PROVE LocalsTyped'
  BY <1>i, ContentsFacts, ZenonT(60)
<1>1. ASSUME ApplyStarts PROVE LocalsTyped'
  <2>1. cmd'.at = "appeared" => OperationsOK(cmd'.ops)
    <3>1. cmd'.at = "appeared" => \E spec \in Specs : cmd'.ops = Plan(Empty, spec)
      BY <1>1, ApplyStartsEffect
    <3>2. ASSUME cmd'.at = "appeared" PROVE OperationsOK(cmd'.ops)
      <4>1. PICK spec \in Specs : cmd'.ops = Plan(Empty, spec)
        BY <3>1, <3>2
      <4>2. OperationsOK(Plan(Empty, spec))
        BY PlanTyped, ContentsFacts
      <4> QED BY <4>1, <4>2
    <3> QED BY <3>2
  <2>2. {cmd'.text, cmd'.copied, cmd'.written} \subseteq Files /\ cmd'.existed \in BOOLEAN
    <3>1. cmd'.text = NoFile /\ cmd'.copied = NoFile /\ cmd'.written = NoFile
      BY <1>1, ApplyStartsEffect
    <3>2. cmd'.existed = TRUE \/ cmd'.existed = FALSE
      BY <1>1, ApplyStartsEffect
    <3> QED BY <3>1, <3>2, ContentsFacts, ZenonT(60)
  <2>3. cmd'.at \in {"appeared", "load"}
    BY <1>1, ApplyStartsEffect
  <2> QED BY <2>1, <2>2, <2>3
<1>2. ASSUME LoadAndPlan PROVE LocalsTyped'
  <2>1. CASE cmd' # Idle
    <3>1. OperationsOK(Plan(file, cmd.spec))
      BY <1>2, <2>1, LoadAndPlanEffect, PlanTyped, ContentsFacts DEF ManagedOnly
    <3>2. /\ cmd.at = "load" /\ cmd'.at = "recheck" /\ cmd'.ops = Plan(file, cmd.spec)
          /\ cmd'.copied = cmd.copied /\ ReadsKept
      BY <1>2, <2>1, LoadAndPlanEffect
    <3> QED BY <3>1, <3>2
  <2> QED BY <1>i, <2>1
<1>3. ASSUME Recheck \/ ReadOriginalText \/ CheckNotAppeared \/ LookAgain PROVE LocalsTyped'
  <2>1. CASE cmd' # Idle
    <3>1. cmd'.existed \in BOOLEAN
      BY <1>3, <2>1, LookingEffect
    <3>2. cmd.command = "apply"
      BY <1>3, <2>1, LookingEffect
    <3>3. /\ cmd.at \in {"recheck", "text", "appeared", "exists"} /\ UNCHANGED batches
          /\ cmd'.at \in {"text", "copy", "exists", "write"}
          /\ cmd'.command = cmd.command /\ cmd'.copied = cmd.copied /\ cmd'.written = cmd.written
          /\ cmd'.text \in {cmd.text, file} /\ cmd'.ops = cmd.ops
      BY <1>3, <2>1, LookingEffect
    <3> QED BY <3>1, <3>2, <3>3, ZenonT(60)
  <2> QED BY <1>i, <2>1
<1>7. ASSUME CopyForRecovery PROVE LocalsTyped'
  <2>1. cmd.command = "apply"
    BY <1>7, CopyForRecoveryEffect
  <2>2. /\ cmd.at = "copy" /\ cmd'.at \in {"write", "list"} /\ UNCHANGED batches
        /\ ReadsKept /\ cmd'.ops = cmd.ops
    BY <1>7, CopyForRecoveryEffect
  <2>3. cmd'.copied \in Files /\ (cmd'.at = "list" => cmd'.copied \in copies')
    BY <1>7, CopyForRecoveryEffect
  <2> QED BY <2>1, <2>2, <2>3
<1>8. ASSUME ListRecoveryBackup PROVE LocalsTyped'
  BY <1>8 DEF ListRecoveryBackup
<1>9. ASSUME WriteDocument PROVE LocalsTyped'
  <2>1. /\ cmd.at = "write" /\ cmd.command = "apply" /\ cmd'.at = "readback"
        /\ ReadsKept /\ cmd'.ops = cmd.ops /\ cmd'.copied = cmd.copied
    BY <1>9, WriteDocumentEffect
  <2> QED BY <2>1
<1>10. ASSUME ReadBack PROVE LocalsTyped'
  <2>1. CASE cmd' # Idle
    <3>1. /\ cmd.at = "readback" /\ UNCHANGED <<batches, copies>>
          /\ cmd'.at = IF cmd.command = "apply" THEN "baseline" ELSE "record"
          /\ cmd'.written = file /\ cmd'.command = cmd.command
          /\ cmd'.existed = cmd.existed /\ cmd'.text = cmd.text
          /\ cmd'.ops = cmd.ops /\ cmd'.copied = cmd.copied
      BY <1>10, <2>1, ReadBackEffect
    <3> QED BY <3>1
  <2> QED BY <1>i, <2>1
<1>11. ASSUME RecordBaseline PROVE LocalsTyped'
  <2>1. /\ cmd.at = "baseline" /\ cmd'.at = "checkpoint" /\ ReadsKept
        /\ cmd'.ops = cmd.ops /\ cmd'.copied = cmd.copied
    BY <1>11, RecordBaselineEffect
  <2> QED BY <2>1
<1>12. ASSUME RecordCheckpoint PROVE LocalsTyped'
  <2>1. /\ cmd.at = "checkpoint" /\ cmd'.at = "batch" /\ ReadsKept
        /\ cmd'.ops = cmd.ops /\ cmd'.copied = cmd.copied
    BY <1>12, RecordCheckpointEffect
  <2> QED BY <2>1
<1>13. ASSUME RecordBatch PROVE LocalsTyped'
  BY <1>13, <1>i, RecordBatchEffect
<1>14. ASSUME NEW command \in Rollbacks, RollbackStarts(command) PROVE LocalsTyped'
  <2>1. /\ UNCHANGED <<file, batches, baseline, checkpoint, listed, copies>> /\ batches # <<>>
        /\ file = NoFile => checkpoint # None
        /\ cmd' = [Idle EXCEPT !.at = IF file = NoFile THEN "restore" ELSE "reload",
                               !.command = command]
    BY <1>14 DEF RollbackStarts
  <2> QED BY <2>1, ContentsFacts, ZenonT(60)
<1>16. ASSUME RestoreCheckpoint PROVE LocalsTyped'
  BY <1>16, ContentsFacts DEF RestoreCheckpoint
<1>17. ASSUME Reload PROVE LocalsTyped'
  <2>1. CASE cmd' # Idle
    <3>1. Len(batches) \in 0 .. Len(batches)
      <4>1. Len(batches) \in Nat
        BY BatchesSequence
      <4> QED BY <4>1, FromZero
    <3> QED BY <1>17, <2>1, <3>1, ReloadEffect, ZenonT(60)
  <2> QED BY <1>i, <2>1
<1>17a. ASSUME UndoNext PROVE LocalsTyped'
  <2>1. cmd.at = "undo" /\ cmd.todo > 0 /\ UNCHANGED batches /\ Len(batches) \in Nat
    BY <1>17a, UndoNextEffect, BatchesSequence
  <2>2. cmd.todo - 1 \in 0 .. Len(batches)
    BY <2>1
  <2>3. /\ cmd'.at = "undo" /\ cmd'.todo = cmd.todo - 1 /\ DocumentsKept
        /\ ReadsKept /\ cmd'.copied = cmd.copied
    BY <1>17a, UndoNextEffect
  <2> QED BY <2>1, <2>2, <2>3
<1>17b. ASSUME FinishUndoing PROVE LocalsTyped'
  <2>1. CASE cmd' # Idle
    <3>1. OperationsOK(StateOperations(cmd.doc, cmd.skipped))
      BY StateOperationsTyped DEF ManagedOnly
    <3>2. cmd'.at \in {"copy rewritten", "copy deleted"}
      BY <1>17b, <2>1, FinishUndoingEffect
    <3>3. /\ cmd.at = "undo" /\ cmd'.ops = StateOperations(cmd.doc, cmd.skipped)
          /\ DocumentsKept /\ ReadsKept /\ cmd'.copied = cmd.copied
      BY <1>17b, <2>1, FinishUndoingEffect
    <3> QED BY <3>1, <3>2, <3>3, ZenonT(60)
  <2> QED BY <1>i, <2>1
<1>18. ASSUME CopyForRollback PROVE LocalsTyped'
  <2>1. CASE cmd' # Idle
    <3>1. cmd'.at \in {"rewrite", "unlink"}
      BY <1>18, <2>1, CopyForRollbackEffect
    <3>2. cmd'.copied \in copies' \cup {NoFile} /\ cmd'.copied \in Files
      BY <1>18, <2>1, CopyForRollbackEffect
    <3>3. /\ cmd.at \in {"copy rewritten", "copy deleted"} /\ UNCHANGED batches
          /\ ReadsKept /\ cmd'.ops = cmd.ops
      BY <1>18, <2>1, CopyForRollbackEffect
    <3>4. cmd'.command \in Rollbacks \cup {"remove"} /\ UNCHANGED checkpoint
      BY <1>18, <2>1, <3>3, CopyForRollbackEffect
    <3>5. cmd'.command \in Rollbacks => batches # <<>> /\ OperationsOK(cmd.ops)
      BY <3>3
    <3>6. cmd'.at = "rewrite" => cmd.at = "copy rewritten"
      BY <1>18, <2>1, CopyForRollbackEffect
    <3>7. {cmd'.text, cmd'.written} \subseteq Files /\ cmd'.existed \in BOOLEAN
      BY <3>3
    <3> QED BY <3>1, <3>2, <3>3, <3>4, <3>5, <3>6, <3>7
  <2> QED BY <1>i, <2>1
<1>19. ASSUME RollbackRewrites PROVE LocalsTyped'
  <2>1. /\ cmd.at = "rewrite" /\ cmd'.at = "readback" /\ UNCHANGED <<batches, copies>>
        /\ ReadsKept /\ cmd'.ops = cmd.ops /\ cmd'.copied = cmd.copied
    BY <1>19, RollbackRewritesEffect
  <2> QED BY <2>1
<1>20. ASSUME RollbackDeletes PROVE LocalsTyped'
  <2>1. CASE cmd' # Idle
    <3>1. /\ cmd.at = "unlink" /\ cmd'.at = "record" /\ UNCHANGED <<batches, copies>>
          /\ ReadsKept /\ cmd'.ops = cmd.ops /\ cmd'.copied = cmd.copied
      BY <1>20, <2>1, RollbackDeletesEffect
    <3> QED BY <3>1
  <2> QED BY <1>i, <2>1
<1>21. ASSUME RecordRollback PROVE LocalsTyped'
  BY <1>21, <1>i, RecordRollbackEffect
<1>22. ASSUME OriginalStarts PROVE LocalsTyped'
  BY <1>22, ContentsFacts, ZenonT(60) DEF OriginalStarts
<1>23. ASSUME RecordRemoval PROVE LocalsTyped'
  BY <1>i, <1>23 DEF RecordRemoval
<1>24. ASSUME UserEdits PROVE LocalsTyped'
  <2>1. /\ UNCHANGED <<batches, checkpoint, copies>> /\ cmd'.at = cmd.at
        /\ ReadsKept /\ UndoKept /\ cmd'.ops = cmd.ops /\ cmd'.copied = cmd.copied
    BY <1>24, UserEditsEffect
  <2>2. {cmd'.text, cmd'.copied, cmd'.written} \subseteq Files /\ cmd'.existed \in BOOLEAN
    BY <2>1, ZenonT(60)
  <2>3. Planned' \/ RollsBack' \/ AfterRollback' => OperationsOK(cmd'.ops)
    BY <2>1
  <2>4. /\ cmd'.at = "list" => cmd'.copied \in copies'
        /\ cmd'.at \in {"rewrite", "unlink", "record"} \/ AfterRollback' =>
               cmd'.copied \in copies' \cup {NoFile}
    BY <2>1
  <2> QED BY <2>1, <2>2, <2>3, <2>4
<1>25. ASSUME Crash PROVE LocalsTyped'
  BY <1>i, <1>25, CrashEffect
<1> QED
  BY <1>1, <1>2, <1>3, <1>7, <1>8, <1>9, <1>10, <1>11, <1>12, <1>13, <1>14, <1>16, <1>17, <1>17a, <1>17b, <1>18, <1>19, <1>20, <1>21, <1>22, <1>23, <1>24, <1>25 DEF Next, Command, Rollbacks

\* What the batches record is of its kind.
LEMMA RecordsTypedStep ==
    ASSUME Typed, StepsOfCommands, ManagedOnly, RollbackLedger, Next
    PROVE  RecordsTyped'
<1> USE DEF Typed, RecordsTyped
<1>0. ASSUME UNCHANGED batches, history'.mine = history.mine PROVE RecordsTyped'
  BY <1>0
<1>1. ASSUME RecordBatch PROVE RecordsTyped'
  <2>1. OperationsOK(cmd.ops) /\ DOMAIN cmd.ops \subseteq ManagedKeys /\ cmd.existed \in BOOLEAN
    BY <1>1, RecordBatchEffect DEF LocalsTyped, Planned, Recording, ManagedOnly
  <2>2. \A i \in DOMAIN batches' : OperationsOK(batches'[i].ops)
    BY <1>1, <2>1, RecordBatchEffect, AppendedTyped
  <2> QED BY <1>1, <2>2, RecordBatchEffect, ReturningEffect DEF OperationsOK, HistoryKept
<1>2. ASSUME RecordRollback PROVE RecordsTyped'
  <2>1. AfterRollback /\ cmd.at = "record"
    BY <1>2, RecordRollbackEffect DEF AfterRollback
  <2>2. /\ OperationsOK(cmd.ops) /\ DOMAIN cmd.ops \subseteq ManagedKeys /\ batches # <<>>
    BY <2>1 DEF ManagedOnly, RollbackLedger, RecordsDocument, AfterRollback, LocalsTyped
  <2>3. batches[1].existed \in BOOLEAN
    BY <2>2 DEF ManagedOnly, TypeOK
  <2>4. history'.mine = history.mine
    BY <1>2, RecordRollbackEffect, ReturningEffect DEF HistoryKept
  <2>5. CASE UNCHANGED batches
    BY <1>0, <2>4, <2>5
  <2>6. CASE batches' # batches
    <3>1. \A i \in DOMAIN batches' : OperationsOK(batches'[i].ops)
      BY <1>2, <2>2, <2>3, <2>6, RecordRollbackEffect, AppendedTyped
    <3> QED BY <2>4, <3>1 DEF OperationsOK
  <2> QED BY <2>5, <2>6
<1>3. ASSUME UserEdits PROVE RecordsTyped'
  <2>1. \A new \in UserVersions : DocOf(new) \in Contents
    BY ContentsFacts DEF UserVersions, Contents, Files, DocOf, TypeOK
  <2> QED BY <1>3, <2>1, UserEditsEffect
<1>4. ASSUME WriteDocument \/ RollbackRewrites PROVE RecordsTyped'
  BY <1>0, <1>4, WriteDocumentEffect, RollbackRewritesEffect
<1>5. ASSUME RollbackDeletes PROVE RecordsTyped'
  <2>1. CASE cmd' = Idle
    <3>1. UNCHANGED <<batches, history>>
      BY <1>5, <2>1, IdleFields DEF RollbackDeletes, StepsOfCommands
    <3> QED BY <1>0, <3>1
  <2>2. CASE cmd' # Idle
    BY <1>0, <1>5, <2>2, RollbackDeletesEffect
  <2> QED BY <2>1, <2>2
<1>6. ASSUME Next, ~RecordBatch, ~RecordRollback, ~UserEdits,
             ~WriteDocument, ~RollbackRewrites, ~RollbackDeletes
      PROVE  UNCHANGED batches /\ history'.mine = history.mine
  BY <1>6 DEF StepsOfCommands, Next, Command, ApplyStarts, LoadAndPlan, Recheck, ReadOriginalText,
    CheckNotAppeared, LookAgain, CopyForRecovery, ListRecoveryBackup, ReadBack, RecordBaseline,
    RecordCheckpoint, RollbackStarts, RestoreCheckpoint, Reload, UndoNext, UndoOne, FinishUndoing,
    CopyForRollback, OriginalStarts, RecordRemoval, Crash
<1> QED BY <1>0, <1>1, <1>2, <1>3, <1>4, <1>5, <1>6

-----------------------------------------------------------------------------
(* The invariant is inductive: what a command knows of the file *)

\* What is recorded as it was planned or undone.
OpsKept == cmd'.doc = cmd.doc /\ cmd'.ops = cmd.ops /\ cmd'.command = cmd.command

\* The batch that is undone next.
LEMMA BatchTyped ==
    ASSUME Typed, ManagedOnly, cmd.at = "undo", cmd.todo > 0
    PROVE  cmd.todo \in DOMAIN batches /\ OperationsOK(batches[cmd.todo].ops)
<1>1. cmd.todo \in 0 .. Len(batches)
  BY DEF Typed, LocalsTyped
<1>2. cmd.todo \in DOMAIN batches
  BY <1>1, BatchesSequence
<1> QED BY <1>2 DEF OperationsOK, Typed, TypeOK, RecordsTyped

LEMMA NothingReverted ==
    ASSUME Typed, NEW ops, OperationsOK(ops)
    PROVE  Reverted(ops, cmd.doc, {}) = cmd.doc
  BY RevertedTyped DEF Typed, TypeOK

LEMMA StateUnrecorded ==
    ASSUME StepsOfCommands, FinishUndoing, cmd' # Idle
    PROVE  \A k \in DOMAIN cmd'.ops : cmd'.ops[k].before = Unrecorded
<1>1. \A k \in DOMAIN StateOperations(cmd.doc, cmd.skipped) :
          StateOperations(cmd.doc, cmd.skipped)[k].before = Unrecorded
  BY DEF StateOperations
<1>2. cmd'.ops = StateOperations(cmd.doc, cmd.skipped)
  BY FinishUndoingEffect
<1> QED BY <1>1, <1>2

LEMMA DocumentsFitStep ==
    ASSUME Typed, StepsOfCommands, ManagedOnly, DocumentsFit, Next
    PROVE  DocumentsFit'
<1> USE IdleFields
    DEF StepsOfCommands, DocumentsFit, Planned, RollsBack, AfterRollback,
        Preparing, Recording, Undoing, Removing, Rollbacks
<1>i. ASSUME cmd' = Idle PROVE DocumentsFit'
  BY <1>i
<1>a. ASSUME OpsKept, Planned' => Planned, RollsBack' \/ AfterRollback' => RollsBack \/ AfterRollback,
             cmd'.at \notin {"undo", "batch"}
      PROVE  DocumentsFit'
  BY <1>a, ZenonT(60) DEF OpsKept
<1>1. ASSUME ApplyStarts PROVE DocumentsFit'
  <2>1. cmd'.command = "apply" /\ cmd'.doc = Empty /\ cmd'.at \in {"appeared", "load"}
    BY <1>1, ApplyStartsEffect
  <2>2. ASSUME cmd'.at = "appeared"
        PROVE  DOMAIN cmd'.ops # {} /\ \A k \in DOMAIN cmd'.ops : cmd'.ops[k].before = Empty[k]
    <3>1. DOMAIN cmd'.ops # {} /\ \E spec \in Specs : cmd'.ops = Plan(Empty, spec)
      BY <1>1, <2>2, ApplyStartsEffect
    <3>2. PICK spec \in Specs : cmd'.ops = Plan(Empty, spec)
      BY <3>1
    <3>3. \A k \in DOMAIN Plan(Empty, spec) : Plan(Empty, spec)[k].before = Empty[k]
      BY PlanTyped, ContentsFacts, ZenonT(60)
    <3> QED BY <3>1, <3>2, <3>3, ZenonT(60)
  <2> QED BY <2>1, <2>2
<1>2. ASSUME LoadAndPlan, cmd' # Idle PROVE DocumentsFit'
  <2>1. /\ cmd.at = "load" /\ cmd'.at = "recheck" /\ cmd'.doc = file /\ file # NoFile
        /\ cmd'.ops = Plan(file, cmd.spec) /\ DOMAIN cmd'.ops # {}
    BY <1>2, LoadAndPlanEffect
  <2>2. file \in Contents
    BY <2>1, ContentsFacts DEF Typed, TypeOK
  <2>3. \A k \in DOMAIN Plan(file, cmd.spec) : Plan(file, cmd.spec)[k].before = file[k]
    BY <2>1, <2>2, PlanTyped DEF ManagedOnly
  <2> QED BY <2>1, <2>3
<1>3. ASSUME Recheck \/ ReadOriginalText \/ CheckNotAppeared \/ LookAgain, cmd' # Idle
      PROVE  DocumentsFit'
  <2>1. /\ cmd.at \in {"recheck", "text", "appeared", "exists"} /\ OpsKept
        /\ cmd'.at \in {"text", "copy", "exists", "write"}
    BY <1>3, LookingEffect DEF OpsKept
  <2> QED BY <1>a, <2>1 DEF OpsKept
<1>7. ASSUME CopyForRecovery PROVE DocumentsFit'
  <2>1. cmd.at = "copy" /\ OpsKept /\ cmd'.at \in {"list", "write"}
    BY <1>7, CopyForRecoveryEffect DEF OpsKept, ReadsKept
  <2> QED BY <1>a, <2>1 DEF OpsKept
<1>8. ASSUME ListRecoveryBackup PROVE DocumentsFit'
  BY <1>8 DEF ListRecoveryBackup
<1>9. ASSUME WriteDocument PROVE DocumentsFit'
  <2>1. cmd.at = "write" /\ cmd.command = "apply" /\ OpsKept /\ cmd'.at = "readback"
    BY <1>9, WriteDocumentEffect DEF OpsKept, ReadsKept
  <2> QED BY <1>a, <2>1 DEF OpsKept
<1>10. ASSUME ReadBack, cmd' # Idle PROVE DocumentsFit'
  <2>1. /\ cmd.at = "readback" /\ OpsKept
        /\ cmd'.at = IF cmd.command = "apply" THEN "baseline" ELSE "record"
    BY <1>10, ReadBackEffect DEF OpsKept
  <2> QED BY <1>a, <2>1 DEF OpsKept
<1>11. ASSUME RecordBaseline PROVE DocumentsFit'
  <2>1. cmd.at = "baseline" /\ OpsKept /\ cmd'.at = "checkpoint"
    BY <1>11, RecordBaselineEffect DEF OpsKept, ReadsKept
  <2> QED BY <1>a, <2>1 DEF OpsKept
<1>12. ASSUME RecordCheckpoint PROVE DocumentsFit'
  <2>1. /\ cmd.at = "checkpoint" /\ OpsKept /\ cmd'.at = "batch" /\ cmd'.written = cmd.written
        /\ checkpoint' = [content |-> cmd.written, existed |-> cmd.existed]
    BY <1>12, RecordCheckpointEffect DEF OpsKept, ReadsKept
  <2>2. checkpoint' # None /\ checkpoint'.content = cmd.written
    <3>1. checkpoint' \in [content : Files, existed : BOOLEAN]
      BY <2>1 DEF Typed, LocalsTyped
    <3>2. None \notin [content : Files, existed : BOOLEAN]
      BY KeysAssumption
    <3> QED BY <2>1, <3>1, <3>2
  <2> QED BY <2>1, <2>2 DEF OpsKept
<1>13. ASSUME RecordBatch PROVE DocumentsFit'
  BY <1>13, <1>i, RecordBatchEffect
<1>14. ASSUME NEW command \in Rollbacks, RollbackStarts(command) PROVE DocumentsFit'
  BY <1>14 DEF RollbackStarts
<1>16. ASSUME RestoreCheckpoint PROVE DocumentsFit'
  BY <1>16 DEF RestoreCheckpoint
<1>17. ASSUME Reload, cmd' # Idle PROVE DocumentsFit'
  BY <1>17, ReloadEffect
<1>17a. ASSUME UndoNext PROVE DocumentsFit'
  <2> DEFINE ops == batches[cmd.todo].ops
  <2>1. cmd.at = "undo" /\ cmd'.at = "undo" /\ cmd'.before = cmd.before
    BY <1>17a, UndoNextEffect
  <2>2. PICK hits \in SUBSET DOMAIN ops : /\ cmd'.doc = Reverted(ops, cmd.doc, hits)
                                          /\ cmd'.changed = (cmd.changed \/ hits # {})
    BY <1>17a, UndoNextEffect DEF Hits
  <2>3. OperationsOK(ops)
    BY <1>17a, UndoNextEffect, BatchTyped
  <2>4. hits = {} => Reverted(ops, cmd.doc, hits) = cmd.doc
    BY <2>3, NothingReverted
  <2>5. ~cmd'.changed => cmd'.doc = cmd'.before
    BY <2>1, <2>2, <2>4
  <2> QED BY <2>1, <2>5
<1>17b. ASSUME FinishUndoing, cmd' # Idle PROVE DocumentsFit'
  <2>1. /\ cmd'.at \in {"copy rewritten", "copy deleted"} /\ cmd'.doc = cmd.doc
        /\ cmd'.ops = StateOperations(cmd.doc, cmd.skipped)
    BY <1>17b, FinishUndoingEffect
  <2>2. \A k \in DOMAIN cmd'.ops : cmd'.ops[k].before = Unrecorded
    BY <1>17b, StateUnrecorded
  <2>3. ~Planned' /\ cmd'.at \notin {"undo", "batch"}
    BY <2>1
  <2> HIDE DEF Planned, RollsBack, AfterRollback
  <2> QED BY <2>2, <2>3
<1>18. ASSUME CopyForRollback, cmd' # Idle PROVE DocumentsFit'
  <2>1. /\ cmd.at \in {"copy rewritten", "copy deleted"} /\ OpsKept
        /\ cmd'.at \in {"rewrite", "unlink"}
    BY <1>18, CopyForRollbackEffect DEF OpsKept, ReadsKept
  <2> QED BY <1>a, <2>1 DEF OpsKept
<1>19. ASSUME RollbackRewrites PROVE DocumentsFit'
  <2>1. cmd.at = "rewrite" /\ OpsKept /\ cmd'.at = "readback"
    BY <1>19, RollbackRewritesEffect DEF OpsKept, ReadsKept
  <2> QED BY <1>a, <2>1 DEF OpsKept
<1>20. ASSUME RollbackDeletes, cmd' # Idle PROVE DocumentsFit'
  <2>1. cmd.at = "unlink" /\ OpsKept /\ cmd'.at = "record"
    BY <1>20, RollbackDeletesEffect DEF OpsKept, ReadsKept
  <2> QED BY <1>a, <2>1 DEF OpsKept
<1>21. ASSUME RecordRollback PROVE DocumentsFit'
  BY <1>21, <1>i, RecordRollbackEffect
<1>22. ASSUME OriginalStarts PROVE DocumentsFit'
  BY <1>22 DEF OriginalStarts
<1>23. ASSUME RecordRemoval PROVE DocumentsFit'
  BY <1>i, <1>23 DEF RecordRemoval
<1>24. ASSUME UserEdits PROVE DocumentsFit'
  <2>1. /\ cmd'.at = cmd.at /\ OpsKept /\ UndoKept /\ cmd'.before = cmd.before
        /\ cmd'.written = cmd.written /\ UNCHANGED checkpoint
    BY <1>24, UserEditsEffect DEF OpsKept, ReadsKept
  <2>2. /\ cmd'.at = "undo" /\ ~cmd'.changed => cmd'.doc = cmd'.before
        /\ cmd'.at = "batch" => checkpoint' # None /\ checkpoint'.content = cmd'.written
    BY <2>1 DEF OpsKept, UndoKept
  <2>3. /\ Planned' => /\ DOMAIN cmd'.ops # {}
                       /\ \A k \in DOMAIN cmd'.ops : cmd'.ops[k].before = cmd'.doc[k]
        /\ RollsBack' \/ AfterRollback' => \A k \in DOMAIN cmd'.ops : cmd'.ops[k].before = Unrecorded
    <3>1. (Planned' => Planned) /\ (RollsBack' \/ AfterRollback' => RollsBack \/ AfterRollback)
      BY <2>1 DEF OpsKept
    <3>2. Planned => /\ DOMAIN cmd.ops # {}
                     /\ \A k \in DOMAIN cmd.ops : cmd.ops[k].before = cmd.doc[k]
      OBVIOUS
    <3>3. RollsBack \/ AfterRollback => \A k \in DOMAIN cmd.ops : cmd.ops[k].before = Unrecorded
      OBVIOUS
    <3>4. cmd'.doc = cmd.doc /\ cmd'.ops = cmd.ops
      BY <2>1 DEF OpsKept
    <3> HIDE DEF Planned, RollsBack, AfterRollback
    <3> QED BY <3>1, <3>2, <3>3, <3>4, ZenonT(60)
  <2> QED BY <2>2, <2>3
<1>25. ASSUME Crash PROVE DocumentsFit'
  BY <1>i, <1>25, CrashEffect
<1> QED
  BY <1>i, <1>1, <1>2, <1>3, <1>7, <1>8, <1>9, <1>10, <1>11, <1>12, <1>13, <1>14, <1>16, <1>17, <1>17a, <1>17b, <1>18, <1>19, <1>20, <1>21, <1>22, <1>23, <1>24, <1>25 DEF Next, Command, Rollbacks

\* As long as nobody meddles, a command works on the file that it has read.
LEMMA UndisturbedStep ==
    ASSUME Typed, StepsOfCommands, RollbackLedger, DocumentsFit, Undisturbed, Next
    PROVE  Undisturbed'
<1> USE IdleFields
    DEF StepsOfCommands, Undisturbed, RollsBack, AfterRollback, AfterApply,
        Preparing, Recording, Undoing, Removing, Rollbacks
<1>i. ASSUME cmd' = Idle PROVE Undisturbed'
  BY <1>i
<1>1. ASSUME ApplyStarts PROVE Undisturbed'
  <2>1. /\ UNCHANGED file /\ cmd'.doc = Empty /\ cmd'.before = file /\ cmd'.at \in {"appeared", "load"}
        /\ cmd'.existed <=> file # NoFile
        /\ cmd'.at = "appeared" => file = NoFile
    BY <1>1, ApplyStartsEffect DEF DocumentsKept
  <2> QED BY <2>1 DEF DocOf
<1>2. ASSUME LoadAndPlan, cmd' # Idle PROVE Undisturbed'
  <2>1. /\ cmd.at = "load" /\ cmd'.at = "recheck" /\ cmd'.doc = file /\ file # NoFile
        /\ UNCHANGED <<file, history>> /\ cmd'.before = cmd.before /\ cmd'.existed = cmd.existed
    BY <1>2, LoadAndPlanEffect DEF DocumentsKept, ReadsKept
  <2> QED BY <2>1 DEF DocOf
<1>3. ASSUME Recheck \/ ReadOriginalText \/ CheckNotAppeared \/ LookAgain, cmd' # Idle
      PROVE  Undisturbed'
  <2>1. /\ cmd.at \in {"recheck", "text", "appeared", "exists"}
        /\ cmd'.at \in {"text", "copy", "exists", "write"}
        /\ UNCHANGED <<file, history>> /\ cmd'.before = cmd.before /\ cmd'.doc = cmd.doc
        /\ cmd'.existed = (IF LookAgain THEN file # NoFile ELSE cmd.existed)
    BY <1>3, LookingEffect DEF DocumentsKept
  <2> QED BY <2>1
<1>7. ASSUME CopyForRecovery PROVE Undisturbed'
  <2>1. /\ cmd.at = "copy" /\ cmd'.at \in {"list", "write"} /\ UNCHANGED <<file, history>>
        /\ cmd'.before = cmd.before /\ cmd'.doc = cmd.doc /\ cmd'.existed = cmd.existed
    BY <1>7, CopyForRecoveryEffect DEF ReadsKept
  <2> QED BY <2>1
<1>8. ASSUME ListRecoveryBackup PROVE Undisturbed'
  BY <1>8 DEF ListRecoveryBackup
<1>9. ASSUME WriteDocument PROVE Undisturbed'
  <2>1. /\ cmd'.at = "readback" /\ cmd.command = "apply" /\ cmd'.command = cmd.command
        /\ file' = Applied(cmd.doc, cmd.ops) /\ cmd'.doc = cmd.doc /\ cmd'.ops = cmd.ops
    BY <1>9, WriteDocumentEffect DEF ReadsKept
  <2>2. Applied(cmd'.doc, cmd'.ops) = Applied(cmd.doc, cmd.ops)
    BY <2>1
  <2> QED BY <2>1, <2>2
<1>10. ASSUME ReadBack, cmd' # Idle PROVE Undisturbed'
  <2>1. /\ cmd.at = "readback" /\ UNCHANGED <<file, history>> /\ file # NoFile
        /\ cmd'.at = IF cmd.command = "apply" THEN "baseline" ELSE "record"
        /\ cmd'.written = file /\ cmd'.command = cmd.command
        /\ cmd'.doc = cmd.doc /\ cmd'.ops = cmd.ops
    BY <1>10, ReadBackEffect DEF DocumentsKept
  <2>2. Applied(cmd'.doc, cmd'.ops) = Applied(cmd.doc, cmd.ops)
    BY <2>1
  <2> QED BY <2>1, <2>2
<1>11. ASSUME RecordBaseline \/ RecordCheckpoint PROVE Undisturbed'
  <2>1. /\ cmd.at \in {"baseline", "checkpoint"} /\ cmd'.at \in {"checkpoint", "batch"}
        /\ UNCHANGED <<file, history>> /\ cmd'.command = cmd.command
        /\ cmd'.doc = cmd.doc /\ cmd'.ops = cmd.ops /\ cmd'.written = cmd.written
    BY <1>11, RecordBaselineEffect, RecordCheckpointEffect DEF ReadsKept
  <2>2. Applied(cmd'.doc, cmd'.ops) = Applied(cmd.doc, cmd.ops)
    BY <2>1
  <2> QED BY <2>1, <2>2
<1>13. ASSUME RecordBatch PROVE Undisturbed'
  BY <1>13, <1>i, RecordBatchEffect
<1>14. ASSUME NEW command \in Rollbacks, RollbackStarts(command) PROVE Undisturbed'
  BY <1>14 DEF RollbackStarts
<1>16. ASSUME RestoreCheckpoint PROVE Undisturbed'
  BY <1>16 DEF RestoreCheckpoint
<1>17. ASSUME Reload, cmd' # Idle PROVE Undisturbed'
  <2>1. cmd'.at = "undo" /\ cmd'.before = file /\ file # NoFile /\ UNCHANGED file
    BY <1>17, ReloadEffect DEF DocumentsKept
  <2> QED BY <2>1
<1>17a. ASSUME UndoNext PROVE Undisturbed'
  <2>1. cmd.at = "undo" /\ cmd'.at = "undo" /\ cmd'.before = cmd.before /\ UNCHANGED <<file, history>>
    BY <1>17a, UndoNextEffect DEF DocumentsKept
  <2> QED BY <2>1
<1>17b. ASSUME FinishUndoing, cmd' # Idle PROVE Undisturbed'
  <2>1. /\ cmd.at = "undo" /\ cmd'.at \in {"copy rewritten", "copy deleted"}
        /\ cmd'.before = cmd.before /\ UNCHANGED file /\ history.past \subseteq history'.past
    BY <1>17b, FinishUndoingEffect DEF DocumentsKept, HistoryKept
  <2> QED BY <2>1
<1>18. ASSUME CopyForRollback, cmd' # Idle PROVE Undisturbed'
  <2>1. /\ cmd.at \in {"copy rewritten", "copy deleted"} /\ cmd'.at \in {"rewrite", "unlink"}
        /\ cmd'.before = cmd.before /\ UNCHANGED <<file, history>> /\ cmd'.command = cmd.command
    BY <1>18, CopyForRollbackEffect DEF ReadsKept
  <2> QED BY <2>1
<1>19. ASSUME RollbackRewrites PROVE Undisturbed'
  <2>1. /\ cmd.at = "rewrite" /\ cmd'.at = "readback" /\ file' = cmd.doc /\ cmd'.doc = cmd.doc
        /\ cmd'.command = cmd.command
    BY <1>19, RollbackRewritesEffect DEF ReadsKept
  <2> QED BY <2>1
<1>20. ASSUME RollbackDeletes, cmd' # Idle PROVE Undisturbed'
  <2>1. /\ cmd.at = "unlink" /\ cmd'.at = "record" /\ file' = NoFile /\ cmd'.doc = cmd.doc
        /\ cmd'.command = cmd.command
    BY <1>20, RollbackDeletesEffect DEF ReadsKept
  <2>2. cmd.command \in Rollbacks => ~HasContent(cmd.doc)
    BY <2>1 DEF RollbackLedger
  <2>3. HasContent(cmd'.doc) <=> HasContent(cmd.doc)
    BY <2>1
  <2> QED BY <2>1, <2>2, <2>3
<1>21. ASSUME RecordRollback PROVE Undisturbed'
  BY <1>21, <1>i, RecordRollbackEffect
<1>22. ASSUME OriginalStarts PROVE Undisturbed'
  BY <1>22 DEF OriginalStarts
<1>23. ASSUME RecordRemoval PROVE Undisturbed'
  BY <1>i, <1>23 DEF RecordRemoval
<1>24. ASSUME UserEdits PROVE Undisturbed'
  <2>1. CASE "meddled" \in history'.past
    BY <2>1
  <2>2. CASE "meddled" \notin history'.past
    <3>1. cmd'.at = "idle"
      BY <1>24, <2>2, UserEditsEffect DEF Meddles
    <3> QED BY <3>1
  <2> QED BY <2>1, <2>2
<1>25. ASSUME Crash PROVE Undisturbed'
  BY <1>i, <1>25, CrashEffect
<1> QED
  BY <1>i, <1>1, <1>2, <1>3, <1>7, <1>8, <1>9, <1>10, <1>11, <1>13, <1>14, <1>16, <1>17, <1>17a, <1>17b, <1>18, <1>19, <1>20, <1>21, <1>22, <1>23, <1>24, <1>25 DEF Next, Command, Rollbacks

-----------------------------------------------------------------------------
(* The state after some of the batches *)

LastOf(S) == CHOOSE j \in S : \A l \in S : l <= j

Having(bs, i, k) == {j \in 1 .. i : k \in DOMAIN bs[j].ops}

LEMMA StateOfLast ==
    ASSUME NEW bs, NEW origin, NEW i, NEW k
    PROVE  AfterBatches(bs, origin, i, k) =
               IF Having(bs, i, k) = {} THEN KeyOf(origin, k)
               ELSE bs[LastOf(Having(bs, i, k))].ops[k].value
  BY DEF AfterBatches, Having, LastOf

LEMMA LastOfPositions ==
    ASSUME NEW n \in Nat, NEW S \in SUBSET (1 .. n), S # {}
    PROVE  LastOf(S) \in S /\ \A l \in S : l <= LastOf(S)
  BY LastPosition DEF LastOf

\* No batch, no change.
LEMMA StateAtStart ==
    ASSUME NEW bs, NEW origin, NEW k
    PROVE  AfterBatches(bs, origin, 0, k) = KeyOf(origin, k)
<1>1. Having(bs, 0, k) = {}
  BY DEF Having
<1> QED BY <1>1, StateOfLast

\* A batch decides about its own keys.
LEMMA StateAfterBatch ==
    ASSUME NEW bs, NEW origin, NEW i \in Nat, NEW k, i > 0
    PROVE  AfterBatches(bs, origin, i, k) =
               IF k \in DOMAIN bs[i].ops THEN bs[i].ops[k].value
               ELSE AfterBatches(bs, origin, i - 1, k)
<1>2. CASE k \in DOMAIN bs[i].ops
  <2>1. i \in Having(bs, i, k) /\ Having(bs, i, k) \in SUBSET (1 .. i)
    BY <1>2 DEF Having
  <2>2. LastOf(Having(bs, i, k)) \in 1 .. i /\ i <= LastOf(Having(bs, i, k))
    BY <2>1, LastOfPositions
  <2>3. LastOf(Having(bs, i, k)) = i
    BY <2>2
  <2> QED BY <1>2, <2>1, <2>3, StateOfLast
<1>3. CASE k \notin DOMAIN bs[i].ops
  <2>1. \A j : j \in 1 .. i <=> j \in 1 .. i - 1 \/ j = i
    OBVIOUS
  <2>2. Having(bs, i, k) = Having(bs, i - 1, k)
    BY <1>3, <2>1 DEF Having
  <2> QED BY <1>3, <2>2, StateOfLast
<1> QED BY <1>2, <1>3

\* Later batches do not change the state after earlier ones.
LEMMA StateOfPrefix ==
    ASSUME NEW bs, NEW cs, NEW origin, NEW i \in Nat, NEW k,
           \A j \in 1 .. i : cs[j] = bs[j]
    PROVE  AfterBatches(cs, origin, i, k) = AfterBatches(bs, origin, i, k)
<1>1. Having(cs, i, k) = Having(bs, i, k) /\ Having(bs, i, k) \in SUBSET (1 .. i)
  BY DEF Having
<1>2. Having(bs, i, k) # {} => LastOf(Having(bs, i, k)) \in 1 .. i
  BY <1>1, LastOfPositions
<1> QED BY <1>1, <1>2, StateOfLast

LEMMA StateKept ==
    ASSUME UNCHANGED batches, history'.origin = history.origin
    PROVE  \A i, k : StateAfter(i, k)' = StateAfter(i, k)
  BY DEF StateAfter

\* What a sequence is after an append.
LEMMA AppendedFacts ==
    ASSUME ManagedOnly, NEW b, batches' = Append(batches, b)
    PROVE  /\ Len(batches) \in Nat /\ Len(batches') = Len(batches) + 1
           /\ DOMAIN batches' = 1 .. Len(batches) + 1 /\ DOMAIN batches = 1 .. Len(batches)
           /\ \A i \in 1 .. Len(batches) : batches'[i] = batches[i]
           /\ batches'[Len(batches) + 1] = b
           /\ batches' # <<>>
           /\ batches = <<>> <=> Len(batches) = 0
           /\ \A i \in DOMAIN batches' : i \in DOMAIN batches \/ i = Len(batches) + 1
<1>1. PICK B : batches \in Seq(B)
  BY DEF ManagedOnly
<1>2. batches \in Seq(B \cup {b})
  BY <1>1
<1>3. batches' \in Seq(B \cup {b})
  BY <1>2
<1> QED BY <1>2, <1>3

\* An appended batch decides about its own keys.
LEMMA StateOfNext ==
    ASSUME NEW bs, NEW cs, NEW origin, NEW m \in Nat, NEW k, m > 0,
           \A j \in 1 .. m - 1 : cs[j] = bs[j]
    PROVE  AfterBatches(cs, origin, m, k) =
                IF k \in DOMAIN cs[m].ops THEN cs[m].ops[k].value
                ELSE AfterBatches(bs, origin, m - 1, k)
<1>1. AfterBatches(cs, origin, m, k) =
          IF k \in DOMAIN cs[m].ops THEN cs[m].ops[k].value
          ELSE AfterBatches(cs, origin, m - 1, k)
  BY StateAfterBatch
<1> DEFINE n == m - 1
<1>2. n \in Nat /\ \A j \in 1 .. n : cs[j] = bs[j]
  OBVIOUS
<1> HIDE DEF n
<1>3. AfterBatches(cs, origin, n, k) = AfterBatches(bs, origin, n, k)
  BY <1>2, StateOfPrefix
<1> QED BY <1>1, <1>3 DEF n

LEMMA StateAfterLonger ==
    ASSUME history'.origin = history.origin, NEW n \in Nat,
           \A j \in 1 .. n : batches'[j] = batches[j]
    PROVE  /\ \A i \in 0 .. n : \A k : AfterBatches(batches', history'.origin, i, k) = StateAfter(i, k)
           /\ \A k : AfterBatches(batches', history'.origin, n + 1, k) =
                  IF k \in DOMAIN batches'[n + 1].ops THEN batches'[n + 1].ops[k].value
                  ELSE StateAfter(n, k)
<1> DEFINE was == batches  now == batches'  origin == history.origin
<1>1. \A j \in 1 .. n : now[j] = was[j]
  OBVIOUS
<1> HIDE DEF was, now, origin
<1>2. ASSUME NEW i \in 0 .. n, NEW k
      PROVE  AfterBatches(now, origin, i, k) = AfterBatches(was, origin, i, k)
  <2>1. i \in Nat /\ \A j \in 1 .. i : now[j] = was[j]
    BY <1>1
  <2> QED BY <2>1, StateOfPrefix
<1>3. ASSUME NEW k
      PROVE  AfterBatches(now, origin, n + 1, k) =
                  IF k \in DOMAIN now[n + 1].ops THEN now[n + 1].ops[k].value
                  ELSE AfterBatches(was, origin, n, k)
  <2> DEFINE m == n + 1
  <2>1. m \in Nat /\ m > 0 /\ m - 1 = n /\ \A j \in 1 .. m - 1 : now[j] = was[j]
    BY <1>1
  <2> HIDE DEF m
  <2>2. AfterBatches(now, origin, m, k) =
                  IF k \in DOMAIN now[m].ops THEN now[m].ops[k].value
                  ELSE AfterBatches(was, origin, m - 1, k)
    BY <2>1, StateOfNext
  <2> QED BY <2>1, <2>2 DEF m
<1> QED BY <1>2, <1>3 DEF StateAfter, was, now, origin

LEMMA StateAfterAppended ==
    ASSUME ManagedOnly, NEW b, batches' = Append(batches, b), history'.origin = history.origin
    PROVE  /\ \A i \in 0 .. Len(batches) : \A k : StateAfter(i, k)' = StateAfter(i, k)
           /\ \A k : StateAfter(Len(batches), k)' = IF k \in DOMAIN b.ops THEN b.ops[k].value
                                                    ELSE StateAfter(Len(batches), k)
<1>1. PICK n \in Nat : /\ n = Len(batches) /\ Len(batches') = n + 1
                       /\ \A j \in 1 .. n : batches'[j] = batches[j]
                       /\ batches'[n + 1] = b
  BY AppendedFacts
<1>2. /\ \A i, k : StateAfter(i, k)' = AfterBatches(batches', history'.origin, i, k)
      /\ \A k : StateAfter(Len(batches), k)' = AfterBatches(batches', history'.origin, n + 1, k)
  BY <1>1 DEF StateAfter
<1>3. /\ \A i \in 0 .. n : \A k : AfterBatches(batches', history'.origin, i, k) = StateAfter(i, k)
      /\ \A k : AfterBatches(batches', history'.origin, n + 1, k) =
                  IF k \in DOMAIN batches'[n + 1].ops THEN batches'[n + 1].ops[k].value
                  ELSE StateAfter(n, k)
  BY <1>1, StateAfterLonger
<1> QED BY <1>1, <1>2, <1>3

-----------------------------------------------------------------------------
(* The invariant is inductive: what has happened so far *)

LEMMA HistoryGrows ==
    ASSUME StepsOfCommands, Next
    PROVE  /\ history.past \subseteq history'.past
           /\ cmd.at = "idle" \/ cmd'.at # "idle" => history'.last = history.last
           /\ cmd.at = "idle" /\ cmd'.at # "idle" /\ history.last \in Rollbacks => history'.past # {}
<1> DEFINE Grows == /\ history.past \subseteq history'.past
                    /\ cmd.at = "idle" \/ cmd'.at # "idle" => history'.last = history.last
                    /\ cmd.at = "idle" /\ cmd'.at # "idle" /\ history.last \in Rollbacks =>
                           history'.past # {}
<1>1. ASSUME Starts PROVE Grows
  BY <1>1, StartingEffect DEF HistoryKept
<1>2. ASSUME UNCHANGED history, cmd.at # "idle" PROVE Grows
  BY <1>2
<1>3. ASSUME Returns, cmd.at # "idle" PROVE Grows
  BY <1>3, ReturningEffect, IdleFields DEF HistoryKept
<1>4. ASSUME ApplyStarts \/ OriginalStarts \/ \E command \in Rollbacks : RollbackStarts(command)
      PROVE  Starts
  BY <1>4 DEF ApplyStarts, OriginalStarts, RollbackStarts
<1>5. ASSUME LoadAndPlan \/ Recheck \/ ReadOriginalText \/ CheckNotAppeared \/ LookAgain
             \/ CopyForRecovery \/ ListRecoveryBackup \/ RecordBaseline \/ RecordCheckpoint
             \/ RestoreCheckpoint \/ Reload \/ UndoNext
      PROVE  UNCHANGED history /\ cmd.at # "idle"
  BY <1>5 DEF LoadAndPlan, Recheck, ReadOriginalText, CheckNotAppeared, LookAgain, CopyForRecovery,
     ListRecoveryBackup, RecordBaseline, RecordCheckpoint, RestoreCheckpoint, Reload, UndoNext, UndoOne
<1>6. ASSUME RecordBatch \/ RecordRollback PROVE Returns /\ cmd.at # "idle"
  BY <1>6, RecordBatchEffect, RecordRollbackEffect
<1>7. ASSUME WriteDocument \/ RollbackRewrites PROVE Grows
  BY <1>7, WriteDocumentEffect, RollbackRewritesEffect
<1>8. ASSUME ReadBack PROVE Grows
  BY <1>8 DEF ReadBack, StepsOfCommands
<1>9. ASSUME FinishUndoing PROVE Grows
  <2>1. CASE cmd' = Idle
    <3>1. cmd.at = "undo" /\ (Returns \/ Happens(IF cmd.skipped = {} THEN {} ELSE {"skipped"}))
      BY <1>9 DEF FinishUndoing
    <3> QED BY <2>1, <3>1, <1>3, IdleFields DEF StepsOfCommands
  <2>2. CASE cmd' # Idle
    BY <1>9, <2>2, FinishUndoingEffect DEF HistoryKept
  <2> QED BY <2>1, <2>2
<1>10. ASSUME CopyForRollback PROVE Grows
  <2>1. cmd.at # "idle" /\ (Returns \/ UNCHANGED history)
    BY <1>10 DEF CopyForRollback
  <2> QED BY <2>1, <1>2, <1>3
<1>11. ASSUME RollbackDeletes PROVE Grows
  <2>1. CASE cmd' = Idle
    <3>1. cmd.at # "idle" /\ (Leaves \/ Goto("record"))
      BY <1>11 DEF RollbackDeletes
    <3>2. UNCHANGED history
      BY <2>1, <3>1, IdleFields DEF StepsOfCommands
    <3> QED BY <3>1, <3>2, <1>2
  <2>2. CASE cmd' # Idle
    BY <1>11, <2>2, RollbackDeletesEffect
  <2> QED BY <2>1, <2>2
<1>12. ASSUME RecordRemoval PROVE Grows
  BY <1>12, IdleFields DEF RecordRemoval, StepsOfCommands
<1>13. ASSUME UserEdits PROVE Grows
  BY <1>13, UserEditsEffect
<1>14. ASSUME Crash PROVE Grows
  BY <1>14, CrashEffect, IdleFields DEF HistoryKept
<1> HIDE DEF Grows
<1>15. Grows
  BY <1>1, <1>2, <1>3, <1>4, <1>5, <1>6, <1>7, <1>8, <1>9, <1>10, <1>11, <1>12, <1>13, <1>14
     DEF Next, Command, Rollbacks
<1> QED BY <1>15 DEF Grows

\* Nothing but applies has happened when nothing but applies has happened afterwards.
LEMMA OnlyAppliedBefore ==
    ASSUME StepsOfCommands, RollbacksNoted, Next
    PROVE  RollbacksNoted' /\ (OnlyApplied' => OnlyApplied)
<1>1. RollbacksNoted'
  BY HistoryGrows DEF RollbacksNoted
<1>2. OnlyApplied' => OnlyApplied
  BY HistoryGrows DEF RollbacksNoted, OnlyApplied
<1> QED BY <1>1, <1>2

\* Before the first write there is no record.
LEMMA UntouchedStep ==
    ASSUME Typed, StepsOfCommands, Untouched, Next
    PROVE  Untouched'
<1> SUFFICES ASSUME history'.origin = None
             PROVE  /\ batches' = <<>> /\ baseline' = None /\ checkpoint' = None
                    /\ cmd'.at \in {"idle"} \cup Preparing
  BY DEF Untouched
<1> DEFINE Goal == /\ batches' = <<>> /\ baseline' = None /\ checkpoint' = None
                   /\ cmd'.at \in {"idle"} \cup Preparing
<1>1. history.origin = None
  <2>1. WriteDocument \/ RollbackRewrites \/ RollbackDeletes => history.origin = None
    BY DEF WriteDocument, RollbackRewrites, RollbackDeletes, StepsOfCommands
  <2>2. ASSUME ~WriteDocument, ~RollbackRewrites, ~RollbackDeletes
        PROVE  history'.origin = history.origin
    BY <2>2 DEF StepsOfCommands, Next, Command, ApplyStarts, LoadAndPlan, Recheck, ReadOriginalText,
      CheckNotAppeared, LookAgain, CopyForRecovery, ListRecoveryBackup, ReadBack, RecordBaseline,
      RecordCheckpoint, RecordBatch, RollbackStarts, RestoreCheckpoint, Reload, UndoNext, UndoOne,
      FinishUndoing, CopyForRollback, RecordRollback, OriginalStarts, RecordRemoval, UserEdits, Crash
  <2> QED BY <2>1, <2>2
<1>2. batches = <<>> /\ baseline = None /\ checkpoint = None /\ cmd.at \in {"idle"} \cup Preparing
  BY <1>1 DEF Untouched
<1> USE IdleFields DEF Preparing, DocumentsKept
<1>3. ASSUME ApplyStarts PROVE Goal
  BY <1>2, <1>3, ApplyStartsEffect
<1>4. ASSUME LoadAndPlan \/ Recheck \/ ReadOriginalText \/ CheckNotAppeared \/ LookAgain PROVE Goal
  <2>1. UNCHANGED <<batches, baseline, checkpoint>>
    BY <1>4 DEF LoadAndPlan, Recheck, ReadOriginalText, CheckNotAppeared, LookAgain
  <2>2. cmd' # Idle => cmd'.at \in Preparing
    BY <1>4, LoadAndPlanEffect, LookingEffect
  <2> QED BY <1>2, <2>1, <2>2
<1>5. ASSUME CopyForRecovery PROVE Goal
  BY <1>2, <1>5, CopyForRecoveryEffect
<1>6. ASSUME ListRecoveryBackup PROVE Goal
  BY <1>2, <1>6 DEF ListRecoveryBackup, StepsOfCommands
<1>7. ~WriteDocument
  <2>1. file # None
    BY KeysAssumption DEF Typed, TypeOK
  <2> QED BY <2>1, WriteDocumentEffect
<1>8. ASSUME UserEdits PROVE Goal
  BY <1>2, <1>8, UserEditsEffect
<1>9. ASSUME Crash PROVE Goal
  BY <1>2, <1>9, CrashEffect
<1>10. /\ ~OriginalStarts /\ ~RollbackStarts("rollback") /\ ~RollbackStarts("original")
       /\ ~ReadBack /\ ~RecordBaseline /\ ~RecordCheckpoint /\ ~RecordBatch
       /\ ~RestoreCheckpoint /\ ~Reload /\ ~UndoNext /\ ~FinishUndoing /\ ~CopyForRollback
       /\ ~RollbackRewrites /\ ~RollbackDeletes /\ ~RecordRollback /\ ~RecordRemoval
  BY <1>2 DEF OriginalStarts, RollbackStarts, ReadBack, RecordBaseline, RecordCheckpoint,
     RecordBatch, RestoreCheckpoint, Reload, UndoNext, FinishUndoing, CopyForRollback,
     RollbackRewrites, RollbackDeletes, RecordRollback, RecordRemoval
<1> QED
  BY <1>3, <1>4, <1>5, <1>6, <1>7, <1>8, <1>9, <1>10 DEF Next, Command

-----------------------------------------------------------------------------
(* The invariant is inductive: the first rollback *)

\* Steps that leave the file and the batches alone.
LEMMA TracedKept ==
    ASSUME Traced, UNCHANGED <<file, batches>>,
           history'.origin = history.origin, history'.mine = history.mine,
           cmd'.at \in BeforeWriting => cmd.at \in BeforeWriting /\ cmd'.at # "restore",
           AfterApply' => AfterApply /\ cmd'.doc = cmd.doc /\ cmd'.existed = cmd.existed,
           ComesBack'
    PROVE  Traced'
<1>0. \A i, k : StateAfter(i, k)' = StateAfter(i, k)
  BY StateKept
<1>2. Chained'
  BY <1>0 DEF Traced, Chained
<1>3. UsersPart'
  BY DEF Traced, UsersPart
<1>4. ManagedPart'
  <2>1. /\ cmd'.at \in BeforeWriting /\ history'.origin # None =>
             \A k \in ManagedKeys : file'[k] = StateAfter(Len(batches), k)
        /\ AfterApply' /\ history'.origin # None =>
             \A k \in ManagedKeys : cmd'.doc[k] = StateAfter(Len(batches), k)
        /\ cmd'.at \in BeforeWriting /\ history'.origin # None => batches' # <<>> /\ cmd'.at # "restore"
    BY DEF Traced, ManagedPart
  <2>2. \A k : StateAfter(Len(batches), k)' = StateAfter(Len(batches), k)
    BY DEF StateAfter
  <2> QED BY <2>1, <2>2 DEF ManagedPart
<1>5. ExistenceRecorded'
  BY DEF Traced, ExistenceRecorded
<1> QED BY <1>2, <1>3, <1>4, <1>5 DEF Traced

\* Nothing is undone yet, or by another command.
LEMMA NotComingBack ==
    ASSUME \/ cmd'.at \in {"idle", "restore"} \cup Preparing \cup Recording
           \/ cmd'.at \in Removing \cup {"readback", "record"} /\ cmd'.command \notin Rollbacks
    PROVE  ComesBack'
  BY DEF ComesBack, AfterRollback, Preparing, Recording, Removing, Rollbacks

\* A batch whose keys are as it left them is undone in full.
LEMMA WholeBatchUndone ==
    ASSUME NEW ops, OperationsOK(ops), NEW doc, NEW forced,
           \A k \in DOMAIN ops : doc[k] = ops[k].value
    PROVE  Hits(ops, doc, forced) = DOMAIN ops
<1>1. \A k \in DOMAIN ops : ops[k].kind = "delete" => doc[k] = Absent
  BY DEF OperationsOK, KindsFit
<1> QED BY <1>1 DEF Hits, Reverts

LEMMA TracedUndoNext ==
    ASSUME Typed, StepsOfCommands, ManagedOnly, Traced, UndoNext
    PROVE  ComesBack'
<1> DEFINE i == cmd.todo
           ops == batches[i].ops
<1>1. cmd.at = "undo" /\ i \in DOMAIN batches /\ OperationsOK(ops) /\ i \in Nat /\ i > 0
      /\ i <= Len(batches) /\ Len(batches) \in Nat
  BY UndoNextEffect, BatchTyped, BatchesSequence
<1>2. /\ \A k \in ManagedKeys : cmd.doc[k] = StateAfter(i, k)
      /\ \A k \in Keys \ ManagedKeys : cmd.doc[k] = history.mine[k]
      /\ cmd.skipped = {}
  BY <1>1 DEF Traced, ComesBack
<1>3. /\ DOMAIN ops # {} /\ \A k \in DOMAIN ops : ops[k].before = StateAfter(i - 1, k)
      /\ DOMAIN ops \subseteq ManagedKeys
  BY <1>1 DEF Traced, Chained, ManagedOnly, BatchKeys
<1>4. ASSUME NEW k
      PROVE  StateAfter(i, k) = IF k \in DOMAIN ops THEN ops[k].value ELSE StateAfter(i - 1, k)
  <2>1. AfterBatches(batches, history.origin, i, k) =
            IF k \in DOMAIN batches[i].ops THEN batches[i].ops[k].value
            ELSE AfterBatches(batches, history.origin, i - 1, k)
    <3> DEFINE bs == batches  o == history.origin
    <3> HIDE DEF i, bs, o
    <3>1. AfterBatches(bs, o, i, k) =
            IF k \in DOMAIN bs[i].ops THEN bs[i].ops[k].value
            ELSE AfterBatches(bs, o, i - 1, k)
      BY <1>1, StateAfterBatch
    <3> QED BY <3>1 DEF bs, o
  <2> QED BY <2>1 DEF StateAfter
<1>5. \A forced : Hits(ops, cmd.doc, forced) = DOMAIN ops
  <2>1. \A k \in DOMAIN ops : cmd.doc[k] = ops[k].value
    BY <1>2, <1>3, <1>4
  <2> HIDE DEF ops
  <2> QED BY <1>1, <2>1, WholeBatchUndone
<1>6. /\ cmd'.at = "undo" /\ cmd'.todo = i - 1 /\ UNCHANGED <<batches, history>>
      /\ \E forced \in ForcedKeys :
            LET hits == Hits(ops, cmd.doc, forced)
            IN  /\ cmd'.doc = Reverted(ops, cmd.doc, hits)
                /\ cmd'.changed = (cmd.changed \/ hits # {})
                /\ cmd'.skipped = cmd.skipped \cup {k \in DOMAIN ops \ hits : ops[k].kind = "write"}
  BY UndoNextEffect DEF DocumentsKept
<1> HIDE DEF ops
<1>7. /\ cmd'.doc = Reverted(ops, cmd.doc, DOMAIN ops)
      /\ cmd'.changed /\ cmd'.skipped = {}
  BY <1>2, <1>3, <1>5, <1>6
<1>8. \A k \in Keys : cmd'.doc[k] = IF k \in DOMAIN ops THEN ops[k].before ELSE cmd.doc[k]
  BY <1>1, <1>7, RevertedTyped DEF Typed, TypeOK
<1>9. \A k \in ManagedKeys : cmd'.doc[k] = StateAfter(i - 1, k)
  BY <1>2, <1>3, <1>4, <1>8, KeysAssumption
<1>10. \A k \in Keys \ ManagedKeys : cmd'.doc[k] = history'.mine[k]
  BY <1>2, <1>3, <1>6, <1>8
<1>11. \A k : StateAfter(i - 1, k)' = AfterBatches(batches, history.origin, cmd'.todo - 1, k)
  BY <1>6 DEF StateAfter
<1>12. cmd'.changed <=> cmd'.todo < Len(batches')
  BY <1>1, <1>6, <1>7
<1>13. \A k \in ManagedKeys : cmd'.doc[k] = StateAfter(cmd.todo, k)'
  BY <1>6, <1>9 DEF StateAfter
<1> QED
  BY <1>6, <1>7, <1>10, <1>12, <1>13 DEF ComesBack, AfterRollback, Rollbacks

\* Once everything is undone, the document is the original with the user's part.
LEMMA TracedFinishUndoing ==
    ASSUME Typed, StepsOfCommands, ManagedOnly, Untouched, Traced, FinishUndoing
    PROVE  cmd' # Idle /\ ComesBack'
<1>1. cmd.at = "undo" /\ cmd.todo = 0
  BY DEF FinishUndoing
<1>2. batches # <<>> /\ Len(batches) > 0 /\ history.origin # None
  BY <1>1, BatchesSequence DEF Typed, LocalsTyped, Undoing, Untouched
<1>3. /\ \A k \in ManagedKeys : cmd.doc[k] = KeyOf(history.origin, k)
      /\ \A k \in Keys \ ManagedKeys : cmd.doc[k] = history.mine[k]
      /\ cmd.changed
  BY <1>1, <1>2, StateAtStart DEF Traced, ComesBack, StateAfter
<1>4. cmd' # Idle
  <2>1. cmd'.at \in {"copy rewritten", "copy deleted"}
    BY <1>3, IdleFields DEF FinishUndoing, StepsOfCommands
  <2> QED BY <2>1, IdleFields
<1> DEFINE root == [k \in Keys |-> IF k \in ManagedKeys THEN KeyOf(history.origin, k)
                                   ELSE history.mine[k]]
<1>5. cmd.doc = root
  BY <1>3 DEF Typed, TypeOK, Contents
<1>6. Undone = IF history.origin = NoFile /\ ~HasContent(cmd.doc) THEN NoFile ELSE cmd.doc
  BY <1>5 DEF Undone
<1>7. batches[1].existed <=> history.origin # NoFile
  BY <1>2 DEF Traced, ExistenceRecorded
<1>8. /\ cmd'.at = IF batches[1].existed \/ HasContent(cmd.doc)
                   THEN "copy rewritten" ELSE "copy deleted"
      /\ cmd'.doc = cmd.doc /\ history'.origin = history.origin /\ history'.mine = history.mine
  BY <1>4, FinishUndoingEffect DEF HistoryKept
<1>9. Undone' = Undone
  BY <1>8 DEF Undone
<1>10. /\ cmd'.at \in {"copy rewritten", "copy deleted"}
       /\ cmd'.at = "copy rewritten" => cmd'.doc = Undone
       /\ cmd'.at = "copy deleted" => Undone = NoFile
  BY <1>6, <1>7, <1>8
<1> QED
  BY <1>4, <1>9, <1>10 DEF ComesBack, AfterRollback, Rollbacks

\* An apply writes; the first one finds the original.
LEMMA TracedWrite ==
    ASSUME Typed, StepsOfCommands, ManagedOnly, Untouched, Traced, DocumentsFit, Undisturbed,
           history.past = {}, WriteDocument
    PROVE  Traced'
<1>1. /\ cmd.at = "write" /\ cmd'.at = "readback" /\ cmd'.command = "apply"
      /\ file' = Applied(cmd.doc, cmd.ops)
      /\ UNCHANGED <<batches, baseline, checkpoint>>
      /\ history'.origin = IF history.origin = None THEN file ELSE history.origin
      /\ history'.mine = history.mine
      /\ cmd'.doc = cmd.doc /\ cmd'.existed = cmd.existed
  BY WriteDocumentEffect DEF ReadsKept
<1>2. /\ OperationsOK(cmd.ops) /\ DOMAIN cmd.ops \subseteq ManagedKeys
      /\ cmd.doc = DocOf(file) /\ (cmd.existed <=> file # NoFile)
      /\ cmd.doc \in Contents /\ file \in Files
  BY <1>1 DEF Typed, TypeOK, LocalsTyped, Planned, Preparing, ManagedOnly, Undisturbed, StepsOfCommands
<1>3. file' # NoFile /\ \A k \in Keys \ ManagedKeys : file'[k] = cmd.doc[k]
  BY <1>1, <1>2, AppliedTyped, ContentsFacts
<1>4. history'.origin # None
  BY <1>1, <1>2, KeysAssumption
<1>5. /\ history.mine = DocOf(file) \/ \A k \in Keys \ ManagedKeys : file[k] = history.mine[k]
      /\ history.origin # None => file # NoFile
  BY <1>1 DEF Traced, UsersPart, BeforeWriting, Preparing
<1>6. \A k \in Keys \ ManagedKeys : file'[k] = history'.mine[k]
  BY <1>1, <1>2, <1>3, <1>5 DEF DocOf, Traced, UsersPart, BeforeWriting, Preparing
<1>7. CASE history.origin = None
  <2>1. batches = <<>> /\ Len(batches) = 0 /\ DOMAIN batches = {}
    BY <1>7 DEF Untouched
  <2>2. \A k \in Keys : cmd.doc[k] = KeyOf(file, k)
    BY <1>2 DEF DocOf, KeyOf, Empty
  <2>3. \A k \in ManagedKeys : cmd.doc[k] = AfterBatches(batches, file, 0, k)
    BY <2>2, StateAtStart, KeysAssumption
  <2>4. \A k \in ManagedKeys : cmd'.doc[k] = StateAfter(Len(batches), k)'
    BY <1>1, <1>7, <2>1, <2>3 DEF StateAfter
  <2>5. UsersPart'
    BY <1>3, <1>4, <1>6 DEF UsersPart
  <2>6. ManagedPart'
    BY <1>1, <2>4 DEF ManagedPart, BeforeWriting, Preparing, Undoing, Removing
  <2>7. Chained' /\ ExistenceRecorded'
    BY <1>1, <1>2, <1>7, <2>1 DEF Chained, ExistenceRecorded
  <2>8. ComesBack'
    BY <1>1, NotComingBack DEF Rollbacks
  <2> QED BY <2>5, <2>6, <2>7, <2>8 DEF Traced
<1>8. CASE history.origin # None
  <2>1. \A i, k : StateAfter(i, k)' = StateAfter(i, k)
    BY <1>1, <1>8, StateKept
  <2>2. batches # <<>> /\ \A k \in ManagedKeys : cmd.doc[k] = StateAfter(Len(batches), k)
    BY <1>1, <1>2, <1>5, <1>8 DEF Traced, ManagedPart, BeforeWriting, Preparing, DocOf
  <2>3. \A k \in ManagedKeys : cmd'.doc[k] = StateAfter(Len(batches), k)'
    BY <1>1, <1>8, <2>2 DEF StateAfter
  <2>5. UsersPart'
    BY <1>3, <1>4, <1>6 DEF UsersPart
  <2>6. ManagedPart'
    BY <1>1, <2>3 DEF ManagedPart, BeforeWriting, Preparing, Undoing, Removing
  <2>7. Chained' /\ ExistenceRecorded'
    BY <1>1, <1>8, <2>1, <2>2 DEF Chained, ExistenceRecorded, Traced
  <2>8. ComesBack'
    BY <1>1, NotComingBack DEF Rollbacks
  <2> QED BY <2>5, <2>6, <2>7, <2>8 DEF Traced
<1> QED BY <1>7, <1>8

\* The batch of an apply extends the chain.
LEMMA TracedBatch ==
    ASSUME Typed, StepsOfCommands, ManagedOnly, Untouched, Traced, DocumentsFit, Undisturbed,
           history.past = {}, RecordBatch
    PROVE  Traced'
<1> DEFINE b == [ops |-> cmd.ops, existed |-> cmd.existed]
           n == Len(batches)
<1>1. /\ cmd.at = "batch" /\ cmd.command = "apply" /\ UNCHANGED <<file, baseline, checkpoint>>
      /\ batches' = Append(batches, b) /\ cmd'.at = "idle"
      /\ history'.origin = history.origin /\ history'.mine = history.mine
  BY RecordBatchEffect, ReturningEffect, IdleFields DEF HistoryKept
<1>2. /\ AfterApply /\ Planned /\ history.origin # None /\ cmd.at \notin {"idle"} \cup Preparing
  BY <1>1 DEF AfterApply, Planned, Recording, Preparing, Untouched
<1>3. /\ OperationsOK(cmd.ops) /\ DOMAIN cmd.ops \subseteq ManagedKeys /\ DOMAIN cmd.ops # {}
      /\ \A k \in DOMAIN cmd.ops : cmd.ops[k].before = cmd.doc[k]
      /\ file = Applied(cmd.doc, cmd.ops) /\ cmd.doc \in Contents
  BY <1>1, <1>2 DEF Typed, TypeOK, LocalsTyped, Recording, ManagedOnly, DocumentsFit, Undisturbed
<1>4. /\ file # NoFile /\ \A k \in Keys \ ManagedKeys : file[k] = history.mine[k]
      /\ \A k \in ManagedKeys : cmd.doc[k] = StateAfter(n, k)
  BY <1>2 DEF Traced, UsersPart, ManagedPart
<1>5. /\ \A i \in 0 .. n : \A k : StateAfter(i, k)' = StateAfter(i, k)
      /\ \A k : StateAfter(n, k)' = IF k \in DOMAIN cmd.ops THEN cmd.ops[k].value
                                    ELSE StateAfter(n, k)
  <2>1. b.ops = cmd.ops
    OBVIOUS
  <2> HIDE DEF b
  <2> QED BY <1>1, <2>1, StateAfterAppended
<1>6. /\ n \in Nat /\ Len(batches') = n + 1 /\ DOMAIN batches = 1 .. n
      /\ \A i \in 1 .. n : batches'[i] = batches[i]
      /\ batches'[n + 1] = b /\ batches' # <<>>
      /\ batches = <<>> <=> n = 0
      /\ \A i \in DOMAIN batches' : i \in 1 .. n \/ i = n + 1
  <2> HIDE DEF b
  <2> QED BY <1>1, AppendedFacts
<1>7. UsersPart' /\ ComesBack'
  BY <1>1, <1>2, <1>4, NotComingBack DEF UsersPart
<1>8. ManagedPart'
  <2>1. \A k \in ManagedKeys : file[k] = IF k \in DOMAIN cmd.ops THEN cmd.ops[k].value
                                         ELSE cmd.doc[k]
    BY <1>3, AppliedTyped, KeysAssumption
  <2>2. \A k \in ManagedKeys : file'[k] = StateAfter(n, k)'
    BY <1>1, <1>4, <1>5, <2>1
  <2>3. ~AfterApply'
    BY <1>1 DEF AfterApply, Recording
  <2> HIDE DEF b
  <2> QED BY <1>1, <1>6, <2>2, <2>3 DEF ManagedPart
<1>9. Chained'
  <2>1. ASSUME NEW i \in 1 .. n
        PROVE  /\ DOMAIN batches[i].ops # {}
               /\ \A k \in DOMAIN batches[i].ops : batches[i].ops[k].before = AfterBatches(batches', history'.origin, i - 1, k)
    <3>1. i - 1 \in 0 .. n
      BY <1>6
    <3> QED BY <1>5, <1>6, <3>1 DEF Traced, Chained, StateAfter
  <2>2. \A k \in DOMAIN cmd.ops : cmd.ops[k].before = AfterBatches(batches', history'.origin, n, k)
    <3>1. n \in 0 .. n
      BY <1>6
    <3> QED BY <1>3, <1>4, <1>5, <3>1 DEF StateAfter
  <2>3. b.ops = cmd.ops /\ (n + 1) - 1 = n
    BY <1>6
  <2> HIDE DEF b
  <2>4. ASSUME NEW i \in DOMAIN batches'
        PROVE  /\ DOMAIN batches'[i].ops # {}
               /\ \A k \in DOMAIN batches'[i].ops : batches'[i].ops[k].before = AfterBatches(batches', history'.origin, i - 1, k)
    BY <1>3, <1>6, <2>1, <2>2, <2>3
  <2> QED BY <2>4 DEF Chained, StateAfter
<1>10. ExistenceRecorded'
  <2>1. b.existed = cmd.existed
    OBVIOUS
  <2> HIDE DEF b
  <2>2. batches'[1].existed <=> history.origin # NoFile
    BY <1>2, <1>6, <2>1 DEF Traced, ExistenceRecorded
  <2> QED BY <1>1, <1>6, <2>2 DEF ExistenceRecorded
<1> QED BY <1>7, <1>8, <1>9, <1>10 DEF Traced

\* A rollback has written or deleted the file.
LEMMA TracedAfterRollback ==
    ASSUME Traced, UNCHANGED batches, history.origin # None,
           history'.origin = history.origin, history'.mine = history.mine,
           cmd'.at \in {"readback", "record"}, cmd'.command \in Rollbacks \cup {"remove"},
           cmd'.command \in Rollbacks => file' = Undone
    PROVE  Traced'
<1>0. \A i, k : StateAfter(i, k)' = StateAfter(i, k)
  BY StateKept
<1>1. ~AfterApply' /\ cmd'.at \notin BeforeWriting
  BY DEF AfterApply, BeforeWriting, Preparing, Recording, Undoing, Removing, Rollbacks
<1>2. UsersPart' /\ ManagedPart'
  BY <1>1 DEF UsersPart, ManagedPart
<1>3. Chained' /\ ExistenceRecorded'
  BY <1>0, <1>1 DEF Traced, Chained, ExistenceRecorded
<1>4. Undone' = Undone
  BY DEF Undone
<1>5. ComesBack'
  BY <1>4 DEF ComesBack, AfterRollback, Rollbacks
<1> QED BY <1>2, <1>3, <1>5 DEF Traced

\* An edit that does not concern prescribe changes the user's part only.
LEMMA TracedUserEdits ==
    ASSUME Traced, StepsOfCommands, UserEdits, history'.past = {}
    PROVE  Traced'
<1>1. /\ UNCHANGED <<batches, baseline, checkpoint, cmd>> /\ ~Meddles(file')
      /\ history'.mine = DocOf(file') /\ history'.origin = history.origin
  BY UserEditsEffect
<1>2. /\ cmd.at = "idle"
      /\ history.origin # None => /\ file # NoFile /\ file' # NoFile
                                  /\ \A k \in ManagedKeys : file'[k] = file[k]
  BY <1>1 DEF Meddles
<1>3. \A i, k : StateAfter(i, k)' = StateAfter(i, k)
  BY <1>1, StateKept
<1>4. ~AfterApply
  BY <1>2 DEF AfterApply, Recording
<1>5. UsersPart'
  BY <1>1, <1>2, <1>4 DEF UsersPart, DocOf, AfterApply
<1>6. ManagedPart'
  <2>1. history.origin # None =>
          /\ batches # <<>> /\ \A k \in ManagedKeys : file'[k] = StateAfter(Len(batches), k)
    BY <1>2 DEF Traced, ManagedPart, BeforeWriting
  <2>2. \A k : StateAfter(Len(batches), k)' = StateAfter(Len(batches), k)
    BY <1>1 DEF StateAfter
  <2>3. cmd'.at = "idle" /\ ~AfterApply'
    BY <1>1, <1>2 DEF AfterApply, Recording
  <2> QED BY <1>1, <2>1, <2>2, <2>3 DEF ManagedPart
<1>7. Chained' /\ ExistenceRecorded'
  BY <1>1, <1>2, <1>3, <1>4 DEF Traced, Chained, ExistenceRecorded, AfterApply
<1>8. ComesBack'
  BY <1>1, <1>2, NotComingBack
<1> QED BY <1>5, <1>6, <1>7, <1>8 DEF Traced

\* The batches say how the file became what it is, as long as only applies have happened.
LEMMA FirstRollbackStep ==
    ASSUME Typed, StepsOfCommands, ManagedOnly, RollbackLedger, DocumentsFit, Undisturbed,
           Untouched, FirstRollback, Next
    PROVE  FirstRollback'
<1>0. RollbacksNoted' /\ (OnlyApplied' => OnlyApplied)
  BY OnlyAppliedBefore DEF FirstRollback
<1> SUFFICES ASSUME OnlyApplied' PROVE Traced'
  BY <1>0 DEF FirstRollback
<1>z. Traced /\ history.past = {} /\ history'.past = {} /\ history'.last \notin Rollbacks
  BY <1>0 DEF FirstRollback, OnlyApplied
<1>w. cmd.at \notin {"idle"} \cup Preparing => history.origin # None
  BY DEF Untouched
<1> USE IdleFields DEF StepsOfCommands, BeforeWriting, AfterApply, Preparing, Recording, Undoing,
        Removing, Rollbacks, DocumentsKept, HistoryKept
<1>i. ASSUME cmd' = Idle, UNCHANGED <<file, batches, baseline, checkpoint>>,
             history'.origin = history.origin, history'.mine = history.mine,
             cmd.at \in BeforeWriting
      PROVE  Traced'
  BY <1>i, <1>z, TracedKept, NotComingBack
<1>1. ASSUME ApplyStarts PROVE Traced'
  <2>1. /\ cmd.at = "idle" /\ UNCHANGED <<file, batches, baseline, checkpoint>>
        /\ history'.origin = history.origin /\ history'.mine = history.mine
        /\ cmd'.at \in {"appeared", "load"}
    BY <1>1, ApplyStartsEffect, StartingEffect
  <2> QED BY <1>z, <2>1, TracedKept, NotComingBack
<1>2. ASSUME LoadAndPlan \/ Recheck \/ ReadOriginalText \/ CheckNotAppeared \/ LookAgain
      PROVE  Traced'
  <2>1. CASE cmd' = Idle
    <3>1. cmd.at \in Preparing /\ UNCHANGED <<file, batches, baseline, checkpoint, history>>
      BY <1>2 DEF LoadAndPlan, Recheck, ReadOriginalText, CheckNotAppeared, LookAgain
    <3> QED BY <1>i, <2>1, <3>1
  <2>2. CASE cmd' # Idle
    <3>1. /\ cmd.at \in Preparing /\ UNCHANGED <<file, batches, baseline, checkpoint, history>>
          /\ cmd'.at \in Preparing
      BY <1>2, <2>2, LoadAndPlanEffect, LookingEffect
    <3> QED BY <1>z, <3>1, TracedKept, NotComingBack
  <2> QED BY <2>1, <2>2
<1>7. ASSUME CopyForRecovery \/ ListRecoveryBackup PROVE Traced'
  <2>1. CASE CopyForRecovery
    <3>1. /\ cmd.at \in Preparing /\ UNCHANGED <<file, batches, baseline, checkpoint, history>>
          /\ cmd'.at \in Preparing
      BY <2>1, CopyForRecoveryEffect
    <3> QED BY <1>z, <3>1, TracedKept, NotComingBack
  <2>2. CASE ListRecoveryBackup
    <3>1. /\ cmd.at \in Preparing /\ UNCHANGED <<file, batches, baseline, checkpoint, history>>
          /\ cmd'.at \in Preparing
      BY <2>2 DEF ListRecoveryBackup
    <3> QED BY <1>z, <3>1, TracedKept, NotComingBack
  <2> QED BY <1>7, <2>1, <2>2
<1>9. ASSUME WriteDocument PROVE Traced'
  BY <1>9, <1>z, TracedWrite
<1>10. ASSUME ReadBack PROVE Traced'
  <2>1. cmd' # Idle
    BY <1>10, <1>z, ZenonT(60) DEF ReadBack
  <2>2. /\ cmd.at = "readback" /\ UNCHANGED <<file, batches, baseline, checkpoint, history>>
        /\ cmd'.at = IF cmd.command = "apply" THEN "baseline" ELSE "record"
        /\ cmd'.doc = cmd.doc /\ cmd'.existed = cmd.existed /\ cmd'.command = cmd.command
    BY <1>10, <2>1, ReadBackEffect
  <2>3. ComesBack'
    <3>1. CASE cmd.command = "apply"
      BY <2>2, <3>1, NotComingBack
    <3>2. CASE cmd.command \in Rollbacks
      <4>1. file = Undone
        BY <1>z, <2>2, <3>2 DEF Traced, ComesBack, AfterRollback
      <4>2. file' = Undone'
        BY <2>2, <4>1 DEF Undone
      <4> QED BY <2>2, <3>2, <4>2 DEF ComesBack, AfterRollback
    <3> QED BY <2>2, <3>1, <3>2
  <2> QED BY <1>w, <1>z, <2>2, <2>3, TracedKept
<1>11. ASSUME RecordBaseline \/ RecordCheckpoint PROVE Traced'
  <2>1. /\ cmd.at \in {"baseline", "checkpoint"} /\ cmd'.at \in {"checkpoint", "batch"}
        /\ UNCHANGED <<file, batches, history>> /\ cmd'.command = cmd.command
        /\ cmd'.doc = cmd.doc /\ cmd'.existed = cmd.existed
    BY <1>11, RecordBaselineEffect, RecordCheckpointEffect DEF ReadsKept
  <2> QED BY <1>w, <1>z, <2>1, TracedKept, NotComingBack
<1>13. ASSUME RecordBatch PROVE Traced'
  BY <1>13, <1>z, TracedBatch
<1>14. ASSUME NEW command \in Rollbacks, RollbackStarts(command) PROVE Traced'
  <2>1. /\ cmd.at = "idle" /\ batches # <<>> /\ UNCHANGED <<file, batches, baseline, checkpoint>>
        /\ cmd' = [Idle EXCEPT !.at = IF file = NoFile THEN "restore" ELSE "reload",
                               !.command = command]
        /\ Starts
    BY <1>14 DEF RollbackStarts
  <2>2. history.origin # None /\ file # NoFile
    BY <1>z, <2>1 DEF Traced, Untouched, UsersPart
  <2>3. cmd' = [Idle EXCEPT !.at = "reload", !.command = command]
    BY <2>1, <2>2
  <2>4. cmd'.at = "reload" /\ ~cmd'.changed /\ cmd'.skipped = {}
    BY <2>3, IdleDefaults
  <2>5. ComesBack'
    BY <2>4 DEF ComesBack, AfterRollback
  <2>6. history'.origin = history.origin /\ history'.mine = history.mine
    BY <2>1, StartingEffect
  <2> QED BY <1>z, <2>1, <2>2, <2>4, <2>5, <2>6, TracedKept
<1>16. ASSUME RestoreCheckpoint PROVE Traced'
  <2>1. cmd.at = "restore"
    BY <1>16 DEF RestoreCheckpoint
  <2> QED BY <1>w, <1>z, <2>1 DEF Traced, ManagedPart
<1>17. ASSUME Reload PROVE Traced'
  <2>1. CASE cmd' = Idle
    <3>1. cmd.at = "reload" /\ UNCHANGED <<file, batches, baseline, checkpoint>>
          /\ history' = history
      BY <1>17, <2>1 DEF Reload
    <3> QED BY <1>i, <2>1, <3>1
  <2>2. CASE cmd' # Idle
    <3>1. /\ cmd.at = "reload" /\ UNCHANGED <<file, batches, baseline, checkpoint, history>>
          /\ cmd'.at = "undo" /\ cmd'.doc = file /\ cmd'.todo = Len(batches)
          /\ cmd'.changed = cmd.changed /\ cmd'.skipped = cmd.skipped
      BY <1>17, <2>2, ReloadEffect
    <3>2. /\ \A k \in ManagedKeys : file[k] = StateAfter(Len(batches), k)
          /\ \A k \in Keys \ ManagedKeys : file[k] = history.mine[k]
          /\ ~cmd.changed /\ cmd.skipped = {}
      BY <1>w, <1>z, <3>1 DEF Traced, ManagedPart, UsersPart, ComesBack
    <3>3. \A k \in ManagedKeys : cmd'.doc[k] = StateAfter(cmd.todo, k)'
      BY <3>1, <3>2 DEF StateAfter
    <3>4. ~(cmd'.todo < Len(batches'))
      BY <3>1, BatchesSequence
    <3>5. ComesBack'
      BY <3>1, <3>2, <3>3, <3>4 DEF ComesBack, AfterRollback
    <3> QED BY <1>w, <1>z, <3>1, <3>5, TracedKept
  <2> QED BY <2>1, <2>2
<1>17a. ASSUME UndoNext PROVE Traced'
  <2>1. /\ cmd.at = "undo" /\ cmd'.at = "undo"
        /\ UNCHANGED <<file, batches, baseline, checkpoint, history>>
    BY <1>17a, UndoNextEffect
  <2>2. ComesBack'
    BY <1>17a, <1>z, TracedUndoNext
  <2> QED BY <1>w, <1>z, <2>1, <2>2, TracedKept
<1>17b. ASSUME FinishUndoing PROVE Traced'
  <2>1. cmd' # Idle /\ ComesBack'
    BY <1>17b, <1>z, TracedFinishUndoing
  <2>2. /\ cmd.at = "undo" /\ cmd'.at \in {"copy rewritten", "copy deleted"}
        /\ UNCHANGED <<file, batches, baseline, checkpoint>>
        /\ history'.origin = history.origin /\ history'.mine = history.mine
    BY <1>17b, <2>1, FinishUndoingEffect
  <2> QED BY <1>w, <1>z, <2>1, <2>2, TracedKept
<1>18. ASSUME CopyForRollback PROVE Traced'
  <2>1. CASE cmd' = Idle
    <3>1. cmd.at \in {"copy rewritten", "copy deleted"} /\ UNCHANGED <<file, batches, baseline, checkpoint>>
          /\ (Returns \/ UNCHANGED history)
      BY <1>18 DEF CopyForRollback
    <3>2. history'.origin = history.origin /\ history'.mine = history.mine
      BY <3>1, ReturningEffect
    <3> QED BY <1>i, <2>1, <3>1, <3>2
  <2>2. CASE cmd' # Idle
    <3>1. /\ cmd.at \in {"copy rewritten", "copy deleted"}
          /\ UNCHANGED <<file, batches, baseline, checkpoint, history>>
          /\ cmd'.at = IF cmd.at = "copy rewritten" THEN "rewrite" ELSE "unlink"
          /\ cmd'.doc = cmd.doc /\ cmd'.command = cmd.command
      BY <1>18, <2>2, CopyForRollbackEffect DEF ReadsKept
    <3>2. Undone' = Undone
      BY <3>1 DEF Undone
    <3>3. ComesBack'
      BY <1>z, <3>1, <3>2 DEF Traced, ComesBack, AfterRollback
    <3> QED BY <1>w, <1>z, <3>1, <3>3, TracedKept
  <2> QED BY <2>1, <2>2
<1>19. ASSUME RollbackRewrites PROVE Traced'
  <2>1. /\ cmd.at = "rewrite" /\ cmd'.at = "readback" /\ file' = cmd.doc
        /\ UNCHANGED <<batches, baseline, checkpoint>> /\ cmd'.command = cmd.command
        /\ history.origin # None /\ history'.origin = history.origin /\ history'.mine = history.mine
    BY <1>19, <1>w, RollbackRewritesEffect DEF ReadsKept
  <2>2. file' = Undone
    BY <1>z, <2>1 DEF Traced, ComesBack
  <2> QED BY <1>z, <2>1, <2>2, TracedAfterRollback
<1>20. ASSUME RollbackDeletes PROVE Traced'
  <2>1. CASE cmd' = Idle
    <3>1. /\ cmd.at = "unlink" /\ file = NoFile /\ UNCHANGED <<file, batches, baseline, checkpoint>>
          /\ history' = history
      BY <1>20, <2>1 DEF RollbackDeletes
    <3> QED BY <1>i, <2>1, <3>1
  <2>2. CASE cmd' # Idle
    <3>1. /\ cmd.at = "unlink" /\ cmd'.at = "record" /\ file' = NoFile
          /\ UNCHANGED <<batches, baseline, checkpoint>> /\ cmd'.command = cmd.command
          /\ history.origin # None /\ history'.origin = history.origin /\ history'.mine = history.mine
      BY <1>20, <2>2, <1>w, RollbackDeletesEffect DEF ReadsKept
    <3>2. cmd.command \in Rollbacks => file' = Undone
      BY <1>z, <3>1 DEF Traced, ComesBack
    <3> QED BY <1>z, <3>1, <3>2, TracedAfterRollback
  <2> QED BY <2>1, <2>2
<1>21. ASSUME RecordRollback PROVE Traced'
  BY <1>21, <1>z, RecordRollbackEffect, ReturningEffect
<1>22. ASSUME OriginalStarts PROVE Traced'
  <2>1. /\ cmd.at = "idle" /\ baseline # None /\ UNCHANGED <<file, batches, baseline, checkpoint>>
        /\ cmd'.at = "copy deleted" /\ cmd'.command = "remove" /\ Starts
    BY <1>22 DEF OriginalStarts
  <2>2. history.origin # None
    BY <2>1 DEF Untouched
  <2>3. history'.origin = history.origin /\ history'.mine = history.mine
    BY <2>1, StartingEffect
  <2> QED BY <1>z, <2>1, <2>2, <2>3, TracedKept, NotComingBack
<1>23. ASSUME RecordRemoval PROVE Traced'
  BY <1>23, <1>z DEF RecordRemoval
<1>24. ASSUME UserEdits PROVE Traced'
  BY <1>24, <1>z, TracedUserEdits
<1>25. ASSUME Crash PROVE Traced'
  <2>1. cmd.at \notin {"readback", "baseline", "checkpoint", "batch", "record"}
    BY <1>25, <1>z, CrashEffect
  <2> QED BY <1>i, <1>25, <2>1, CrashEffect DEF AllSteps
<1> QED
  BY <1>1, <1>2, <1>7, <1>9, <1>10, <1>11, <1>13, <1>14, <1>16, <1>17, <1>17a, <1>17b, <1>18, <1>19, <1>20, <1>21, <1>22, <1>23, <1>24, <1>25 DEF Next, Command, Rollbacks

-----------------------------------------------------------------------------
(* Values that undoing takes away *)

LEMMA NothingUndone ==
    ASSUME NEW bs, NEW v, NEW k
    PROVE  UndoneFrom(bs, v, 0, k) <=> v = Absent
  BY DEF UndoneFrom

\* Undoing one more batch: what the batch does not revert, an earlier one has written.
LEMMA UndoneByOne ==
    ASSUME NEW bs, NEW i \in Nat, NEW v, NEW k, NEW forced, i > 0,
           OperationsOK(bs[i].ops), UndoneFrom(bs, v, i, k),
           k \in DOMAIN bs[i].ops => UndoneFrom(bs, bs[i].ops[k].before, i - 1, k)
    PROVE  UndoneFrom(bs, IF k \in DOMAIN bs[i].ops /\ Reverts(bs[i].ops[k], v, forced)
                          THEN bs[i].ops[k].before ELSE v, i - 1, k)
<1>1. CASE v = Absent
  BY <1>1 DEF UndoneFrom
<1>2. CASE k \in DOMAIN bs[i].ops /\ Reverts(bs[i].ops[k], v, forced)
  BY <1>2
<1>3. CASE v # Absent /\ ~(k \in DOMAIN bs[i].ops /\ Reverts(bs[i].ops[k], v, forced))
  <2>1. PICK j \in 1 .. i :
          /\ k \in DOMAIN bs[j].ops /\ bs[j].ops[k].value = v
          /\ \A l \in j + 1 .. i : k \in DOMAIN bs[l].ops => bs[l].ops[k].kind = "delete"
    BY <1>3 DEF UndoneFrom
  <2>2. j # i
    <3>1. ASSUME j = i PROVE FALSE
      <4>1. k \in DOMAIN bs[i].ops /\ bs[i].ops[k].value = v
        BY <2>1, <3>1
      <4>2. bs[i].ops[k].kind # "delete"
        BY <1>3, <4>1, OperationFields
      <4> QED BY <1>3, <4>1, <4>2 DEF Reverts
    <3> QED BY <3>1
  <2>3. j \in 1 .. i - 1 /\ \A l \in j + 1 .. i - 1 : l \in j + 1 .. i
    BY <2>2
  <2>4. UndoneFrom(bs, v, i - 1, k)
    BY <2>1, <2>3 DEF UndoneFrom
  <2> QED BY <1>3, <2>4
<1> QED BY <1>1, <1>2, <1>3

\* Later batches that only delete the key do not matter.
LEMMA UndoneFromPrefix ==
    ASSUME NEW bs, NEW cs, NEW i \in Nat, NEW v, NEW k,
           \A j \in 1 .. i : cs[j] = bs[j], UndoneFrom(bs, v, i, k)
    PROVE  UndoneFrom(cs, v, i, k)
<1>1. CASE v = Absent
  BY <1>1 DEF UndoneFrom
<1>2. CASE v # Absent
  <2>1. PICK j \in 1 .. i :
          /\ k \in DOMAIN bs[j].ops /\ bs[j].ops[k].value = v
          /\ \A l \in j + 1 .. i : k \in DOMAIN bs[l].ops => bs[l].ops[k].kind = "delete"
    BY <1>2 DEF UndoneFrom
  <2>2. cs[j] = bs[j] /\ \A l \in j + 1 .. i : cs[l] = bs[l]
    OBVIOUS
  <2> QED BY <2>1, <2>2 DEF UndoneFrom
<1> QED BY <1>1, <1>2

LEMMA UndoneFromNext ==
    ASSUME NEW bs, NEW cs, NEW m \in Nat, NEW v, NEW k, m > 0,
           \A j \in 1 .. m - 1 : cs[j] = bs[j], UndoneFrom(bs, v, m - 1, k),
           k \in DOMAIN cs[m].ops => cs[m].ops[k].kind = "delete"
    PROVE  UndoneFrom(cs, v, m, k)
<1>1. CASE v = Absent
  BY <1>1 DEF UndoneFrom
<1>2. CASE v # Absent
  <2>1. PICK j \in 1 .. m - 1 :
          /\ k \in DOMAIN bs[j].ops /\ bs[j].ops[k].value = v
          /\ \A l \in j + 1 .. m - 1 : k \in DOMAIN bs[l].ops => bs[l].ops[k].kind = "delete"
    BY <1>2 DEF UndoneFrom
  <2>2. j \in 1 .. m /\ cs[j] = bs[j]
    OBVIOUS
  <2>3. ASSUME NEW l \in j + 1 .. m, k \in DOMAIN cs[l].ops PROVE cs[l].ops[k].kind = "delete"
    <3>1. CASE l = m
      BY <2>3, <3>1
    <3>2. CASE l # m
      <4>1. l \in j + 1 .. m - 1 /\ l \in 1 .. m - 1
        BY <3>2
      <4> QED BY <2>1, <2>3, <4>1
    <3> QED BY <3>1, <3>2
  <2> QED BY <2>1, <2>2, <2>3 DEF UndoneFrom
<1> QED BY <1>1, <1>2

LEMMA UndoneFromLast ==
    ASSUME NEW cs, NEW m \in Nat, NEW k, m > 0, k \in DOMAIN cs[m].ops
    PROVE  UndoneFrom(cs, cs[m].ops[k].value, m, k)
<1>1. m \in 1 .. m /\ \A l \in m + 1 .. m : FALSE
  OBVIOUS
<1> QED BY <1>1 DEF UndoneFrom

LEMMA GoesAwayKept ==
    ASSUME UNCHANGED batches
    PROVE  \A v, i, k : GoesAway(v, i, k)' <=> GoesAway(v, i, k)
  BY DEF GoesAway

LEMMA NewKeyKept ==
    ASSUME history'.origin = history.origin
    PROVE  \A k : NewKey(k)' <=> NewKey(k)
  BY DEF NewKey, KeyOf

\* What goes away still does after a batch that does not write it anew.
LEMMA GoesAwayAppended ==
    ASSUME ManagedOnly, NEW ops, NEW existed,
           batches' = Append(batches, [ops |-> ops, existed |-> existed])
    PROVE  /\ \A i \in 0 .. Len(batches) : \A v, k : GoesAway(v, i, k) => UndoneFrom(batches', v, i, k)
           /\ \A v, k : GoesAway(v, Len(batches), k) /\ (k \in DOMAIN ops => ops[k].kind = "delete")
                            => UndoneFrom(batches', v, Len(batches'), k)
           /\ \A k \in DOMAIN ops : UndoneFrom(batches', ops[k].value, Len(batches'), k)
<1> DEFINE b == [ops |-> ops, existed |-> existed]
           was == batches  now == batches'  n == Len(batches)  m == Len(batches')
<1>1. b.ops = ops
  OBVIOUS
<1>2. /\ n \in Nat /\ m = n + 1 /\ \A j \in 1 .. n : now[j] = was[j]
      /\ now[m] = b
  <2>1. batches' = Append(batches, b)
    OBVIOUS
  <2> HIDE DEF b
  <2>2. /\ Len(batches) \in Nat /\ Len(batches') = Len(batches) + 1
        /\ \A i \in 1 .. Len(batches) : batches'[i] = batches[i]
        /\ batches'[Len(batches) + 1] = b
    BY <2>1, AppendedFacts
  <2> QED BY <2>2
<1> HIDE DEF b
<1>3. m \in Nat /\ m > 0 /\ m - 1 = n /\ \A j \in 1 .. m - 1 : now[j] = was[j]
  BY <1>2
<1>4. \A v, i, k : GoesAway(v, i, k) = UndoneFrom(was, v, i, k)
  BY DEF GoesAway
<1> HIDE DEF was, now, n, m
<1>5. ASSUME NEW i \in 0 .. n, NEW v, NEW k, UndoneFrom(was, v, i, k)
      PROVE  UndoneFrom(now, v, i, k)
  <2>1. i \in Nat /\ \A j \in 1 .. i : now[j] = was[j]
    BY <1>2
  <2> QED BY <1>5, <2>1, UndoneFromPrefix
<1>6. ASSUME NEW v, NEW k, UndoneFrom(was, v, n, k), k \in DOMAIN ops => ops[k].kind = "delete"
      PROVE  UndoneFrom(now, v, m, k)
  <2>1. UndoneFrom(was, v, m - 1, k) /\ (k \in DOMAIN now[m].ops => now[m].ops[k].kind = "delete")
    BY <1>1, <1>2, <1>3, <1>6
  <2> QED BY <1>3, <2>1, UndoneFromNext
<1>7. ASSUME NEW k \in DOMAIN ops PROVE UndoneFrom(now, ops[k].value, m, k)
  BY <1>1, <1>2, <1>3, UndoneFromLast
<1>8. /\ \A i \in 0 .. n : \A v, k : GoesAway(v, i, k) => UndoneFrom(now, v, i, k)
      /\ \A v, k : GoesAway(v, n, k) /\ (k \in DOMAIN ops => ops[k].kind = "delete")
                            => UndoneFrom(now, v, m, k)
      /\ \A k \in DOMAIN ops : UndoneFrom(now, ops[k].value, m, k)
  BY <1>4, <1>5, <1>6, <1>7
<1> QED BY <1>8 DEF now, n, m

-----------------------------------------------------------------------------
(* The invariant is inductive: keys that were not in the original file *)

\* Steps that leave the file and the batches alone.
LEMMA GoesAwaySame ==
    ASSUME AllGoesAway, UNCHANGED <<file, batches>>, history'.origin = history.origin,
           cmd'.at = "batch" \/ (UNCHANGED checkpoint /\ cmd.at # "batch"),
           cmd'.at \in BeforeWriting => cmd.at \in BeforeWriting,
           AfterApply' => AfterApply /\ cmd'.doc = cmd.doc,
           DocumentGoesAway'
    PROVE  AllGoesAway'
<1>1. /\ \A v, i, k : GoesAway(v, i, k)' <=> GoesAway(v, i, k)
      /\ \A k : NewKey(k)' <=> NewKey(k)
  BY GoesAwayKept, NewKeyKept
<1>2. BatchesGoAway'
  <2>1. \A i \in DOMAIN batches : \A k \in DOMAIN batches[i].ops :
            NewKey(k)' => UndoneFrom(batches, batches[i].ops[k].before, i - 1, k)
    BY <1>1 DEF AllGoesAway, BatchesGoAway, GoesAway
  <2> QED BY <2>1 DEF BatchesGoAway, GoesAway
<1>3. CheckpointGoesAway'
  <2>1. checkpoint' # None /\ cmd'.at # "batch" =>
            \A k : NewKey(k)' => UndoneFrom(batches, KeyOf(checkpoint'.content, k), Len(batches), k)
    BY <1>1 DEF AllGoesAway, CheckpointGoesAway, GoesAway
  <2> QED BY <2>1 DEF CheckpointGoesAway, GoesAway, KeyOf
<1>4. FileGoesAway'
  <2>1. /\ cmd'.at \in BeforeWriting => \A k : NewKey(k)' => UndoneFrom(batches, KeyOf(file, k), Len(batches), k)
        /\ AfterApply' => \A k : NewKey(k)' => UndoneFrom(batches, cmd'.doc[k], Len(batches), k)
    BY <1>1 DEF AllGoesAway, FileGoesAway, GoesAway
  <2> QED BY <2>1 DEF FileGoesAway, GoesAway, KeyOf, BeforeWriting
<1> QED BY <1>2, <1>3, <1>4 DEF AllGoesAway

\* No rollback has a document.
LEMMA NoDocument ==
    ASSUME StepsOfCommands', cmd'.command \notin Rollbacks
    PROVE  DocumentGoesAway'
  BY DEF StepsOfCommands, DocumentGoesAway, RollsBack, AfterRollback, Undoing

\* A rollback has its document still, or again.
LEMMA DocumentKept ==
    ASSUME DocumentGoesAway, UNCHANGED batches, history'.origin = history.origin,
           cmd'.doc = cmd.doc, cmd'.written = cmd.written, cmd'.command = cmd.command,
           cmd'.at # "undo", RollsBack' \/ AfterRollback' => RollsBack \/ AfterRollback
    PROVE  DocumentGoesAway'
  BY NewKeyKept DEF DocumentGoesAway, KeyOf

LEMMA GoesAwayWrite ==
    ASSUME Typed, StepsOfCommands, StepsOfCommands', Untouched, Undisturbed,
           history.origin # None => AllGoesAway, NothingLost, WriteDocument
    PROVE  AllGoesAway'
<1>1. /\ cmd.at = "write" /\ cmd'.at = "readback" /\ cmd'.command = "apply"
      /\ UNCHANGED <<batches, baseline, checkpoint>> /\ cmd'.doc = cmd.doc
      /\ history'.origin = IF history.origin = None THEN file ELSE history.origin
  BY WriteDocumentEffect DEF ReadsKept
<1>2. cmd.doc = DocOf(file)
  BY <1>1 DEF Undisturbed, NothingLost, Preparing
<1>3. \A k \in ManagedKeys : cmd.doc[k] = KeyOf(file, k)
  BY <1>2, KeysAssumption DEF DocOf, KeyOf, Empty
<1>4. DocumentGoesAway'
  BY <1>1, NoDocument DEF Rollbacks
<1>5. cmd'.at \notin BeforeWriting /\ cmd'.at # "batch"
  BY <1>1 DEF BeforeWriting, Preparing, Undoing, Removing
<1>6. CASE history.origin = None
  <2>1. batches = <<>> /\ checkpoint = None
    BY <1>6 DEF Untouched
  <2>2. \A k : NewKey(k)' => k \in ManagedKeys /\ KeyOf(file, k) = Absent
    BY <1>1, <1>6 DEF NewKey, KeyOf
  <2>3. \A k : NewKey(k)' => UndoneFrom(batches, cmd.doc[k], Len(batches), k)
    BY <1>3, <2>2 DEF UndoneFrom
  <2>4. FileGoesAway'
    BY <1>1, <1>5, <2>3 DEF FileGoesAway, GoesAway
  <2> QED BY <1>1, <1>4, <2>1, <2>4 DEF AllGoesAway, BatchesGoAway, CheckpointGoesAway
<1>7. CASE history.origin # None
  <2>1. /\ \A v, i, k : GoesAway(v, i, k)' <=> GoesAway(v, i, k)
        /\ \A k : NewKey(k)' <=> NewKey(k)
    BY <1>1, <1>7, GoesAwayKept, NewKeyKept
  <2>2. \A k : NewKey(k)' => UndoneFrom(batches, cmd.doc[k], Len(batches), k)
    BY <1>1, <1>3, <1>7, <2>1 DEF AllGoesAway, FileGoesAway, GoesAway, BeforeWriting, Preparing, NewKey
  <2>3. FileGoesAway'
    BY <1>1, <1>5, <2>2 DEF FileGoesAway, GoesAway
  <2>4. \A i \in DOMAIN batches : \A k \in DOMAIN batches[i].ops :
            NewKey(k)' => UndoneFrom(batches, batches[i].ops[k].before, i - 1, k)
    BY <1>7, <2>1 DEF AllGoesAway, BatchesGoAway, GoesAway
  <2>5. checkpoint # None => \A k : NewKey(k)' => UndoneFrom(batches, KeyOf(checkpoint.content, k), Len(batches), k)
    BY <1>1, <1>7, <2>1 DEF AllGoesAway, CheckpointGoesAway, GoesAway
  <2>6. BatchesGoAway' /\ CheckpointGoesAway'
    BY <1>1, <2>4, <2>5 DEF BatchesGoAway, CheckpointGoesAway, GoesAway, KeyOf
  <2> QED BY <1>4, <2>3, <2>6 DEF AllGoesAway
<1> QED BY <1>6, <1>7

\* A batch is appended whose operations say what goes away.
LEMMA BatchesGoAwayAppended ==
    ASSUME ManagedOnly, BatchesGoAway, history'.origin = history.origin,
           NEW ops, NEW existed,
           batches' = Append(batches, [ops |-> ops, existed |-> existed]),
           \A k \in DOMAIN ops : NewKey(k) => GoesAway(ops[k].before, Len(batches), k)
    PROVE  BatchesGoAway'
<1> DEFINE b == [ops |-> ops, existed |-> existed]
           n == Len(batches)
<1>1. batches' = Append(batches, b) /\ b.ops = ops
  OBVIOUS
<1>2. /\ n \in Nat /\ DOMAIN batches = 1 .. n /\ batches'[n + 1] = b
      /\ \A i \in 1 .. n : batches'[i] = batches[i]
      /\ \A i \in DOMAIN batches' : i \in 1 .. n \/ i = n + 1
  <2> HIDE DEF b
  <2>1. /\ Len(batches) \in Nat /\ DOMAIN batches = 1 .. Len(batches)
        /\ \A i \in 1 .. Len(batches) : batches'[i] = batches[i]
        /\ batches'[Len(batches) + 1] = b
        /\ \A i \in DOMAIN batches' : i \in DOMAIN batches \/ i = Len(batches) + 1
    BY <1>1, AppendedFacts
  <2> QED BY <2>1
<1>3. \A i \in 0 .. n : \A v, k : GoesAway(v, i, k) => UndoneFrom(batches', v, i, k)
  BY GoesAwayAppended
<1>4. \A k : NewKey(k)' <=> NewKey(k)
  BY NewKeyKept
<1> HIDE DEF b
<1>5. ASSUME NEW i \in DOMAIN batches', NEW k \in DOMAIN batches'[i].ops, NewKey(k)
      PROVE  UndoneFrom(batches', batches'[i].ops[k].before, i - 1, k)
  <2>1. CASE i \in 1 .. n
    <3>1. GoesAway(batches[i].ops[k].before, i - 1, k) /\ i - 1 \in 0 .. n
      BY <1>2, <1>5, <2>1 DEF BatchesGoAway
    <3> QED BY <1>2, <1>3, <2>1, <3>1
  <2>2. CASE i = n + 1
    <3>1. k \in DOMAIN ops /\ GoesAway(ops[k].before, n, k) /\ n \in 0 .. n /\ i - 1 = n
      BY <1>1, <1>2, <1>5, <2>2
    <3> QED BY <1>1, <1>2, <1>3, <2>2, <3>1
  <2> QED BY <1>2, <2>1, <2>2
<1> QED BY <1>4, <1>5 DEF BatchesGoAway, GoesAway

LEMMA GoesAwayBatch ==
    ASSUME Typed, StepsOfCommands, StepsOfCommands', ManagedOnly, DocumentsFit, Undisturbed,
           AllGoesAway, NothingLost, RecordBatch
    PROVE  AllGoesAway'
<1> DEFINE n == Len(batches)
<1>1. /\ cmd.at = "batch" /\ cmd.command = "apply" /\ UNCHANGED <<file, baseline, checkpoint>>
      /\ batches' = Append(batches, [ops |-> cmd.ops, existed |-> cmd.existed])
      /\ cmd'.at = "idle" /\ cmd'.command = "none" /\ history'.origin = history.origin
  BY RecordBatchEffect, ReturningEffect, IdleFields DEF HistoryKept
<1>2. AfterApply /\ Planned
  BY <1>1 DEF AfterApply, Planned, Recording, Preparing
<1>3. /\ OperationsOK(cmd.ops) /\ file = Applied(cmd.doc, cmd.ops) /\ cmd.doc \in Contents
      /\ \A k \in DOMAIN cmd.ops : cmd.ops[k].before = cmd.doc[k]
      /\ checkpoint # None /\ checkpoint.content = file
  BY <1>1, <1>2 DEF Typed, TypeOK, LocalsTyped, Recording, DocumentsFit, Undisturbed, NothingLost
<1>4. \A k : NewKey(k) => GoesAway(cmd.doc[k], n, k)
  BY <1>2 DEF AllGoesAway, FileGoesAway
<1>5. BatchesGoAway'
  BY <1>1, <1>3, <1>4, BatchesGoAwayAppended DEF AllGoesAway
<1>6. \A k : NewKey(k)' <=> NewKey(k)
  BY <1>1, NewKeyKept
<1>7. /\ \A v, k : GoesAway(v, n, k) /\ (k \in DOMAIN cmd.ops => cmd.ops[k].kind = "delete")
                            => UndoneFrom(batches', v, Len(batches'), k)
      /\ \A k \in DOMAIN cmd.ops : UndoneFrom(batches', cmd.ops[k].value, Len(batches'), k)
  BY <1>1, GoesAwayAppended
<1>8. ASSUME NEW k, NewKey(k) PROVE UndoneFrom(batches', KeyOf(file, k), Len(batches'), k)
  <2>1. k \in Keys
    BY <1>8, KeysAssumption DEF NewKey
  <2>2. KeyOf(file, k) = IF k \in DOMAIN cmd.ops THEN cmd.ops[k].value ELSE cmd.doc[k]
    BY <1>3, <2>1, AppliedTyped, ContentsFacts DEF KeyOf
  <2>3. CASE k \in DOMAIN cmd.ops
    BY <1>7, <2>2, <2>3
  <2>4. CASE k \notin DOMAIN cmd.ops
    BY <1>4, <1>7, <1>8, <2>2, <2>4
  <2> QED BY <2>3, <2>4
<1>9. ~AfterApply'
  BY <1>1 DEF AfterApply, Recording
<1>10. FileGoesAway' /\ CheckpointGoesAway'
  BY <1>1, <1>3, <1>6, <1>8, <1>9 DEF FileGoesAway, CheckpointGoesAway, GoesAway, KeyOf
<1>11. DocumentGoesAway'
  BY <1>1, NoDocument DEF Rollbacks
<1> QED BY <1>5, <1>10, <1>11 DEF AllGoesAway

LEMMA GoesAwayUndoNext ==
    ASSUME Typed, StepsOfCommands, ManagedOnly, AllGoesAway, UndoNext
    PROVE  DocumentGoesAway'
<1> DEFINE i == cmd.todo
           ops == batches[i].ops
<1>1. /\ cmd.at = "undo" /\ cmd'.at = "undo" /\ cmd'.todo = i - 1 /\ UNCHANGED <<batches, history>>
      /\ cmd'.written = cmd.written /\ cmd'.command = cmd.command
      /\ i \in DOMAIN batches /\ i \in Nat /\ i > 0 /\ OperationsOK(ops)
      /\ \E forced \in ForcedKeys : cmd'.doc = Reverted(ops, cmd.doc, Hits(ops, cmd.doc, forced))
  BY UndoNextEffect, BatchTyped, BatchesSequence DEF DocumentsKept, ReadsKept
<1>2. PICK forced \in ForcedKeys : cmd'.doc = Reverted(ops, cmd.doc, Hits(ops, cmd.doc, forced))
  BY <1>1
<1>3. \A k \in Keys : cmd'.doc[k] = IF k \in DOMAIN ops /\ Reverts(ops[k], cmd.doc[k], k \in forced)
                                    THEN ops[k].before ELSE cmd.doc[k]
  <2>1. \A k : k \in Hits(ops, cmd.doc, forced) <=>
                   k \in DOMAIN ops /\ Reverts(ops[k], cmd.doc[k], k \in forced)
    BY DEF Hits
  <2>2. Hits(ops, cmd.doc, forced) \in SUBSET DOMAIN ops
    BY <2>1
  <2> HIDE DEF ops
  <2>3. \A k \in Keys : cmd'.doc[k] = IF k \in Hits(ops, cmd.doc, forced)
                                      THEN ops[k].before ELSE cmd.doc[k]
    BY <1>1, <1>2, <2>2, RevertedTyped DEF Typed, TypeOK
  <2> QED BY <2>1, <2>3
<1>4. ASSUME NEW k, NewKey(k)
      PROVE  UndoneFrom(batches, cmd'.doc[k], i - 1, k)
  <2>1. k \in Keys
    BY <1>4, KeysAssumption DEF NewKey
  <2>2. UndoneFrom(batches, cmd.doc[k], i, k)
    BY <1>1, <1>4 DEF AllGoesAway, DocumentGoesAway, GoesAway
  <2>3. k \in DOMAIN ops => UndoneFrom(batches, ops[k].before, i - 1, k)
    BY <1>1, <1>4 DEF AllGoesAway, BatchesGoAway, GoesAway
  <2> DEFINE bs == batches  v == cmd.doc[k]  f == (k \in forced)
  <2>4. UndoneFrom(bs, IF k \in DOMAIN bs[i].ops /\ Reverts(bs[i].ops[k], v, f)
                       THEN bs[i].ops[k].before ELSE v, i - 1, k)
    <3>1. /\ i \in Nat /\ i > 0 /\ OperationsOK(bs[i].ops) /\ UndoneFrom(bs, v, i, k)
          /\ k \in DOMAIN bs[i].ops => UndoneFrom(bs, bs[i].ops[k].before, i - 1, k)
      BY <1>1, <2>2, <2>3
    <3> HIDE DEF bs, v, f, i
    <3> QED BY <3>1, UndoneByOne
  <2> QED BY <1>3, <2>1, <2>4
<1>5. \A k : NewKey(k)' <=> NewKey(k)
  BY <1>1, NewKeyKept
<1>6. cmd'.command \in Rollbacks => \A k : NewKey(k) => KeyOf(cmd'.written, k) = Absent
  BY <1>1 DEF AllGoesAway, DocumentGoesAway
<1>7. ~RollsBack' /\ ~AfterRollback'
  BY <1>1 DEF RollsBack, AfterRollback
<1>8. \A k : NewKey(k)' => GoesAway(cmd.doc[k], cmd.todo, k)'
  BY <1>1, <1>4, <1>5 DEF GoesAway
<1>9. \A k : NewKey(k)' => KeyOf(cmd.written, k)' = Absent \/ cmd'.command \notin Rollbacks
  BY <1>5, <1>6 DEF KeyOf
<1> QED BY <1>1, <1>7, <1>8, <1>9 DEF DocumentGoesAway

LEMMA GoesAwayRecordRollback ==
    ASSUME Unrecorded = Absent,
           Typed, StepsOfCommands, StepsOfCommands', ManagedOnly, RollbackLedger,
           DocumentsFit, Undisturbed, AllGoesAway, NothingLost, RecordRollback
    PROVE  AllGoesAway'
<1> DEFINE n == Len(batches)
<1>1. /\ cmd.at = "record" /\ cmd.command \in Rollbacks /\ UNCHANGED file
      /\ checkpoint' \in {checkpoint, [content |-> cmd.written, existed |-> batches[1].existed]}
      /\ cmd'.at = "idle" /\ cmd'.command = "none" /\ history'.origin = history.origin
      /\ \/ UNCHANGED batches
         \/ batches' = Append(batches, [ops |-> cmd.ops, existed |-> batches[1].existed])
  BY RecordRollbackEffect, ReturningEffect, IdleFields DEF HistoryKept
<1>2. AfterRollback /\ ~AfterApply'
  BY <1>1 DEF AfterRollback, AfterApply, Recording
<1>3. /\ \A k : NewKey(k) => cmd.doc[k] = Absent /\ KeyOf(cmd.written, k) = Absent
      /\ file = cmd.doc \/ file = NoFile
      /\ OperationsOK(cmd.ops) /\ \A k \in DOMAIN cmd.ops : cmd.ops[k].before = Absent
      /\ \A k \in DOMAIN cmd.ops : cmd.ops[k].value = cmd.doc[k]
  BY <1>1, <1>2 DEF AllGoesAway, DocumentGoesAway, Undisturbed, NothingLost, Typed, LocalsTyped,
     DocumentsFit, RollbackLedger, RecordsDocument
<1>4. /\ \A k : NewKey(k) => KeyOf(file, k) = Absent
      /\ \A k \in DOMAIN cmd.ops : NewKey(k) => cmd.ops[k].kind = "delete"
  BY <1>3, OperationFields DEF KeyOf
<1>5. \A k : NewKey(k)' <=> NewKey(k)
  BY <1>1, NewKeyKept
<1>6. \A v, k : NewKey(k) /\ GoesAway(v, n, k) => UndoneFrom(batches', v, Len(batches'), k)
  <2>1. CASE UNCHANGED batches
    BY <2>1 DEF GoesAway
  <2>2. CASE batches' = Append(batches, [ops |-> cmd.ops, existed |-> batches[1].existed])
    BY <1>4, <2>2, GoesAwayAppended
  <2> QED BY <1>1, <2>1, <2>2
<1>7. BatchesGoAway'
  <2>1. CASE UNCHANGED batches
    <3>1. \A i \in DOMAIN batches : \A k \in DOMAIN batches[i].ops :
            NewKey(k)' => UndoneFrom(batches, batches[i].ops[k].before, i - 1, k)
      BY <1>5 DEF AllGoesAway, BatchesGoAway, GoesAway
    <3> QED BY <2>1, <3>1 DEF BatchesGoAway, GoesAway
  <2>2. CASE batches' = Append(batches, [ops |-> cmd.ops, existed |-> batches[1].existed])
    <3>1. \A k \in DOMAIN cmd.ops : NewKey(k) => GoesAway(cmd.ops[k].before, n, k)
      BY <1>3 DEF GoesAway, UndoneFrom
    <3> QED BY <1>1, <2>2, <3>1, BatchesGoAwayAppended DEF AllGoesAway
  <2> QED BY <1>1, <2>1, <2>2
<1>8. CheckpointGoesAway'
  <2>1. CASE UNCHANGED checkpoint
    <3>1. checkpoint # None => \A k : NewKey(k) => GoesAway(KeyOf(checkpoint.content, k), n, k)
      BY <1>1 DEF AllGoesAway, CheckpointGoesAway
    <3>2. checkpoint # None => \A k : NewKey(k) => UndoneFrom(batches', KeyOf(checkpoint.content, k), Len(batches'), k)
      BY <1>6, <3>1
    <3> QED BY <1>5, <2>1, <3>2 DEF CheckpointGoesAway, GoesAway, KeyOf
  <2>2. CASE checkpoint' = [content |-> cmd.written, existed |-> batches[1].existed]
    <3>1. checkpoint'.content = cmd.written
      BY <2>2
    <3>2. \A k : NewKey(k) => UndoneFrom(batches', KeyOf(cmd.written, k), Len(batches'), k)
      BY <1>3 DEF UndoneFrom
    <3> QED BY <1>5, <3>1, <3>2 DEF CheckpointGoesAway, GoesAway, KeyOf
  <2> QED BY <1>1, <2>1, <2>2
<1>9. FileGoesAway'
  <2>1. \A k : NewKey(k) => UndoneFrom(batches', KeyOf(file, k), Len(batches'), k)
    BY <1>4 DEF UndoneFrom
  <2> QED BY <1>1, <1>2, <1>5, <2>1 DEF FileGoesAway, GoesAway, KeyOf
<1>10. DocumentGoesAway'
  BY <1>1, NoDocument DEF Rollbacks
<1> QED BY <1>7, <1>8, <1>9, <1>10 DEF AllGoesAway

LEMMA GoesAwayRestore ==
    ASSUME StepsOfCommands, StepsOfCommands', Typed, AllGoesAway, RestoreCheckpoint
    PROVE  AllGoesAway'
<1>1. /\ cmd.at = "restore" /\ cmd'.at = "reload" /\ file' = checkpoint.content
      /\ UNCHANGED <<batches, checkpoint, history>> /\ cmd' = [cmd EXCEPT !.at = "reload"]
  BY DEF RestoreCheckpoint, StepsOfCommands
<1>2. cmd'.command = cmd.command /\ cmd'.written = cmd.written /\ cmd'.doc = cmd.doc
  BY <1>1, IdleFields DEF StepsOfCommands
<1>3. checkpoint # None
  BY <1>1 DEF Typed, LocalsTyped
<1>4. /\ \A v, i, k : GoesAway(v, i, k)' <=> GoesAway(v, i, k)
      /\ \A k : NewKey(k)' <=> NewKey(k)
  BY <1>1, GoesAwayKept, NewKeyKept
<1>5. \A k : NewKey(k)' => UndoneFrom(batches, KeyOf(checkpoint.content, k), Len(batches), k)
  BY <1>1, <1>3, <1>4 DEF AllGoesAway, CheckpointGoesAway, GoesAway
<1>6. \A i \in DOMAIN batches : \A k \in DOMAIN batches[i].ops :
          NewKey(k)' => UndoneFrom(batches, batches[i].ops[k].before, i - 1, k)
  BY <1>4 DEF AllGoesAway, BatchesGoAway, GoesAway
<1>7. BatchesGoAway' /\ CheckpointGoesAway'
  BY <1>1, <1>5, <1>6 DEF BatchesGoAway, CheckpointGoesAway, GoesAway, KeyOf
<1>8. FileGoesAway'
  <2>1. ~AfterApply'
    BY <1>1 DEF AfterApply, Recording
  <2> QED BY <1>1, <1>5, <2>1 DEF FileGoesAway, GoesAway, KeyOf
<1>9. DocumentGoesAway'
  <2>1. ~RollsBack' /\ ~AfterRollback'
    BY <1>1 DEF RollsBack, AfterRollback
  <2> QED BY <1>1, <1>2, <2>1, DocumentKept DEF AllGoesAway
<1> QED BY <1>7, <1>8, <1>9 DEF AllGoesAway

\* The file has been rewritten or deleted: what is on disk matters when that is recorded.
LEMMA GoesAwayReplaced ==
    ASSUME AllGoesAway, UNCHANGED <<batches, checkpoint>>, history'.origin = history.origin,
           cmd.at # "batch", cmd'.at \in {"readback", "record"}, cmd'.command # "apply",
           DocumentGoesAway'
    PROVE  AllGoesAway'
<1>1. /\ \A v, i, k : GoesAway(v, i, k)' <=> GoesAway(v, i, k)
      /\ \A k : NewKey(k)' <=> NewKey(k)
  BY GoesAwayKept, NewKeyKept
<1>2. \A i \in DOMAIN batches : \A k \in DOMAIN batches[i].ops :
          NewKey(k)' => UndoneFrom(batches, batches[i].ops[k].before, i - 1, k)
  BY <1>1 DEF AllGoesAway, BatchesGoAway, GoesAway
<1>3. checkpoint # None =>
          \A k : NewKey(k)' => UndoneFrom(batches, KeyOf(checkpoint.content, k), Len(batches), k)
  BY <1>1 DEF AllGoesAway, CheckpointGoesAway, GoesAway
<1>4. BatchesGoAway' /\ CheckpointGoesAway'
  BY <1>2, <1>3 DEF BatchesGoAway, CheckpointGoesAway, GoesAway, KeyOf
<1>5. FileGoesAway'
  BY DEF FileGoesAway, AfterApply, BeforeWriting, Preparing, Undoing, Removing
<1> QED BY <1>4, <1>5 DEF AllGoesAway

\* An edit that does not concern prescribe leaves the managed keys as they are.
LEMMA GoesAwayUserEdits ==
    ASSUME StepsOfCommands, StepsOfCommands', NothingLost', history'.origin # None,
           history.origin # None => AllGoesAway, UserEdits
    PROVE  AllGoesAway'
<1>1. /\ UNCHANGED <<batches, checkpoint, cmd>> /\ history'.origin = history.origin
      /\ ~Meddles(file')
  BY UserEditsEffect DEF NothingLost
<1>2. /\ cmd.at = "idle" /\ file # NoFile /\ file' # NoFile
      /\ \A k \in ManagedKeys : file'[k] = file[k]
  BY <1>1 DEF Meddles
<1>3. AllGoesAway
  BY <1>1
<1>4. /\ \A v, i, k : GoesAway(v, i, k)' <=> GoesAway(v, i, k)
      /\ \A k : NewKey(k)' <=> NewKey(k)
  BY <1>1, GoesAwayKept, NewKeyKept
<1>5. \A i \in DOMAIN batches : \A k \in DOMAIN batches[i].ops :
          NewKey(k)' => UndoneFrom(batches, batches[i].ops[k].before, i - 1, k)
  BY <1>3, <1>4 DEF AllGoesAway, BatchesGoAway, GoesAway
<1>6. checkpoint # None =>
          \A k : NewKey(k)' => UndoneFrom(batches, KeyOf(checkpoint.content, k), Len(batches), k)
  BY <1>2, <1>3, <1>4 DEF AllGoesAway, CheckpointGoesAway, GoesAway
<1>7. BatchesGoAway' /\ CheckpointGoesAway'
  BY <1>1, <1>5, <1>6 DEF BatchesGoAway, CheckpointGoesAway, GoesAway, KeyOf
<1>8. \A k : NewKey(k)' => UndoneFrom(batches, KeyOf(file', k), Len(batches), k)
  BY <1>2, <1>3, <1>4 DEF AllGoesAway, FileGoesAway, GoesAway, KeyOf, BeforeWriting, NewKey
<1>9. FileGoesAway'
  <2>1. cmd'.at = "idle" /\ ~AfterApply'
    BY <1>1, <1>2 DEF AfterApply, Recording
  <2> QED BY <1>1, <1>8, <2>1 DEF FileGoesAway, GoesAway, KeyOf
<1>10. DocumentGoesAway'
  <2>1. cmd'.at = "idle" /\ ~RollsBack' /\ ~AfterRollback'
    BY <1>1, <1>2 DEF RollsBack, AfterRollback
  <2> QED BY <1>1, <1>3, <2>1, DocumentKept DEF AllGoesAway
<1> QED BY <1>7, <1>9, <1>10 DEF AllGoesAway

\* Whatever was not in the original file goes away, as long as undoing restores nothing
\* that the batches do not name.
LEMMA NewKeysGoAwayStep ==
    ASSUME Unrecorded = Absent,
           Typed, StepsOfCommands, ManagedOnly, RollbackLedger, DocumentsFit, Undisturbed,
           Untouched, NewKeysGoAway, Next
    PROVE  NewKeysGoAway'
<1> SUFFICES ASSUME NothingLost', history'.origin # None PROVE AllGoesAway'
  BY DEF NewKeysGoAway
<1>c. StepsOfCommands'
  BY CommandsStep
<1>n. NothingLost
  BY HistoryGrows DEF NothingLost
<1>z. history.origin # None => AllGoesAway
  BY <1>n DEF NewKeysGoAway
<1>9. ASSUME WriteDocument PROVE AllGoesAway'
  BY <1>9, <1>c, <1>n, <1>z, GoesAwayWrite
<1>24. ASSUME UserEdits PROVE AllGoesAway'
  BY <1>24, <1>c, <1>z, GoesAwayUserEdits
<1>o. ASSUME history'.origin = history.origin
      PROVE  history.origin # None /\ AllGoesAway /\ DocumentGoesAway
  BY <1>o, <1>z DEF AllGoesAway
<1> USE IdleFields DEF BeforeWriting, AfterApply, RollsBack, AfterRollback, Preparing, Recording,
        Undoing, Removing, Rollbacks, DocumentsKept, HistoryKept
<1>s. cmd.at \in AllSteps /\ cmd'.at \in AllSteps
  BY <1>c DEF StepsOfCommands
<1>i. ASSUME cmd' = Idle, UNCHANGED <<file, batches, checkpoint>>,
             history'.origin = history.origin, cmd.at \in BeforeWriting
      PROVE  AllGoesAway'
  <2>1. DocumentGoesAway'
    BY <1>c, <1>i, NoDocument
  <2> QED BY <1>i, <1>o, <2>1, GoesAwaySame
<1>1. ASSUME ApplyStarts PROVE AllGoesAway'
  <2>1. /\ cmd.at = "idle" /\ UNCHANGED <<file, batches, checkpoint>>
        /\ history'.origin = history.origin
        /\ cmd'.at \in {"appeared", "load"} /\ cmd'.command = "apply"
    BY <1>1, ApplyStartsEffect, StartingEffect
  <2>2. DocumentGoesAway'
    BY <1>c, <2>1, NoDocument
  <2> QED BY <1>o, <2>1, <2>2, GoesAwaySame
<1>2. ASSUME LoadAndPlan \/ Recheck \/ ReadOriginalText \/ CheckNotAppeared \/ LookAgain
             \/ CopyForRecovery \/ ListRecoveryBackup
      PROVE  AllGoesAway'
  <2>1. cmd.at \in Preparing /\ UNCHANGED <<file, batches, checkpoint, history>>
    BY <1>2 DEF LoadAndPlan, Recheck, ReadOriginalText, CheckNotAppeared, LookAgain,
       CopyForRecovery, ListRecoveryBackup
  <2>2. CASE cmd' = Idle
    BY <1>i, <2>1, <2>2
  <2>3. CASE cmd' # Idle
    <3>1. cmd'.at \in Preparing
      <4>1. LoadAndPlan => cmd'.at \in Preparing
        BY <2>3, LoadAndPlanEffect
      <4>2. Recheck \/ ReadOriginalText \/ CheckNotAppeared \/ LookAgain => cmd'.at \in Preparing
        BY <2>3, LookingEffect
      <4>3. CopyForRecovery => cmd'.at \in Preparing
        BY CopyForRecoveryEffect
      <4>4. ListRecoveryBackup => cmd'.at \in Preparing
        BY DEF ListRecoveryBackup, StepsOfCommands
      <4> QED BY <1>2, <4>1, <4>2, <4>3, <4>4
    <3>2. DocumentGoesAway'
      BY <1>c, <3>1, NoDocument DEF StepsOfCommands
    <3> QED BY <1>o, <2>1, <3>1, <3>2, GoesAwaySame
  <2> QED BY <2>2, <2>3
<1>10. ASSUME ReadBack PROVE AllGoesAway'
  <2>1. cmd' # Idle
    <3>1. ASSUME file = NoFile PROVE "unrecorded" \in history'.past
      BY <1>10, <3>1 DEF ReadBack, StepsOfCommands
    <3>2. file # NoFile
      BY <3>1 DEF NothingLost
    <3>3. cmd'.at \in {"baseline", "record"}
      BY <1>10, <3>2 DEF ReadBack, StepsOfCommands
    <3> QED BY <3>3
  <2>2. /\ cmd.at = "readback" /\ UNCHANGED <<file, batches, checkpoint, history>>
        /\ cmd'.at = IF cmd.command = "apply" THEN "baseline" ELSE "record"
        /\ cmd'.doc = cmd.doc /\ cmd'.written = file /\ cmd'.command = cmd.command
    BY <1>10, <2>1, ReadBackEffect
  <2>3. DocumentGoesAway'
    <3>1. CASE cmd.command = "apply"
      BY <1>c, <2>2, <3>1, NoDocument
    <3>2. CASE cmd.command \in Rollbacks
      <4>1. file = cmd.doc /\ file # NoFile
        BY <1>10, <1>n, <2>2, <3>2 DEF Undisturbed, NothingLost, ReadBack
      <4>2. \A k : NewKey(k) => cmd.doc[k] = Absent
        BY <1>o, <2>2, <3>2 DEF DocumentGoesAway
      <4>3. \A k : NewKey(k)' => cmd'.doc[k] = Absent /\ KeyOf(cmd'.written, k) = Absent
        BY <2>2, <4>1, <4>2, NewKeyKept DEF KeyOf
      <4> QED BY <2>2, <3>2, <4>3 DEF DocumentGoesAway, KeyOf
    <3> QED BY <2>2, <3>1, <3>2 DEF StepsOfCommands
  <2> QED BY <1>o, <2>2, <2>3, GoesAwaySame
<1>11. ASSUME RecordBaseline \/ RecordCheckpoint PROVE AllGoesAway'
  <2>1. /\ cmd.at \in {"baseline", "checkpoint"} /\ cmd'.at \in {"checkpoint", "batch"}
        /\ UNCHANGED <<file, batches, history>> /\ cmd'.command = "apply"
        /\ cmd'.doc = cmd.doc /\ (cmd'.at = "batch" \/ UNCHANGED checkpoint)
    BY <1>11, RecordBaselineEffect, RecordCheckpointEffect DEF ReadsKept, StepsOfCommands
  <2>2. DocumentGoesAway'
    BY <1>c, <2>1, NoDocument
  <2>3. AfterApply
    BY <2>1 DEF StepsOfCommands
  <2> QED BY <1>o, <2>1, <2>2, <2>3, GoesAwaySame
<1>13. ASSUME RecordBatch PROVE AllGoesAway'
  <2>1. history'.origin = history.origin
    BY <1>13, RecordBatchEffect, ReturningEffect
  <2> QED BY <1>13, <1>c, <1>n, <1>o, <2>1, GoesAwayBatch
<1>14. ASSUME NEW command \in Rollbacks, RollbackStarts(command) PROVE AllGoesAway'
  <2>1. /\ cmd.at = "idle" /\ UNCHANGED <<file, batches, checkpoint>> /\ Starts
        /\ cmd' = [Idle EXCEPT !.at = IF file = NoFile THEN "restore" ELSE "reload",
                               !.command = command]
    BY <1>14 DEF RollbackStarts
  <2>2. cmd'.at \in {"restore", "reload"} /\ cmd'.written = NoFile
    BY <2>1, IdleDefaults
  <2>3. history'.origin = history.origin
    BY <2>1, StartingEffect
  <2>4. DocumentGoesAway'
    BY <2>2 DEF DocumentGoesAway, KeyOf
  <2> QED BY <1>o, <2>1, <2>2, <2>3, <2>4, GoesAwaySame
<1>16. ASSUME RestoreCheckpoint PROVE AllGoesAway'
  BY <1>16, <1>c, <1>o, GoesAwayRestore DEF RestoreCheckpoint
<1>17. ASSUME Reload PROVE AllGoesAway'
  <2>1. CASE cmd' = Idle
    <3>1. cmd.at = "reload" /\ UNCHANGED <<file, batches, checkpoint>> /\ history' = history
      BY <1>17, <2>1 DEF Reload
    <3> QED BY <1>i, <2>1, <3>1
  <2>2. CASE cmd' # Idle
    <3>1. /\ cmd.at = "reload" /\ UNCHANGED <<file, batches, checkpoint, history>> /\ file # NoFile
          /\ cmd'.at = "undo" /\ cmd'.doc = file /\ cmd'.todo = Len(batches)
          /\ cmd'.written = cmd.written /\ cmd'.command = cmd.command
      BY <1>17, <2>2, ReloadEffect DEF ReadsKept
    <3>2. \A k : NewKey(k) => UndoneFrom(batches, file[k], Len(batches), k)
      BY <1>o, <3>1 DEF AllGoesAway, FileGoesAway, GoesAway, KeyOf
    <3>3. cmd.command \in Rollbacks => \A k : NewKey(k) => KeyOf(cmd.written, k) = Absent
      BY <1>o, <3>1 DEF DocumentGoesAway
    <3>4. \A k : NewKey(k)' <=> NewKey(k)
      BY <3>1, NewKeyKept
    <3>5. DocumentGoesAway'
      BY <3>1, <3>2, <3>3, <3>4 DEF DocumentGoesAway, GoesAway, KeyOf
    <3> QED BY <1>o, <3>1, <3>5, GoesAwaySame
  <2> QED BY <2>1, <2>2
<1>17a. ASSUME UndoNext PROVE AllGoesAway'
  <2>1. /\ cmd.at = "undo" /\ cmd'.at = "undo" /\ UNCHANGED <<file, batches, checkpoint, history>>
    BY <1>17a, UndoNextEffect
  <2>2. DocumentGoesAway'
    BY <1>17a, <1>o, <2>1, GoesAwayUndoNext
  <2> QED BY <1>o, <2>1, <2>2, GoesAwaySame
<1>17b. ASSUME FinishUndoing PROVE AllGoesAway'
  <2>1. CASE cmd' = Idle
    <3>1. /\ cmd.at = "undo" /\ UNCHANGED <<file, batches, checkpoint>>
          /\ history'.origin = history.origin
      <4>1. /\ cmd.at = "undo" /\ UNCHANGED <<file, batches, checkpoint>>
            /\ (Returns \/ Happens(IF cmd.skipped = {} THEN {} ELSE {"skipped"}))
        BY <1>17b DEF FinishUndoing
      <4> QED BY <4>1 DEF StepsOfCommands
    <3> QED BY <1>i, <2>1, <3>1
  <2>2. CASE cmd' # Idle
    <3>1. /\ cmd.at = "undo" /\ cmd.todo = 0 /\ cmd'.at \in {"copy rewritten", "copy deleted"}
          /\ UNCHANGED <<file, batches, checkpoint>> /\ history'.origin = history.origin
          /\ cmd'.doc = cmd.doc /\ cmd'.written = cmd.written /\ cmd'.command = cmd.command
      BY <1>17b, <2>2, FinishUndoingEffect DEF ReadsKept
    <3>2. \A k : NewKey(k) => UndoneFrom(batches, cmd.doc[k], 0, k)
      BY <1>o, <3>1 DEF DocumentGoesAway, GoesAway
    <3>3. \A k : NewKey(k)' => cmd'.doc[k] = Absent
      BY <3>1, <3>2, NothingUndone, NewKeyKept
    <3>4. \A k : NewKey(k)' => KeyOf(cmd'.written, k) = Absent \/ cmd'.command \notin Rollbacks
      BY <1>o, <3>1, NewKeyKept DEF DocumentGoesAway
    <3>5. DocumentGoesAway'
      BY <3>1, <3>3, <3>4 DEF DocumentGoesAway, KeyOf
    <3> QED BY <1>o, <3>1, <3>5, GoesAwaySame
  <2> QED BY <2>1, <2>2
<1>18. ASSUME CopyForRollback PROVE AllGoesAway'
  <2>1. CASE cmd' = Idle
    <3>1. cmd.at \in {"copy rewritten", "copy deleted"} /\ UNCHANGED <<file, batches, checkpoint>>
          /\ (Returns \/ UNCHANGED history)
      BY <1>18 DEF CopyForRollback
    <3>2. history'.origin = history.origin
      BY <3>1, ReturningEffect
    <3> QED BY <1>i, <2>1, <3>1, <3>2
  <2>2. CASE cmd' # Idle
    <3>1. /\ cmd.at \in {"copy rewritten", "copy deleted"}
          /\ UNCHANGED <<file, batches, checkpoint, history>> /\ cmd'.at \in {"rewrite", "unlink"}
          /\ cmd'.doc = cmd.doc /\ cmd'.written = cmd.written /\ cmd'.command = cmd.command
      BY <1>18, <2>2, CopyForRollbackEffect DEF ReadsKept
    <3>2. DocumentGoesAway'
      BY <1>o, <3>1, DocumentKept
    <3> QED BY <1>o, <3>1, <3>2, GoesAwaySame
  <2> QED BY <2>1, <2>2
<1>19. ASSUME RollbackRewrites \/ RollbackDeletes, cmd' # Idle PROVE AllGoesAway'
  <2>1. /\ cmd.at \in {"rewrite", "unlink"} /\ cmd'.at \in {"readback", "record"}
        /\ UNCHANGED <<batches, checkpoint>> /\ history'.origin = history.origin
        /\ cmd'.doc = cmd.doc /\ cmd'.written = cmd.written /\ cmd'.command = cmd.command
    BY <1>19, RollbackRewritesEffect, RollbackDeletesEffect DEF ReadsKept, Untouched
  <2>2. cmd.command \in Rollbacks \cup {"remove"}
    BY <2>1 DEF StepsOfCommands
  <2>3. DocumentGoesAway'
    BY <1>o, <2>1, DocumentKept
  <2> QED BY <1>o, <2>1, <2>2, <2>3, GoesAwayReplaced
<1>19a. ASSUME RollbackRewrites PROVE cmd' # Idle
  BY <1>19a, RollbackRewritesEffect
<1>20. ASSUME RollbackDeletes, cmd' = Idle PROVE AllGoesAway'
  <2>1. /\ cmd.at = "unlink" /\ file = NoFile /\ UNCHANGED <<file, batches, checkpoint>>
        /\ history' = history
    BY <1>20 DEF RollbackDeletes
  <2> QED BY <1>20, <1>i, <2>1
<1>21. ASSUME RecordRollback PROVE AllGoesAway'
  <2>1. history'.origin = history.origin
    BY <1>21, RecordRollbackEffect, ReturningEffect
  <2> QED BY <1>21, <1>c, <1>n, <1>o, <2>1, GoesAwayRecordRollback
<1>22. ASSUME OriginalStarts PROVE AllGoesAway'
  <2>1. /\ cmd.at = "idle" /\ UNCHANGED <<file, batches, checkpoint>>
        /\ cmd'.at = "copy deleted" /\ cmd'.command = "remove" /\ Starts
    BY <1>22 DEF OriginalStarts
  <2>2. history'.origin = history.origin
    BY <2>1, StartingEffect
  <2>3. DocumentGoesAway'
    BY <1>c, <2>1, NoDocument
  <2> QED BY <1>o, <2>1, <2>2, <2>3, GoesAwaySame
<1>23. ASSUME RecordRemoval PROVE AllGoesAway'
  BY <1>23 DEF RecordRemoval, NothingLost, StepsOfCommands
<1>25. ASSUME Crash PROVE AllGoesAway'
  <2>1. cmd.at \notin {"readback", "baseline", "checkpoint", "batch", "record"}
    BY <1>25, CrashEffect DEF NothingLost
  <2> QED BY <1>i, <1>25, <1>s, <2>1, CrashEffect DEF AllSteps
<1> QED
  BY <1>1, <1>2, <1>9, <1>10, <1>11, <1>13, <1>14, <1>16, <1>17, <1>17a, <1>17b, <1>18, <1>19, <1>19a, <1>20, <1>21, <1>22, <1>23, <1>24, <1>25 DEF Next, Command, Rollbacks

-----------------------------------------------------------------------------
(* Theorems *)

\* Every step keeps the invariant.
LEMMA IInvStep ==
    ASSUME IInv, [Next]_vars
    PROVE  IInv'
<1>1. CASE Next
  BY <1>1, CommandsStep, CopiedStep, PlannedStep, ManagedOnlyStep, RollbackLedgerStep,
     ApplyLedgerStep DEF IInv
<1>2. CASE UNCHANGED vars
  <2>1. StepsOfCommands' /\ CopiedBeforeWrite' /\ PlannedBeforeWrite'
    BY <1>2 DEF vars, IInv, StepsOfCommands, CopiedBeforeWrite, PlannedBeforeWrite
  <2>2. UNCHANGED <<batches, cmd, history>>
    BY <1>2 DEF vars
  <2>3. ManagedOnly'
    BY <2>2, SameBatches DEF IInv, ManagedOnly
  <2>4. ApplyLedger'
    BY <2>2, SameBatches DEF IInv, ApplyLedger, Clean, Matches
  <2>5. RollbackLedger'
    BY <2>2, SameBatches DEF IInv, RollbackLedger, RecordsDocument
  <2> QED
    BY <2>1, <2>3, <2>4, <2>5 DEF IInv
<1> QED
  BY <1>1, <1>2

LEMMA IInvInit == Init => IInv
<1> SUFFICES ASSUME Init PROVE IInv
  OBVIOUS
<1>1. batches = <<>> /\ batches \in Seq({}) /\ BatchKeys = {}
  BY DEF Init, BatchKeys
<1>2. cmd = Idle /\ DOMAIN history = {"origin", "left", "mine", "last", "past"}
  BY DEF Init
<1> QED
  BY <1>1, <1>2, IdleFields
     DEF IInv, StepsOfCommands, CopiedBeforeWrite, PlannedBeforeWrite, ManagedOnly, ApplyLedger,
         RollbackLedger, Clean, Matches, AllSteps, Preparing, Recording, Undoing, Removing,
         Rollbacks

\* The inductive invariant holds in every reachable state: each step belongs to its
\* command, what is about to be overwritten is copied and planned for, and the batches
\* follow the writes.
THEOREM InductiveInvariant == Spec => []IInv
<1> QED
  BY IInvInit, IInvStep, PTL DEF Spec

\* Whatever apply or rollback overwrites or deletes was copied before, unless a user
\* edited it after the copy was made (_apply_and_record, perform_rollback).
THEOREM OverwrittenIsCopied == Spec => OverwrittenWasCopied
<1>1. ASSUME IInv, [Next]_vars
      PROVE  [Replaces /\ file # NoFile =>
                 \/ file \in IF cmd.command = "apply" THEN listed ELSE copies
                 \/ cmd.editedSinceCopy]_vars
  BY <1>1 DEF IInv, CopiedBeforeWrite, StepsOfCommands, Preparing, Undoing, Removing, Rollbacks,
              Replaces, WriteDocument, RollbackRewrites, RollbackDeletes, RestoreCheckpoint
<1> QED
  BY <1>1, InductiveInvariant, PTL DEF Spec, OverwrittenWasCopied

\* apply overwrites only the content its operations were planned for, unless a user
\* edited it after the second fingerprint (_process_existing_file, _process_new_file).
THEOREM WritesArePlanned == Spec => PlannedForThisContent
<1>1. ASSUME IInv, [Next]_vars
      PROVE  [WriteDocument => file = cmd.before \/ cmd.editedSinceCheck]_vars
  BY <1>1 DEF IInv, PlannedBeforeWrite, WriteDocument
<1> QED
  BY <1>1, InductiveInvariant, PTL DEF Spec, PlannedForThisContent

\* Between commands the batches say what was last written to each key, through any
\* number of applies and rollbacks, as long as each could record what it wrote
\* (_managed_state_from_batches, _current_state_operations).
THEOREM LedgerIsTruthful == Spec => []LedgerMatchesWrites
<1>1. IInv => LedgerMatchesWrites
  BY DEF IInv, ApplyLedger, Clean, Matches, LedgerMatchesWrites
<1> QED
  BY <1>1, InductiveInvariant, PTL

-----------------------------------------------------------------------------
(* Theorems about types and rollbacks *)

\* What is known of the records, the running command and the file.
Known == Typed /\ DocumentsFit /\ Undisturbed /\ Untouched /\ FirstRollback

\* With every command idle and nothing recorded there is little to know.
LEMMA KnownInit == Init => Known /\ NewKeysGoAway
<1> SUFFICES ASSUME Init PROVE Known /\ NewKeysGoAway
  OBVIOUS
<1>1. /\ cmd.at = "idle" /\ cmd.doc = Empty /\ cmd.before = NoFile /\ cmd.text = NoFile
      /\ cmd.copied = NoFile /\ cmd.written = NoFile /\ cmd.existed = FALSE
      /\ cmd.command = "none"
  BY IdleFields, IdleDefaults DEF Init
<1>2. /\ batches = <<>> /\ baseline = None /\ checkpoint = None /\ copies = {} /\ listed = {}
      /\ file \in Files /\ DOMAIN batches = {}
  BY DEF Init
<1>3. /\ history.origin = None /\ history.mine = DocOf(file) /\ history.last = "none"
      /\ history.past = {}
  BY DEF Init, DocOf
<1> USE DEF Planned, RollsBack, AfterRollback, AfterApply, Preparing, Recording, Undoing,
            Removing, Rollbacks
<1>4. TypeOK
  BY <1>1, <1>2, ContentsFacts DEF TypeOK, Records
<1>5. LocalsTyped
  BY <1>1, ContentsFacts DEF LocalsTyped
<1>6. RecordsTyped
  BY <1>2, <1>3, ContentsFacts DEF RecordsTyped
<1>7. DocumentsFit /\ Undisturbed /\ Untouched
  BY <1>1, <1>2, <1>3 DEF DocumentsFit, Undisturbed, Untouched
<1>8. Traced
  BY <1>1, <1>2, <1>3 DEF Traced, Chained, UsersPart, ManagedPart, ExistenceRecorded, ComesBack
<1>9. FirstRollback
  BY <1>1, <1>8 DEF FirstRollback, RollbacksNoted
<1>10. NewKeysGoAway
  BY <1>3 DEF NewKeysGoAway
<1> QED BY <1>4, <1>5, <1>6, <1>7, <1>9, <1>10 DEF Typed, Known

LEMMA KnownStep ==
    ASSUME IInv, Known, [Next]_vars
    PROVE  Known'
<1>1. CASE Next
  BY <1>1, TypeOKStep, LocalsTypedStep, RecordsTypedStep, DocumentsFitStep, UndisturbedStep,
     UntouchedStep, FirstRollbackStep DEF IInv, Known, Typed
<1>2. CASE UNCHANGED vars
  <2>1. UNCHANGED <<file, batches, baseline, checkpoint, copies, listed, cmd, history>>
    BY <1>2 DEF vars
  <2>2. Typed' /\ DocumentsFit' /\ Undisturbed' /\ Untouched'
    <3>1. Planned' = Planned /\ RollsBack' = RollsBack /\ AfterRollback' = AfterRollback
          /\ AfterApply' = AfterApply
      BY <2>1 DEF Planned, RollsBack, AfterRollback, AfterApply
    <3>2. Typed'
      BY <2>1, <3>1 DEF Known, Typed, TypeOK, LocalsTyped, RecordsTyped
    <3>3. DocumentsFit' /\ Undisturbed' /\ Untouched'
      BY <2>1, <3>1 DEF Known, DocumentsFit, Undisturbed, Untouched
    <3> QED BY <3>2, <3>3
  <2>3. RollbacksNoted' /\ (OnlyApplied' => OnlyApplied)
    BY <2>1 DEF Known, FirstRollback, RollbacksNoted, OnlyApplied
  <2>4. ASSUME Traced PROVE Traced'
    <3>1. ComesBack'
      <4>1. Undone' = Undone /\ AfterRollback' = AfterRollback
        BY <2>1 DEF Undone, AfterRollback
      <4>2. \A i, k : StateAfter(i, k)' = StateAfter(i, k)
        BY <2>1, StateKept
      <4> QED BY <2>1, <2>4, <4>1, <4>2 DEF Traced, ComesBack, StateAfter
    <3>2. /\ cmd'.at \in BeforeWriting => cmd.at \in BeforeWriting
          /\ AfterApply' => AfterApply
      BY <2>1 DEF AfterApply
    <3>3. CASE cmd.at # "restore"
      BY <2>1, <2>4, <3>1, <3>2, <3>3, TracedKept
    <3>4. CASE cmd.at = "restore"
      <4>1. history.origin = None
        BY <2>4, <3>4 DEF Traced, ManagedPart, BeforeWriting, Undoing
      <4> QED BY <3>4, <4>1 DEF Known, Untouched, Preparing
    <3> QED BY <3>3, <3>4
  <2> QED BY <2>2, <2>3, <2>4 DEF Known, FirstRollback
<1> QED BY <1>1, <1>2

LEMMA NewKeysGoAwayKept ==
    ASSUME Unrecorded = Absent, IInv, Known, NewKeysGoAway, [Next]_vars
    PROVE  NewKeysGoAway'
<1>1. CASE Next
  BY <1>1, NewKeysGoAwayStep DEF IInv, Known
<1>2. CASE UNCHANGED vars
  <2>1. UNCHANGED <<file, batches, checkpoint, cmd, history>>
    BY <1>2 DEF vars
  <2>2. ASSUME AllGoesAway PROVE AllGoesAway'
    BY <2>1, <2>2 DEF AllGoesAway, BatchesGoAway, CheckpointGoesAway, FileGoesAway,
       DocumentGoesAway, GoesAway, NewKey, KeyOf, AfterApply, RollsBack, AfterRollback
  <2> QED BY <2>1, <2>2 DEF NewKeysGoAway, NothingLost
<1> QED BY <1>1, <1>2

\* What the ledger, the running command and the file know of each other, in every
\* reachable state, next to InductiveInvariant.
THEOREM RecordsAreKnown == Spec => [](IInv /\ Known)
<1> QED
  BY IInvInit, IInvStep, KnownInit, KnownStep, PTL DEF Spec

\* Every record, document and batch is of its kind: contents are whole documents,
\* operations are about keys that specs may mention, and listed backups exist.
THEOREM TypeCorrect == Spec => []TypeOK
<1>1. Known => TypeOK
  BY DEF Known, Typed
<1> QED BY <1>1, RecordsAreKnown, PTL

\* A rollback that finds nothing but applies before it ends with the original file and
\* the user's part of it.
LEMMA FirstRollbackEnds ==
    ASSUME IInv, Known, Next, NEW command \in Rollbacks, Finishes(command), history'.past = {}
    PROVE  file' = Undone'
<1>1. /\ cmd.command = command /\ cmd' = Idle
      /\ FinishUndoing \/ CopyForRollback \/ RecordRollback
  BY DEF Finishes
<1>2. cmd.at # "idle" /\ history.past = {}
  BY <1>1, HistoryGrows DEF FinishUndoing, CopyForRollback, RecordRollback, IInv
<1>3. Traced
  BY <1>2 DEF Known, FirstRollback, RollbacksNoted, OnlyApplied
<1>4. ~FinishUndoing
  BY <1>1, <1>3, TracedFinishUndoing DEF Known, IInv
<1>5. ~CopyForRollback
  BY <1>1, <1>2, IdleFields
     DEF Known, Undisturbed, RollsBack, Rollbacks, CopyForRollback, IInv, StepsOfCommands
<1>6. RecordRollback
  BY <1>1, <1>4, <1>5
<1>7. file = Undone
  BY <1>1, <1>3, <1>6, RecordRollbackEffect
     DEF Traced, ComesBack, AfterRollback, Rollbacks, IInv
<1>8. /\ UNCHANGED file /\ history'.origin = history.origin /\ history'.mine = history.mine
  BY <1>6, RecordRollbackEffect, ReturningEffect DEF IInv, HistoryKept
<1> QED BY <1>7, <1>8 DEF Undone

\* The first rollback after any number of applies gives back the managed keys as they
\* were, keeps the user's part, and deletes a file that prescribe created and nobody
\* else uses (perform_rollback, rollback_batch).
THEOREM FirstRollbackComesBack == Spec => FirstRollbackRestores
<1>1. ASSUME IInv, Known, [Next]_vars
      PROVE  [Finishes("rollback") /\ history'.past = {} => file' = Undone']_vars
  BY <1>1, FirstRollbackEnds DEF Rollbacks
<1> QED BY <1>1, RecordsAreKnown, PTL DEF Spec, FirstRollbackRestores

\* rollback --original does the same when nothing but applies came before it, so that
\* it takes an earlier rollback to violate OriginalRestoresBaseline
\* (perform_rollback_original).
THEOREM FirstOriginalComesBack ==
    Spec => [][Finishes("original") /\ history'.past = {} => file' = Undone']_vars
<1>1. ASSUME IInv, Known, [Next]_vars
      PROVE  [Finishes("original") /\ history'.past = {} => file' = Undone']_vars
  BY <1>1, FirstRollbackEnds DEF Rollbacks
<1> QED BY <1>1, RecordsAreKnown, PTL DEF Spec

\* A managed block that was not there before the first apply is gone after every
\* rollback, however applies and rollbacks alternate, where undoing restores nothing
\* that no batch names, as in line documents (_rollback_line, perform_rollback).
THEOREM NewBlocksAreGone ==
    ASSUME Unrecorded = Absent
    PROVE  Spec => NewBlocksGoAway
<1>1. ASSUME IInv, Known, NewKeysGoAway, Next, Finishes("rollback"),
             history'.past \subseteq {"rolled back", "skipped"},
             NEW k \in ManagedKeys, KeyOf(history'.origin, k) = Absent
      PROVE  KeyOf(file', k) = Absent
  <2>1. /\ cmd.command = "rollback" /\ cmd' = Idle
        /\ FinishUndoing \/ CopyForRollback \/ RecordRollback
        /\ history' = [history EXCEPT !.last = cmd.command]
    BY <1>1 DEF Finishes
  <2>2. history.past = history'.past /\ history'.origin = history.origin /\ NothingLost
    BY <1>1, <2>1 DEF IInv, StepsOfCommands, NothingLost
  <2>3. UNCHANGED file
    BY <2>1 DEF FinishUndoing, CopyForRollback, RecordRollback
  <2>4. NewKey(k)
    BY <1>1, <2>2 DEF NewKey
  <2>5. cmd.at \in {"undo", "copy rewritten", "copy deleted", "record"} /\ history.origin # None
    BY <1>1, <2>1 DEF FinishUndoing, CopyForRollback, RecordRollback, Known, Untouched, Preparing
  <2>6. AllGoesAway
    BY <1>1, <2>2, <2>5 DEF NewKeysGoAway
  <2>7. CASE FinishUndoing
    <3>1. cmd.at = "undo" /\ cmd.todo = 0 /\ ~cmd.changed
      <4>1. cmd.at = "undo" /\ cmd.todo = 0
        BY <2>7 DEF FinishUndoing
      <4>2. cmd.changed => cmd' # Idle
        BY <1>1, <2>7, IdleFields DEF FinishUndoing, IInv, StepsOfCommands
      <4> QED BY <2>1, <4>1, <4>2
    <3>2. cmd.doc = file /\ file # NoFile
      BY <1>1, <2>2, <3>1 DEF Known, DocumentsFit, Undisturbed, NothingLost
    <3>3. GoesAway(cmd.doc[k], 0, k)
      BY <2>4, <2>6, <3>1 DEF AllGoesAway, DocumentGoesAway
    <3>4. cmd.doc[k] = Absent
      BY <3>3 DEF GoesAway, UndoneFrom
    <3> QED BY <2>3, <3>2, <3>4 DEF KeyOf
  <2>8. CASE CopyForRollback
    <3>1. "meddled" \notin history.past
      BY <2>2 DEF NothingLost
    <3>2. file # NoFile /\ StepsOfCommands
      <4>1. CASE cmd.at \in {"copy rewritten", "copy deleted"}
        BY <1>1, <2>1, <3>1, <4>1 DEF Known, Undisturbed, RollsBack, Rollbacks, IInv
      <4> QED BY <2>8, <4>1 DEF CopyForRollback
    <3> QED BY <2>1, <2>8, <3>2, IdleFields DEF CopyForRollback, StepsOfCommands
  <2>9. CASE RecordRollback
    <3>1. cmd.at = "record" /\ AfterRollback
      BY <2>1, <2>9 DEF RecordRollback, AfterRollback, Rollbacks
    <3>2. cmd.doc[k] = Absent
      BY <2>4, <2>6, <3>1 DEF AllGoesAway, DocumentGoesAway
    <3>3. file = cmd.doc \/ file = NoFile
      BY <1>1, <2>2, <3>1 DEF Known, Undisturbed, NothingLost
    <3> QED BY <2>3, <3>2, <3>3 DEF KeyOf
  <2> QED BY <2>1, <2>7, <2>8, <2>9
<1>2. ASSUME IInv, Known, NewKeysGoAway, [Next]_vars
      PROVE  [Finishes("rollback") /\ history'.past \subseteq {"rolled back", "skipped"} =>
                \A k \in ManagedKeys :
                    KeyOf(history'.origin, k) = Absent => KeyOf(file', k) = Absent]_vars
  BY <1>1, <1>2
<1>3. Spec => []NewKeysGoAway
  <2>1. Init => NewKeysGoAway
    BY KnownInit
  <2>2. IInv /\ Known /\ NewKeysGoAway /\ [Next]_vars => NewKeysGoAway'
    BY NewKeysGoAwayKept
  <2> QED BY <2>1, <2>2, RecordsAreKnown, PTL DEF Spec
<1> QED BY <1>2, <1>3, RecordsAreKnown, PTL DEF Spec, NewBlocksGoAway

=============================================================================
