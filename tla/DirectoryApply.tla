---------------------------- MODULE DirectoryApply ----------------------------
(***************************************************************************)
(* apply-dir: all specs of a directory are loaded, targets for the same    *)
(* file are selected by priority, claims are compared with one another and *)
(* with the ledger, and then the specs are applied one by one, each in a   *)
(* run of its own.  The conditions of targets (if_command_exists) are      *)
(* evaluated again and again on the way, while commands come and go: an    *)
(* asset of the same run may install one.                                  *)
(*                                                                         *)
(* The targets are files; a claim is a key of a file.  The lock keeps      *)
(* other runs out while a spec is applied (WriterProtocol), not between.   *)
(***************************************************************************)
EXTENDS Integers, FiniteSets

CONSTANTS
    Count,        \* number of specs in the directory
    Files, Keys, Commands,
    SpecContents, \* the sequences of targets a spec may hold
    Nobody,       \* absence of a row
    Foreign,      \* the owner id of a spec elsewhere
    MaxChanges    \* bound on commands that come or go and claims that are made elsewhere

ASSUME CountAssumption == Count \in Nat \ {0}

ASSUME TargetsAssumption ==
    \A targets \in SpecContents : \A n \in DOMAIN targets :
        targets[n].file \in Files /\ targets[n].keys \subseteq Keys

Specs == 1 .. Count
Claims == Files \X Keys

VARIABLES
    specs,      \* the loaded specs
    take,       \* the answer to every claim conflict
    commands,   \* the commands that are installed
    owner,      \* owner_id of the row of each claim
    pc, at,     \* the step, and the spec it is about
    skipped,    \* file_skip_reasons
    claimed,    \* the targets whose claims the run of a spec has computed
    chosen,     \* the active files of a spec that are still to be handled
    done,       \* the targets this run of a spec has written
    open,       \* the targets with an attempt that was left unfinished
    failed,     \* had_error
    written, unclaimed, unrecorded, lastWriter, changes, changedSince, trouble  \* history

progress == <<pc, at>>
run == <<skipped, claimed, chosen, done>>
history == <<written, unclaimed, unrecorded, lastWriter, trouble>>
world == <<commands, owner, open, changes, changedSince>>
vars == <<specs, take, world, progress, run, failed, history>>

Ids == UNION {{<<s, n>> : n \in DOMAIN specs[s]} : s \in Specs}
Target(id) == specs[id[1]][id[2]]
ClaimsOf(id) == {Target(id).file} \X Target(id).keys

\* condition_matches, as far as it can change
Active(id) == Target(id).needs \subseteq commands

ActiveFor(file) == {id \in Ids : Target(id).file = file /\ Active(id)}

Best(ids) == {id \in ids : \A other \in ids : Target(id).priority <= Target(other).priority}

\* _directory_file_skip_reasons: a tie at the best priority skips nothing.
SkipReasons ==
    UNION {LET ids == ActiveFor(file)
           IN  IF Cardinality(Best(ids)) = 1 THEN ids \ Best(ids) ELSE {} : file \in Files}

\* Mutant: the skip reasons of the directory do not reach the selection within a spec.
ActiveFilesOfSpecOnly(s) ==
    {id \in Ids : /\ id[1] = s /\ Active(id)
                  /\ id \in Best({other \in ActiveFor(Target(id).file) : other[1] = s})}

\* _resolve_active_files, without the targets the directory skips; no spec is loaded with
\* two targets of one priority for a file.
ActiveFiles(s) ==
    {id \in Ids : /\ id[1] = s /\ Active(id) /\ id \notin skipped
                  /\ id \in Best({other \in ActiveFor(Target(id).file) : other[1] = s})}

\* detect_internal_claim_conflicts
Conflicting(ids) == \E i, j \in ids : i # j /\ ClaimsOf(i) \cap ClaimsOf(j) # {}

\* check_claim_conflicts_against
Contested(ids) == \E id \in ids : \E claim \in ClaimsOf(id) : owner[claim] \notin {Nobody, id}

Refused(ids) == Conflicting(ids) \/ (Contested(ids) /\ ~take)

Init ==
    /\ specs \in [Specs -> SpecContents]
    /\ take \in BOOLEAN
    /\ commands \in SUBSET Commands
    /\ owner \in [Claims -> {Nobody, Foreign}]
    /\ pc = "load" /\ at = 1
    /\ skipped = {} /\ claimed = {} /\ chosen = {} /\ done = {}
    /\ open = {}                 \* _prompt_recover_interrupted
    /\ failed = FALSE
    /\ written = {} /\ unclaimed = {} /\ unrecorded = {}
    /\ lastWriter = [claim \in Claims |-> Nobody]
    /\ changes = 0 /\ changedSince = FALSE /\ trouble = FALSE

-----------------------------------------------------------------------------
(* Everything is checked first *)

\* A spec that cannot be loaded does not keep the others from being compared.
LoadSpecs ==
    /\ pc = "load"
    /\ failed' \in BOOLEAN
    /\ trouble' = failed'
    /\ pc' = "skips"
    /\ UNCHANGED <<specs, take, world, at, run, written, unclaimed, unrecorded, lastWriter>>

FindSkipReasons ==
    /\ pc = "skips"
    /\ skipped' = SkipReasons
    /\ pc' = "detect"
    /\ UNCHANGED <<specs, take, world, at, claimed, chosen, done, failed, history>>

\* Mutant: only the claims of one spec at a time are compared.
DetectConflictsWithinSpecs ==
    /\ pc = "detect"
    /\ failed' = (failed \/ \E s \in Specs :
                     Conflicting({id \in Ids \ skipped : id[1] = s /\ Active(id)}))
    /\ pc' = IF failed' THEN "end" ELSE "preflight"
    /\ UNCHANGED <<specs, take, world, at, run, history>>

\* The claims of all active targets that are not skipped, also of those that lose
\* against another one of their own spec.
DetectConflicts ==
    /\ pc = "detect"
    /\ failed' = (failed \/ Conflicting({id \in Ids \ skipped : Active(id)}))
    /\ pc' = IF failed' THEN "end" ELSE "preflight"
    /\ UNCHANGED <<specs, take, world, at, run, history>>

\* The dry run of one spec; it may also fail for the sake of a file.
Preflight ==
    /\ pc = "preflight"
    /\ \E unreadable \in BOOLEAN :
          /\ failed' = (failed \/ Refused(ActiveFiles(at)) \/ unreadable)
          /\ trouble' = (trouble \/ unreadable)
    /\ IF at < Count THEN at' = at + 1 /\ pc' = pc
       ELSE at' = 1 /\ pc' = IF failed' THEN "end" ELSE "claim"
    /\ UNCHANGED <<specs, take, world, run, written, unclaimed, unrecorded, lastWriter>>

-----------------------------------------------------------------------------
(* Then one spec after the other is applied, whatever becomes of it *)

NextSpec == IF at < Count THEN at' = at + 1 /\ pc' = "claim" ELSE at' = at /\ pc' = "end"

\* Orchestrator.run up to the reservation: claims that conflict, attempts that an aborted
\* run has left open, or another run that has the lock.
ClaimsRefused ==
    /\ pc = "claim"
    /\ \E locked \in BOOLEAN :
          /\ Refused(ActiveFiles(at)) \/ open # {} \/ locked
          /\ trouble' = (trouble \/ locked)
    /\ failed' = TRUE
    /\ NextSpec
    /\ UNCHANGED <<specs, take, world, run, written, unclaimed, unrecorded, lastWriter>>

ClaimsAccepted ==
    /\ pc = "claim"
    /\ ~Refused(ActiveFiles(at)) /\ open = {}
    /\ claimed' = ActiveFiles(at)
    /\ changedSince' = FALSE
    /\ pc' = "select"
    /\ UNCHANGED <<specs, take, commands, owner, open, changes, at, skipped, chosen, done, failed, history>>

\* Mutant: all active targets of the spec are handled, whatever their priority.
SelectActive ==
    /\ pc = "select"
    /\ chosen' = {id \in Ids : id[1] = at /\ Active(id)}
    /\ pc' = "handle"
    /\ UNCHANGED <<specs, take, world, at, skipped, claimed, done, failed, history>>

\* _run_all evaluates the conditions again.
SelectFiles ==
    /\ pc = "select"
    /\ chosen' = ActiveFiles(at)
    /\ pc' = "handle"
    /\ UNCHANGED <<specs, take, world, at, skipped, claimed, done, failed, history>>

Comes(id) ==
    /\ pc = "handle"
    /\ id \in chosen
    /\ \A other \in chosen : id[2] <= other[2]

Writes(id) ==
    /\ Active(id)
    /\ written' = written \cup {id}
    /\ unclaimed' = unclaimed \cup ({id} \ claimed)
    /\ lastWriter' = [claim \in Claims |->
          IF claim \in ClaimsOf(id) THEN id ELSE lastWriter[claim]]

\* _handle_file evaluates them once more; it writes, skips or fails, and it may also fail
\* when the file is written and cannot be read back.
HandleFile(id) ==
    /\ Comes(id)
    /\ chosen' = chosen \ {id}
    /\ \/ Writes(id) /\ done' = done \cup {id} /\ UNCHANGED <<failed, unrecorded, trouble>>
       \/ ~Active(id) /\ UNCHANGED <<done, failed, history>>
       \/ /\ Active(id)
          /\ failed' = TRUE /\ trouble' = TRUE
          /\ UNCHANGED <<done, written, unclaimed, unrecorded, lastWriter>>
       \/ /\ Writes(id)
          /\ failed' = TRUE /\ trouble' = TRUE
          /\ unrecorded' = unrecorded \cup {id}
          /\ UNCHANGED done
    /\ UNCHANGED <<specs, take, world, progress, skipped, claimed>>

\* The run of a spec ends with an error: no claim is promoted, and the attempts of all
\* its targets stay open.
Aborts ==
    /\ open' = open \cup claimed
    /\ claimed' = {} /\ chosen' = {} /\ done' = {}
    /\ failed' = TRUE /\ trouble' = TRUE
    /\ NextSpec
    /\ UNCHANGED <<specs, take, commands, owner, changes, changedSince, skipped>>

\* _PostWriteStateError: the file is written, but the ledger refuses the records.
RecordingFails(id) ==
    /\ Comes(id)
    /\ Writes(id)
    /\ unrecorded' = unrecorded \cup done \cup {id}
    /\ Aborts

\* LockLostError between the reservation and the final transaction, or a conflict that
\* this transaction finds (_DeferredClaimConflict).
RunIsLost ==
    /\ pc \in {"select", "handle"}
    /\ unrecorded' = unrecorded \cup done
    /\ Aborts
    /\ UNCHANGED <<written, unclaimed, lastWriter>>

\* Mutant: a spec with a failed target gets no claims.
FinishSpecUnlessFailed ==
    /\ pc = "handle"
    /\ chosen = {}
    /\ LET won == IF failed THEN {} ELSE claimed \cap done
       IN  owner' = [claim \in Claims |->
               IF \E id \in won : claim \in ClaimsOf(id)
               THEN CHOOSE id \in won : claim \in ClaimsOf(id) ELSE owner[claim]]
    /\ claimed' = {} /\ done' = {}
    /\ NextSpec
    /\ UNCHANGED <<specs, take, commands, open, changes, changedSince, skipped, chosen, failed, history>>

\* persist_claims of the targets that succeeded and were claimed before.
FinishSpec ==
    /\ pc = "handle"
    /\ chosen = {}
    /\ LET won == claimed \cap done
       IN  owner' = [claim \in Claims |->
               IF \E id \in won : claim \in ClaimsOf(id)
               THEN CHOOSE id \in won : claim \in ClaimsOf(id) ELSE owner[claim]]
    /\ claimed' = {} /\ done' = {}
    /\ NextSpec
    /\ UNCHANGED <<specs, take, commands, open, changes, changedSince, skipped, chosen, failed, history>>

-----------------------------------------------------------------------------
(* Others *)

\* A command is installed or removed.
CommandChanges(command) ==
    /\ pc # "end"
    /\ changes < MaxChanges
    /\ changes' = changes + 1
    /\ commands' = IF command \in commands THEN commands \ {command} ELSE commands \cup {command}
    /\ changedSince' = TRUE
    /\ UNCHANGED <<specs, take, owner, open, progress, run, failed, history>>

\* Another apply makes a free claim; not while this one has the lock, or attempts are open.
ClaimMadeElsewhere(claim) ==
    /\ pc \in {"load", "skips", "detect", "preflight", "claim"}
    /\ changes < MaxChanges
    /\ owner[claim] = Nobody /\ open = {}
    /\ owner' = [owner EXCEPT ![claim] = Foreign]
    /\ changes' = changes + 1
    /\ UNCHANGED <<specs, take, commands, open, changedSince, progress, run, failed, history>>

\* The operator recovers the open attempts before the next spec has its turn.
RecoveredElsewhere ==
    /\ pc = "claim" /\ open # {}
    /\ open' = {}
    /\ UNCHANGED <<specs, take, commands, owner, changes, changedSince, progress, run, failed, history>>

Ended == pc = "end" /\ UNCHANGED vars

Next ==
    \/ LoadSpecs \/ FindSkipReasons \/ DetectConflicts \/ Preflight
    \/ ClaimsRefused \/ ClaimsAccepted \/ SelectFiles \/ FinishSpec
    \/ \E id \in Ids : HandleFile(id) \/ RecordingFails(id)
    \/ RunIsLost
    \/ \E command \in Commands : CommandChanges(command)
    \/ \E claim \in Claims : ClaimMadeElsewhere(claim)
    \/ RecoveredElsewhere \/ Ended

Spec == Init /\ [][Next]_vars

-----------------------------------------------------------------------------
(* What apply-dir promises *)

\* As long as nothing else changes, a file that has one active target of the best
\* priority in the whole directory is written by this one only.
WinnersWrite ==
    changes = 0 =>
        \A id \in written : LET best == Best(ActiveFor(Target(id).file))
                            IN  Cardinality(best) = 1 => id \in best

\* What is checked first is enough: as long as nothing else changes and no target fails
\* for its own sake, a claim conflict keeps all specs from being applied, and nothing is
\* left half done.
AllOrNothing ==
    changes = 0 /\ ~trouble /\ failed => written = {}

\* A target is written only with a claim that was compared with the ledger, unless a
\* command came or went since then.
OnlyClaimedWritten ==
    [][\A id \in written' \ written : id \in claimed \/ changedSince]_vars

\* Between two specs the last writer of a key owns it, unless it was written without a
\* claim: the runs of one apply-dir never leave a key silently to a target that did not
\* write it last.  A run that writes and then loses the lock or cannot record or read
\* back what it wrote keeps its writes and promotes no claim for them; apply-dir then
\* reports a failure.
LastWriterOwns ==
    pc \in {"claim", "end"} =>
        \A claim \in Claims :
            \/ lastWriter[claim] \in {Nobody, owner[claim]} \cup unclaimed
            \/ lastWriter[claim] \in unrecorded /\ failed
=============================================================================
