------------------------ MODULE DirectoryApplyProofs ------------------------
(***************************************************************************)
(* Theorems about DirectoryApply, for every directory of specs, any        *)
(* priorities, conditions, keys and answers, and any changes around it.    *)
(*                                                                         *)
(* Three inductive invariants: Shape; Ledger, which says what the claims,  *)
(* the writes and the owners of a running spec have to do with each other  *)
(* whatever happens around it; and Calm, which says what the checks of the *)
(* first phase are worth as long as nothing changes.                       *)
(***************************************************************************)
EXTENDS DirectoryApply, TLAPS

Shape ==
    /\ specs \in [Specs -> SpecContents]
    /\ owner = [claim \in Claims |-> owner[claim]]
    /\ at \in Specs
    /\ pc \in {"load", "skips", "detect"} => at = 1
    /\ pc \in {"load", "skips", "detect", "preflight", "claim", "select", "handle", "end"}
    /\ changes \in Nat
    /\ changedSince => changes # 0

LEMMA NextSpecAt ==
    ASSUME at \in Specs, NextSpec
    PROVE  at' \in Specs /\ pc' \in {"claim", "end"} /\ (pc' = "claim" => at' = at + 1)
BY CountAssumption DEF NextSpec, Specs

\* The variables keep their shape (every action of apply-dir).
THEOREM ShapeInvariant == Spec => []Shape
<1>1. Init => Shape
  BY CountAssumption DEF Init, Shape, Specs
<1>2. Shape /\ [Next]_vars => Shape'
  <2> SUFFICES ASSUME Shape, Next PROVE Shape'
    BY DEF Shape, vars, world, progress, run, history
  <2> USE DEF Shape
  <2>1. CASE LoadSpecs
    BY <2>1 DEF LoadSpecs, world
  <2>2. CASE FindSkipReasons
    BY <2>2 DEF FindSkipReasons, world
  <2>3. CASE DetectConflicts
    BY <2>3 DEF DetectConflicts, world
  <2>4. CASE Preflight
    <3>1. at' \in Specs
      BY <2>4, CountAssumption DEF Preflight, Specs
    <3> QED BY <3>1, <2>4 DEF Preflight, world
  <2>5. CASE ClaimsRefused
    <3>1. UNCHANGED <<specs, owner, changes, changedSince>>
      BY <2>5 DEF ClaimsRefused, world
    <3> QED BY <3>1, <2>5, NextSpecAt DEF ClaimsRefused
  <2>6. CASE ClaimsAccepted
    BY <2>6 DEF ClaimsAccepted
  <2>7. CASE SelectFiles
    BY <2>7 DEF SelectFiles, world
  <2>8. CASE FinishSpec
    <3>1. UNCHANGED <<specs, changes, changedSince>>
      BY <2>8 DEF FinishSpec
    <3>2. owner' = [claim \in Claims |-> owner'[claim]]
      BY <2>8, Zenon DEF FinishSpec
    <3> QED BY <3>1, <3>2, <2>8, NextSpecAt DEF FinishSpec
  <2>9. ASSUME NEW id \in Ids, HandleFile(id) PROVE Shape'
    BY <2>9 DEF HandleFile, world, progress
  <2>10. ASSUME NEW command \in Commands, CommandChanges(command) PROVE Shape'
    BY <2>10 DEF CommandChanges, progress
  <2>11. ASSUME NEW claim \in Claims, ClaimMadeElsewhere(claim) PROVE Shape'
    BY <2>11 DEF ClaimMadeElsewhere, progress
  <2>12. CASE Ended
    BY <2>12 DEF Ended, vars, world, progress, run, history
  <2>13. CASE RunIsLost \/ \E id \in Ids : RecordingFails(id)
    <3>1. Aborts
      BY <2>13 DEF RunIsLost, RecordingFails
    <3> QED BY <3>1, NextSpecAt DEF Aborts
  <2>14. CASE RecoveredElsewhere
    BY <2>14 DEF RecoveredElsewhere, progress
  <2> QED
    BY <2>1, <2>2, <2>3, <2>4, <2>5, <2>6, <2>7, <2>8, <2>9, <2>10, <2>11, <2>12, <2>13, <2>14
       DEF Next
<1> QED BY <1>1, <1>2, PTL DEF Spec

\* Attempts are left open by a run that was aborted only.
OpenAfterTrouble == open # {} => trouble /\ pc # "load"

LEMMA TroubleInvariant == Spec => []OpenAfterTrouble
<1>1. Init => OpenAfterTrouble
  BY DEF Init, OpenAfterTrouble
<1>2. OpenAfterTrouble /\ [Next]_vars => OpenAfterTrouble'
  <2> SUFFICES ASSUME OpenAfterTrouble, [Next]_vars PROVE OpenAfterTrouble'
    OBVIOUS
  <2>1. CASE RunIsLost \/ \E id \in Ids : RecordingFails(id)
    BY <2>1 DEF RunIsLost, RecordingFails, Aborts, NextSpec, OpenAfterTrouble
  <2>2. CASE LoadSpecs \/ FindSkipReasons \/ DetectConflicts \/ Preflight \/ ClaimsRefused
                \/ ClaimsAccepted \/ SelectFiles \/ FinishSpec
    <3>1. open' = open /\ pc' # "load"
      BY <2>2 DEF LoadSpecs, FindSkipReasons, DetectConflicts, Preflight, ClaimsRefused,
                  ClaimsAccepted, SelectFiles, FinishSpec, NextSpec, world
    <3>2. trouble /\ pc # "load" => trouble'
      <4>1. CASE LoadSpecs
        BY <4>1 DEF LoadSpecs
      <4>2. CASE Preflight \/ ClaimsRefused
        BY <4>2, Zenon DEF Preflight, ClaimsRefused
      <4>3. CASE FindSkipReasons \/ DetectConflicts \/ ClaimsAccepted \/ SelectFiles \/ FinishSpec
        BY <4>3 DEF FindSkipReasons, DetectConflicts, ClaimsAccepted, SelectFiles, FinishSpec,
                    history
      <4> QED BY <2>2, <4>1, <4>2, <4>3
    <3> QED BY <3>1, <3>2 DEF OpenAfterTrouble
  <2>3. ASSUME NEW id \in Ids, HandleFile(id) PROVE OpenAfterTrouble'
    <3>1. open' = open /\ pc' = pc /\ (trouble => trouble')
      BY <2>3 DEF HandleFile, world, progress, history
    <3> QED BY <3>1 DEF OpenAfterTrouble
  <2>4. ASSUME NEW command \in Commands, CommandChanges(command) PROVE OpenAfterTrouble'
    BY <2>4 DEF CommandChanges, OpenAfterTrouble, progress, history
  <2>5. ASSUME NEW claim \in Claims, ClaimMadeElsewhere(claim) PROVE OpenAfterTrouble'
    BY <2>5 DEF ClaimMadeElsewhere, OpenAfterTrouble, progress, history
  <2>6. CASE RecoveredElsewhere \/ UNCHANGED vars
    BY <2>6 DEF RecoveredElsewhere, vars, world, progress, history, OpenAfterTrouble
  <2> QED BY <2>1, <2>2, <2>3, <2>4, <2>5, <2>6 DEF Next, Ended
<1> QED BY <1>1, <1>2, PTL DEF Spec

\* The targets whose claims DetectConflicts compares.
Compared == {id \in Ids \ skipped : Active(id)}

\* What is computed from specs and commands stays while they stay.
LEMMA SameSelection ==
    ASSUME UNCHANGED <<specs, commands>>
    PROVE  /\ Ids' = Ids
           /\ \A id : Target(id)' = Target(id) /\ (Active(id)' <=> Active(id))
                      /\ ClaimsOf(id)' = ClaimsOf(id)
           /\ SkipReasons' = SkipReasons
           /\ skipped' = skipped =>
                Compared' = Compared /\ \A s : ActiveFiles(s)' = ActiveFiles(s)
BY DEF Ids, Target, Active, ClaimsOf, SkipReasons, ActiveFor, Best, Compared, ActiveFiles

-----------------------------------------------------------------------------
(* Claims, writes and owners of a running spec *)

\* What the run of a spec has computed and done, in its steps.
RunInv ==
    /\ pc \notin {"select", "handle"} => claimed = {} /\ done = {}
    /\ pc = "select" => done = {} /\ (claimed = ActiveFiles(at) \/ changedSince)
    /\ pc = "handle" => chosen \subseteq claimed \/ changedSince
    /\ ~Conflicting(claimed)
    /\ done \subseteq claimed \cup unclaimed
    /\ unrecorded # {} => failed /\ pc # "load"

\* The last writer of a key is one of this run's targets, or the owner, or had no claim,
\* or its write was not recorded.
WriterInv ==
    /\ \A id \in done : \A claim \in ClaimsOf(id) \cap Claims :
          lastWriter[claim] \in done \cup unrecorded
    /\ \A claim \in Claims :
        /\ lastWriter[claim] = Nobody \/ claim \in ClaimsOf(lastWriter[claim])
        /\ lastWriter[claim] \in {Nobody, owner[claim]} \cup unclaimed \cup done \cup unrecorded

Ledger == RunInv /\ WriterInv

LEMMA NothingConflicts == ~Conflicting({})
BY DEF Conflicting

\* Keys of one spec that no two of its claimed targets share go to the target that
\* wrote them last.
LEMMA WinnersOwn ==
    ASSUME Ledger, NEW claim \in Claims,
           NEW id \in claimed \cap done, claim \in ClaimsOf(id),
           lastWriter[claim] \notin unclaimed \cup unrecorded, lastWriter[claim] # Nobody
    PROVE  lastWriter[claim] = CHOOSE other \in claimed \cap done : claim \in ClaimsOf(other)
<1>1. lastWriter[claim] \in claimed \cap done /\ claim \in ClaimsOf(lastWriter[claim])
  BY DEF Ledger, RunInv, WriterInv
<1>2. ASSUME NEW other \in claimed \cap done, claim \in ClaimsOf(other)
      PROVE  other = lastWriter[claim]
  BY <1>1, <1>2 DEF Ledger, RunInv, Conflicting
<1> QED BY <1>1, <1>2

\* The run of a spec handles what it has claimed unless a command came or went, and
\* between two runs the owner of a key is its last writer (ClaimsAccepted ... FinishSpec).
THEOREM LedgerInvariant == Spec => []Ledger
<1>1. Init => Ledger
  BY NothingConflicts DEF Init, Ledger, RunInv, WriterInv
<1>2. Shape /\ Shape' /\ Ledger /\ [Next]_vars => Ledger'
  <2> SUFFICES ASSUME Shape, Shape', Ledger, [Next]_vars PROVE Ledger'
    OBVIOUS
  <2> USE DEF Ledger
  \* What the steps that neither write nor record have in common.
  <2>1. ASSUME UNCHANGED <<specs, owner, done, claimed, unclaimed, lastWriter, unrecorded>>
        PROVE  WriterInv' /\ ~Conflicting(claimed)' /\ (done \subseteq claimed \cup unclaimed)'
    <3>1. ~Conflicting(claimed)'
      BY <2>1 DEF RunInv, Conflicting, ClaimsOf, Target
    <3>2. WriterInv'
      BY <2>1 DEF WriterInv, ClaimsOf, Target
    <3> QED BY <3>1, <3>2, <2>1 DEF RunInv
  <2>2. CASE LoadSpecs \/ FindSkipReasons \/ DetectConflicts \/ Preflight \/ ClaimsRefused
    <3>1. UNCHANGED <<specs, owner, done, claimed, unclaimed, lastWriter, unrecorded>>
      BY <2>2 DEF LoadSpecs, FindSkipReasons, DetectConflicts, Preflight, ClaimsRefused,
                  world, run, history
    <3>2. /\ pc \notin {"select", "handle"} /\ pc' \notin {"select", "handle"}
          /\ pc' # "load"
      BY <2>2 DEF LoadSpecs, FindSkipReasons, DetectConflicts, Preflight, ClaimsRefused, NextSpec
    <3>3. failed /\ pc # "load" => failed'
      <4>1. CASE LoadSpecs \/ FindSkipReasons \/ ClaimsRefused
        BY <4>1 DEF LoadSpecs, FindSkipReasons, ClaimsRefused
      <4>2. CASE DetectConflicts \/ Preflight
        BY <4>2, Zenon DEF DetectConflicts, Preflight
      <4> QED BY <2>2, <4>1, <4>2
    <3> QED BY <3>1, <3>2, <3>3, <2>1 DEF RunInv
  <2>3. CASE ClaimsAccepted
    <3>1. UNCHANGED <<specs, owner, done, unclaimed, lastWriter, unrecorded, failed, commands,
                      skipped, at>>
      BY <2>3 DEF ClaimsAccepted, history
    <3>2. done = {} /\ pc' = "select"
      BY <2>3 DEF ClaimsAccepted, RunInv
    <3>3. claimed' = ActiveFiles(at) /\ ActiveFiles(at)' = ActiveFiles(at)
      BY <3>1, <2>3, SameSelection DEF ClaimsAccepted
    <3>4. ~Conflicting(claimed)'
      <4>1. ~Conflicting(ActiveFiles(at))
        BY <2>3 DEF ClaimsAccepted, Refused
      <4> QED BY <4>1, <3>1, <3>3 DEF Conflicting, ClaimsOf, Target
    <3>5. WriterInv'
      BY <3>1 DEF WriterInv, ClaimsOf, Target
    <3> QED BY <3>1, <3>2, <3>3, <3>4, <3>5 DEF RunInv
  <2>4. CASE SelectFiles
    <3>1. /\ UNCHANGED <<specs, owner, done, claimed, unclaimed, lastWriter, unrecorded, failed,
                         changedSince>>
          /\ pc = "select" /\ pc' = "handle" /\ chosen' = ActiveFiles(at)
      BY <2>4 DEF SelectFiles, world, history
    <3> QED BY <3>1, <2>1 DEF RunInv
  <2>5. ASSUME NEW id \in Ids, HandleFile(id) PROVE Ledger'
    <3>1. /\ UNCHANGED <<specs, owner, claimed, changedSince, at>>
          /\ pc = "handle" /\ pc' = "handle"
          /\ id \in chosen /\ chosen' = chosen \ {id}
      BY <2>5 DEF HandleFile, Comes, world, progress
    <3>0. unrecorded' # {} => failed'
      BY <2>5 DEF HandleFile, Writes, history, RunInv
    <3>2. CASE UNCHANGED <<done, unclaimed, lastWriter, unrecorded>>
      BY <3>0, <3>1, <3>2, <2>1 DEF RunInv
    <3>3. CASE /\ \/ done' = done \cup {id} /\ unrecorded' = unrecorded
                  \/ done' = done /\ unrecorded' = unrecorded \cup {id}
               /\ unclaimed' = unclaimed \cup ({id} \ claimed)
               /\ lastWriter' = [claim \in Claims |->
                                    IF claim \in ClaimsOf(id) THEN id ELSE lastWriter[claim]]
      <4>1. \A other : ClaimsOf(other)' = ClaimsOf(other)
        BY <3>1 DEF ClaimsOf, Target
      <4>2. ~Conflicting(claimed)'
        BY <3>1, <4>1 DEF RunInv, Conflicting
      <4>3. RunInv'
        BY <3>0, <3>1, <3>3, <4>2 DEF RunInv
      <4>4. ASSUME NEW other \in done', NEW claim \in ClaimsOf(other) \cap Claims
            PROVE  lastWriter'[claim] \in done' \cup unrecorded'
        BY <3>3 DEF WriterInv
      <4>5. ASSUME NEW claim \in Claims
            PROVE  /\ lastWriter'[claim] = Nobody \/ claim \in ClaimsOf(lastWriter'[claim])
                   /\ lastWriter'[claim] \in
                         {Nobody, owner'[claim]} \cup unclaimed' \cup done' \cup unrecorded'
        BY <3>1, <3>3 DEF WriterInv
      <4>6. WriterInv'
        BY <4>1, <4>4, <4>5 DEF WriterInv
      <4> QED BY <4>3, <4>6
    <3> QED BY <2>5, <3>2, <3>3 DEF HandleFile, Writes, history
  <2>6. CASE FinishSpec
    <3>1. /\ UNCHANGED <<specs, unclaimed, lastWriter, unrecorded, failed>>
          /\ claimed' = {} /\ done' = {}
          /\ pc' \notin {"select", "handle", "load"}
          /\ owner' = [claim \in Claims |->
                IF \E id \in claimed \cap done : claim \in ClaimsOf(id)
                THEN CHOOSE id \in claimed \cap done : claim \in ClaimsOf(id) ELSE owner[claim]]
      BY <2>6 DEF FinishSpec, NextSpec, history
    <3>2. ASSUME NEW claim \in Claims
          PROVE  lastWriter[claim] \in {Nobody, owner'[claim]} \cup unclaimed \cup unrecorded
      <4>1. CASE lastWriter[claim] \in {Nobody} \cup unclaimed \cup unrecorded
        BY <4>1
      <4>2. CASE /\ lastWriter[claim] \notin {Nobody} \cup unclaimed \cup unrecorded
                 /\ \E id \in claimed \cap done : claim \in ClaimsOf(id)
        <5>1. owner'[claim] = CHOOSE id \in claimed \cap done : claim \in ClaimsOf(id)
          BY <3>1, <4>2
        <5> QED BY <5>1, <4>2, WinnersOwn
      <4>3. CASE /\ lastWriter[claim] \notin {Nobody} \cup unclaimed \cup unrecorded
                 /\ ~\E id \in claimed \cap done : claim \in ClaimsOf(id)
        <5>1. owner'[claim] = owner[claim]
          BY <3>1, <4>3
        <5>2. lastWriter[claim] \notin done
          BY <4>3 DEF RunInv, WriterInv
        <5> QED BY <5>1, <5>2, <4>3 DEF WriterInv
      <4> QED BY <4>1, <4>2, <4>3
    <3>3. WriterInv'
      BY <3>1, <3>2 DEF WriterInv, ClaimsOf, Target
    <3>4. RunInv'
      BY <3>1 DEF RunInv, Conflicting
    <3> QED BY <3>3, <3>4
  <2>7. ASSUME NEW command \in Commands, CommandChanges(command) PROVE Ledger'
    <3>1. /\ UNCHANGED <<specs, owner, done, claimed, unclaimed, lastWriter, unrecorded, failed,
                         chosen, pc>>
          /\ changedSince'
      BY <2>7 DEF CommandChanges, run, history, progress
    <3> QED BY <3>1, <2>1 DEF RunInv
  <2>8. ASSUME NEW claim \in Claims, ClaimMadeElsewhere(claim) PROVE Ledger'
    <3>1. /\ UNCHANGED <<specs, done, claimed, unclaimed, lastWriter, unrecorded, failed, pc>>
          /\ pc \notin {"select", "handle"}
          /\ owner[claim] = Nobody /\ owner' = [owner EXCEPT ![claim] = Foreign]
      BY <2>8 DEF ClaimMadeElsewhere, run, history, progress
    <3>2. \A other \in Claims :
              lastWriter[other] \in {Nobody, owner'[other]} \cup unclaimed \cup done \cup unrecorded
      BY <3>1 DEF WriterInv, Shape
    <3>3. WriterInv'
      BY <3>1, <3>2 DEF WriterInv, ClaimsOf, Target
    <3>4. RunInv'
      BY <3>1 DEF RunInv, Conflicting, ClaimsOf, Target
    <3> QED BY <3>3, <3>4
  <2>9. CASE UNCHANGED vars
    <3>1. UNCHANGED <<specs, commands, owner, done, claimed, unclaimed, lastWriter, unrecorded,
                      failed, chosen, skipped, changedSince, pc, at>>
      BY <2>9 DEF vars, world, run, history, progress
    <3>2. ActiveFiles(at)' = ActiveFiles(at)
      BY <3>1, SameSelection
    <3> QED BY <3>1, <3>2, <2>1 DEF RunInv
  \* Nothing is promoted, and what the run has done counts as not recorded.
  <2>10. CASE RunIsLost \/ \E id \in Ids : RecordingFails(id)
    <3>1. /\ UNCHANGED <<specs, owner>> /\ claimed' = {} /\ done' = {} /\ failed'
          /\ pc' \notin {"select", "handle", "load"}
      BY <2>10 DEF RunIsLost, RecordingFails, Aborts, NextSpec
    <3>2. \A other : ClaimsOf(other)' = ClaimsOf(other)
      BY <3>1 DEF ClaimsOf, Target
    <3>3. CASE UNCHANGED <<unclaimed, lastWriter>> /\ unrecorded' = unrecorded \cup done
      BY <3>1, <3>2, <3>3, NothingConflicts DEF WriterInv, RunInv, Conflicting
    <3>4. CASE \E id \in Ids :
                  /\ unrecorded' = unrecorded \cup done \cup {id}
                  /\ unclaimed' = unclaimed \cup ({id} \ claimed)
                  /\ lastWriter' = [claim \in Claims |->
                                      IF claim \in ClaimsOf(id) THEN id ELSE lastWriter[claim]]
      BY <3>1, <3>2, <3>4, NothingConflicts DEF WriterInv, RunInv, Conflicting
    <3> QED BY <2>10, <3>3, <3>4 DEF RunIsLost, RecordingFails, Writes
  <2>11. CASE RecoveredElsewhere
    <3>1. /\ UNCHANGED <<specs, owner, done, claimed, unclaimed, lastWriter, unrecorded, failed, pc>>
          /\ pc = "claim"
      BY <2>11 DEF RecoveredElsewhere, run, history, progress
    <3> QED BY <3>1, <2>1 DEF RunInv
  <2> QED BY <2>2, <2>3, <2>4, <2>5, <2>6, <2>7, <2>8, <2>9, <2>10, <2>11 DEF Next, Ended
<1> QED BY <1>1, <1>2, ShapeInvariant, PTL DEF Spec

\* Between two runs, the last writer of a key owns it, unless it had no claim or its run
\* could not record what it wrote, which apply-dir reports as a failure.
THEOREM LastWritersOwn == Spec => []LastWriterOwns
<1>1. Ledger => LastWriterOwns
  BY DEF Ledger, RunInv, WriterInv, LastWriterOwns
<1> QED BY <1>1, LedgerInvariant, PTL

\* Nothing is written without a claim, unless a command came or went since the claims
\* of the spec were computed.
THEOREM WritesAreClaimed == Spec => OnlyClaimedWritten
<1>1. Ledger /\ Next =>
        (\A id \in written' \ written : id \in claimed \/ changedSince)
  <2> SUFFICES ASSUME Ledger, Next, NEW id \in written' \ written
               PROVE  id \in claimed \/ changedSince
    OBVIOUS
  <2>1. \E other \in Ids : Comes(other) /\ id = other
    BY DEF Next, LoadSpecs, FindSkipReasons, DetectConflicts, Preflight, ClaimsRefused,
           ClaimsAccepted, SelectFiles, FinishSpec, HandleFile, RecordingFails, Writes,
           RunIsLost, CommandChanges, ClaimMadeElsewhere, RecoveredElsewhere, Ended, vars, history
  <2> QED BY <2>1 DEF Comes, Ledger, RunInv
<1>2. Ledger /\ [Next]_vars =>
        [\A id \in written' \ written : id \in claimed \/ changedSince]_vars
  BY <1>1
<1> QED BY <1>2, LedgerInvariant, PTL DEF Spec, OnlyClaimedWritten

-----------------------------------------------------------------------------
(* What the checks of the first phase are worth while nothing changes *)

\* What is selected and written is what the skip reasons of the directory leave.
SelectionInv ==
    /\ pc \notin {"load", "skips"} => skipped = SkipReasons
    /\ pc \in {"load", "skips", "detect", "preflight"} => written = {}
    /\ pc \in {"select", "handle"} => claimed = ActiveFiles(at)
    /\ pc = "handle" => chosen \subseteq ActiveFiles(at)
    /\ \A id \in written : id \in Ids /\ Active(id) /\ id \notin SkipReasons

\* No spec whose turn is still to come is refused.
ClearedInv ==
    /\ pc \in {"preflight", "claim", "select", "handle"} => ~Conflicting(Compared)
    /\ pc = "preflight" /\ ~failed => \A s \in Specs : s < at => ~Refused(ActiveFiles(s))
    /\ pc = "claim" => \A s \in Specs : s >= at => ~Refused(ActiveFiles(s))
    /\ pc \in {"select", "handle"} => \A s \in Specs : s > at => ~Refused(ActiveFiles(s))
    /\ pc \notin {"preflight", "end"} => ~failed
    /\ pc = "end" /\ failed => written = {}

Calm == changes = 0 => SelectionInv /\ (~trouble => ClearedInv)

LEMMA ActiveFilesCompared == \A s : ActiveFiles(s) \subseteq {id \in Compared : id[1] = s}
BY DEF ActiveFiles, Compared

LEMMA TargetsOfFiles ==
    ASSUME Shape, NEW id \in Ids
    PROVE  Target(id).file \in Files /\ ClaimsOf(id) \subseteq Claims
<1>1. PICK s \in Specs : \E n \in DOMAIN specs[s] : id = <<s, n>>
  BY DEF Ids
<1>2. Target(id).file \in Files /\ Target(id).keys \subseteq Keys
  BY <1>1, TargetsAssumption DEF Shape, Target
<1> QED BY <1>2 DEF ClaimsOf, Claims

LEMMA SameRefusals ==
    ASSUME UNCHANGED <<specs, commands, skipped, owner, take>>
    PROVE  \A s : Refused(ActiveFiles(s))' <=> Refused(ActiveFiles(s))
<1>1. \A s : ActiveFiles(s)' = ActiveFiles(s)
  BY SameSelection
<1>2. \A id : ClaimsOf(id)' = ClaimsOf(id)
  BY SameSelection
<1> QED BY <1>1, <1>2 DEF Refused, Conflicting, Contested

\* The run of one spec leaves the claims of the specs to come as free as they were:
\* whatever it promotes was compared with theirs.
LEMMA FinishLeavesOthersCleared ==
    ASSUME Shape, Ledger, FinishSpec, pc = "handle", claimed \subseteq ActiveFiles(at),
           ~Conflicting(Compared),
           NEW s \in Specs, s > at, ~Refused(ActiveFiles(s))
    PROVE  ~Refused(ActiveFiles(s))'
<1>1. UNCHANGED <<specs, commands, skipped, take>>
  BY DEF FinishSpec
<1>2. /\ ActiveFiles(s)' = ActiveFiles(s)
      /\ \A id : ClaimsOf(id)' = ClaimsOf(id)
  BY <1>1, SameSelection
<1>3. ~Conflicting(ActiveFiles(s))'
  BY <1>2 DEF Refused, Conflicting
<1>4. ASSUME ~take, NEW id \in ActiveFiles(s), NEW claim \in ClaimsOf(id)
      PROVE  owner'[claim] \in {Nobody, id}
  <2>1. id \in Compared /\ id[1] = s /\ claim \in Claims
    <3>1. id \in Compared /\ id[1] = s
      BY <1>4, ActiveFilesCompared
    <3> QED BY <3>1, <1>4, TargetsOfFiles DEF Compared
  <2>2. owner[claim] \in {Nobody, id}
    BY <1>4 DEF Refused, Contested
  <2>3. ASSUME NEW other \in claimed \cap done, claim \in ClaimsOf(other) PROVE FALSE
    <3>1. other \in Compared /\ other[1] = at
      BY <2>3, ActiveFilesCompared
    <3>2. other # id
      BY <2>1, <3>1 DEF Shape, Specs
    <3> QED BY <2>1, <2>3, <3>1, <3>2, <1>4 DEF Conflicting
  <2>4. owner'[claim] = owner[claim]
    BY <2>1, <2>3 DEF FinishSpec
  <2> QED BY <2>2, <2>4
<1>5. take => ~Refused(ActiveFiles(s))'
  BY <1>1, <1>3 DEF Refused
<1>6. ~take => ~Contested(ActiveFiles(s))'
  BY <1>2, <1>4 DEF Contested
<1> QED BY <1>3, <1>5, <1>6 DEF Refused

\* As long as no command and no foreign claim changes, the first phase decides: what it
\* has cleared is not refused later, and what it has selected is what is written.
THEOREM CalmInvariant == Spec => []Calm
<1>1. Init => Calm
  BY DEF Init, Calm, SelectionInv, ClearedInv
<1>2. Shape /\ Shape' /\ Ledger /\ Ledger' /\ OpenAfterTrouble /\ Calm /\ [Next]_vars => Calm'
  <2> SUFFICES ASSUME Shape, Shape', Ledger, Ledger', OpenAfterTrouble, Calm, [Next]_vars,
                      changes' = 0
               PROVE  SelectionInv' /\ (~trouble' => ClearedInv')
    BY DEF Calm
  <2>1. CASE LoadSpecs
    <3>1. changes = 0 /\ pc = "load" /\ pc' = "skips" /\ trouble' = failed'
          /\ UNCHANGED <<written, specs, commands>>
      BY <2>1 DEF LoadSpecs, world
    <3> QED BY <3>1 DEF Calm, SelectionInv, ClearedInv
  <2>2. CASE FindSkipReasons
    <3>1. /\ changes = 0 /\ pc = "skips" /\ pc' = "detect" /\ skipped' = SkipReasons
          /\ UNCHANGED <<written, specs, commands, trouble, failed>>
      BY <2>2 DEF FindSkipReasons, world, history
    <3> QED BY <3>1, SameSelection DEF Calm, SelectionInv, ClearedInv
  <2>3. CASE DetectConflicts
    <3>1. /\ changes = 0 /\ pc = "detect" /\ pc' \in {"preflight", "end"}
          /\ UNCHANGED <<written, specs, commands, trouble, skipped, at>>
          /\ pc' = "preflight" => ~Conflicting(Compared)
      BY <2>3 DEF DetectConflicts, world, history, run, Compared
    <3>2. Compared' = Compared /\ \A id : ClaimsOf(id)' = ClaimsOf(id)
      BY <3>1, SameSelection
    <3>3. pc' = "preflight" => ~Conflicting(Compared)'
      BY <3>1, <3>2 DEF Conflicting
    <3>4. at = 1
      BY <3>1 DEF Shape
    <3> QED BY <3>1, <3>3, <3>4, SameSelection DEF Calm, SelectionInv, ClearedInv, Specs
  <2>4. CASE Preflight
    <3>1. /\ changes = 0 /\ pc = "preflight"
          /\ UNCHANGED <<written, specs, take, commands, skipped, owner>>
          /\ \/ at < Count /\ at' = at + 1 /\ pc' = "preflight"
             \/ at >= Count /\ at' = 1 /\ pc' = IF failed' THEN "end" ELSE "claim"
      <4>1. at < Count \/ at >= Count
        BY CountAssumption DEF Shape, Specs
      <4> QED BY <4>1, <2>4, CountAssumption DEF Preflight, world, run
    <3>0. /\ failed => failed'
          /\ Refused(ActiveFiles(at)) => failed'
          /\ trouble => trouble'
      BY <2>4 DEF Preflight
    <3>2. SelectionInv'
      BY <3>1, SameSelection DEF Calm, SelectionInv
    <3>3. ASSUME ~trouble' PROVE ClearedInv'
      <4>1. ClearedInv
        BY <3>1, <3>0, <3>3 DEF Calm
      <4>2. ~Conflicting(Compared)'
        BY <4>1, <3>1, SameSelection DEF ClearedInv, Conflicting
      <4>3. \A s \in Specs : ~failed' /\ s < at + 1 => ~Refused(ActiveFiles(s))'
        BY <4>1, <3>1, <3>0, SameRefusals DEF ClearedInv, Shape, Specs
      <4> QED BY <3>1, <3>0, <4>2, <4>3, CountAssumption DEF ClearedInv, Shape, Specs, Calm, SelectionInv
    <3> QED BY <3>2, <3>3
  <2>5. CASE ClaimsRefused
    <3>1. /\ changes = 0 /\ pc = "claim" /\ pc' \in {"claim", "end"}
          /\ UNCHANGED <<written, specs, commands, skipped>>
          /\ Refused(ActiveFiles(at)) \/ trouble'
          /\ trouble => trouble'
      BY <2>5 DEF ClaimsRefused, OpenAfterTrouble, NextSpec, world, run
    <3>2. SelectionInv'
      BY <3>1, SameSelection DEF Calm, SelectionInv
    <3>3. trouble'
      BY <3>1 DEF Calm, ClearedInv, Shape, Specs
    <3> QED BY <3>2, <3>3
  <2>6. CASE ClaimsAccepted
    <3>1. /\ changes = 0 /\ pc = "claim" /\ pc' = "select" /\ claimed' = ActiveFiles(at)
          /\ UNCHANGED <<written, specs, take, commands, skipped, owner, at, failed, trouble>>
      BY <2>6 DEF ClaimsAccepted, history
    <3>2. SelectionInv'
      BY <3>1, SameSelection DEF Calm, SelectionInv
    <3>3. ASSUME ~trouble' PROVE ClearedInv'
      <4>1. ClearedInv
        BY <3>1, <3>3 DEF Calm
      <4>2. ~Conflicting(Compared)'
        BY <4>1, <3>1, SameSelection DEF ClearedInv, Conflicting
      <4>3. \A s \in Specs : s > at => ~Refused(ActiveFiles(s))'
        BY <4>1, <3>1, SameRefusals DEF ClearedInv, Shape, Specs
      <4> QED BY <4>1, <3>1, <4>2, <4>3 DEF ClearedInv
    <3> QED BY <3>2, <3>3
  <2>7. CASE SelectFiles
    <3>1. /\ changes = 0 /\ pc = "select" /\ pc' = "handle" /\ chosen' = ActiveFiles(at)
          /\ UNCHANGED <<written, specs, take, commands, skipped, owner, at, failed, trouble,
                         claimed>>
      BY <2>7 DEF SelectFiles, world, history
    <3>2. SelectionInv'
      BY <3>1, SameSelection DEF Calm, SelectionInv
    <3>3. ASSUME ~trouble' PROVE ClearedInv'
      <4>1. ClearedInv
        BY <3>1, <3>3 DEF Calm
      <4>2. ~Conflicting(Compared)'
        BY <4>1, <3>1, SameSelection DEF ClearedInv, Conflicting
      <4>3. \A s \in Specs : s > at => ~Refused(ActiveFiles(s))'
        BY <4>1, <3>1, SameRefusals DEF ClearedInv
      <4> QED BY <4>1, <3>1, <4>2, <4>3 DEF ClearedInv
    <3> QED BY <3>2, <3>3
  <2>8. ASSUME NEW id \in Ids, HandleFile(id) PROVE SelectionInv' /\ (~trouble' => ClearedInv')
    <3>1. /\ changes = 0 /\ pc = "handle" /\ pc' = "handle"
          /\ id \in chosen /\ chosen' = chosen \ {id}
          /\ UNCHANGED <<specs, take, commands, skipped, owner, at, claimed>>
          /\ written' \subseteq written \cup {id}
          /\ ~trouble' => ~trouble /\ failed' = failed
      BY <2>8 DEF HandleFile, Comes, Writes, world, progress, history
    <3>2. id \in ActiveFiles(at) /\ skipped = SkipReasons
      BY <3>1 DEF Calm, SelectionInv
    <3>3. Active(id) /\ id \notin SkipReasons
      BY <3>2 DEF ActiveFiles
    <3>4. SelectionInv'
      BY <3>1, <3>3, SameSelection DEF Calm, SelectionInv
    <3>5. ASSUME ~trouble' PROVE ClearedInv'
      <4>1. ClearedInv
        BY <3>1, <3>5 DEF Calm
      <4>2. ~Conflicting(Compared)'
        BY <4>1, <3>1, SameSelection DEF ClearedInv, Conflicting
      <4>3. \A s \in Specs : s > at => ~Refused(ActiveFiles(s))'
        BY <4>1, <3>1, SameRefusals DEF ClearedInv
      <4> QED BY <4>1, <3>1, <3>5, <4>2, <4>3 DEF ClearedInv
    <3> QED BY <3>4, <3>5
  <2>9. CASE FinishSpec
    <3>1. /\ changes = 0 /\ pc = "handle" /\ NextSpec
          /\ UNCHANGED <<specs, take, commands, skipped, written, failed, trouble>>
      BY <2>9 DEF FinishSpec, history
    <3>2. SelectionInv'
      BY <3>1, NextSpecAt, SameSelection DEF Calm, SelectionInv, Shape
    <3>3. ASSUME ~trouble' PROVE ClearedInv'
      <4>1. ClearedInv /\ claimed \subseteq ActiveFiles(at)
        BY <3>1, <3>3 DEF Calm, SelectionInv
      <4>2. ~Conflicting(Compared)'
        BY <4>1, <3>1, SameSelection DEF ClearedInv, Conflicting
      <4>3. \A s \in Specs : s > at => ~Refused(ActiveFiles(s))'
        BY <4>1, <3>1, <2>9, FinishLeavesOthersCleared DEF ClearedInv
      <4>4. pc' \in {"claim", "end"} /\ (pc' = "claim" => at' = at + 1)
        BY <3>1, NextSpecAt DEF Shape
      <4>5. \A s \in Specs : s >= at + 1 => s > at
        BY DEF Shape, Specs
      <4> QED BY <4>1, <3>1, <4>2, <4>3, <4>4, <4>5 DEF ClearedInv
    <3> QED BY <3>2, <3>3
  <2>10. ASSUME NEW command \in Commands, CommandChanges(command) PROVE FALSE
    BY <2>10 DEF CommandChanges, Shape
  <2>11. ASSUME NEW claim \in Claims, ClaimMadeElsewhere(claim) PROVE FALSE
    BY <2>11 DEF ClaimMadeElsewhere, Shape
  <2>12. CASE UNCHANGED vars
    <3>1. UNCHANGED <<specs, take, commands, owner, pc, at, skipped, claimed, chosen, written,
                      failed, trouble, changes>>
      BY <2>12 DEF vars, world, progress, run, history
    <3>2. SelectionInv'
      BY <3>1, SameSelection DEF Calm, SelectionInv
    <3>3. ASSUME ~trouble' PROVE ClearedInv'
      <4>1. ClearedInv
        BY <3>1, <3>3 DEF Calm
      <4>2. Conflicting(Compared)' <=> Conflicting(Compared)
        BY <3>1, SameSelection DEF Conflicting
      <4>3. \A s : Refused(ActiveFiles(s))' <=> Refused(ActiveFiles(s))
        BY <3>1, SameRefusals
      <4> QED BY <3>1, <4>1, <4>2, <4>3 DEF ClearedInv
    <3> QED BY <3>2, <3>3
  <2>13. CASE RunIsLost \/ \E id \in Ids : RecordingFails(id)
    <3>1. /\ changes = 0 /\ pc \in {"select", "handle"} /\ pc' \in {"claim", "end"} /\ trouble'
          /\ UNCHANGED <<specs, commands, skipped>>
          /\ \/ written' = written
             \/ pc = "handle" /\ \E id \in chosen : written' = written \cup {id}
      BY <2>13 DEF RunIsLost, RecordingFails, Comes, Writes, Aborts, NextSpec
    <3>2. \A id \in written' : id \in Ids /\ Active(id) /\ id \notin SkipReasons
      BY <3>1 DEF Calm, SelectionInv, ActiveFiles
    <3> QED BY <3>1, <3>2, SameSelection DEF Calm, SelectionInv
  <2>14. CASE RecoveredElsewhere
    <3>1. /\ changes = 0 /\ pc = "claim"
          /\ UNCHANGED <<specs, take, commands, owner, pc, at, skipped, claimed, chosen, written,
                         failed, trouble>>
      BY <2>14 DEF RecoveredElsewhere, progress, run, history
    <3>2. SelectionInv'
      BY <3>1, SameSelection DEF Calm, SelectionInv
    <3>3. ASSUME ~trouble' PROVE ClearedInv'
      <4>1. ClearedInv
        BY <3>1, <3>3 DEF Calm
      <4>2. Conflicting(Compared)' <=> Conflicting(Compared)
        BY <3>1, SameSelection DEF Conflicting
      <4>3. \A s : Refused(ActiveFiles(s))' <=> Refused(ActiveFiles(s))
        BY <3>1, SameRefusals
      <4> QED BY <3>1, <4>1, <4>2, <4>3 DEF ClearedInv
    <3> QED BY <3>2, <3>3
  <2> QED BY <2>1, <2>2, <2>3, <2>4, <2>5, <2>6, <2>7, <2>8, <2>9, <2>10, <2>11, <2>12,
             <2>13, <2>14 DEF Next, Ended
<1> QED BY <1>1, <1>2, ShapeInvariant, LedgerInvariant, TroubleInvariant, PTL DEF Spec

\* While nothing changes, only the target of the best priority in the directory writes a
\* file (_directory_file_skip_reasons).
THEOREM OnlyWinnersWrite == Spec => []WinnersWrite
<1>1. Shape /\ Calm => WinnersWrite
  <2> SUFFICES ASSUME Shape, Calm, changes = 0, NEW id \in written,
                      Cardinality(Best(ActiveFor(Target(id).file))) = 1
               PROVE  id \in Best(ActiveFor(Target(id).file))
    BY DEF WinnersWrite
  <2>1. id \in Ids /\ Active(id) /\ id \notin SkipReasons
    BY DEF Calm, SelectionInv
  <2>2. Target(id).file \in Files
    BY <2>1, TargetsOfFiles
  <2>3. id \in ActiveFor(Target(id).file)
    BY <2>1 DEF ActiveFor
  <2> QED BY <2>1, <2>2, <2>3 DEF SkipReasons
<1> QED BY <1>1, ShapeInvariant, CalmInvariant, PTL

\* While nothing changes and no target fails by itself, apply-dir applies all of its
\* specs or writes nothing (cli.py, _run_spec_directory).
THEOREM AllOrNothingIsApplied == Spec => []AllOrNothing
<1>1. Calm => AllOrNothing
  BY DEF Calm, SelectionInv, ClearedInv, AllOrNothing
<1> QED BY <1>1, CalmInvariant, PTL
=============================================================================
