------------------------ MODULE WriterProtocolProofs ------------------------
(***************************************************************************)
(* Theorems about WriterProtocol, for every set of runs and of claims.     *)
(*                                                                         *)
(* The safety properties rest on one inductive invariant, IInv.  Its core  *)
(* is CheckedSinceAcquired: a run that holds the lock row and has read the *)
(* ledger after taking it sees no open work but its own.  The row changes  *)
(* hands only through AcquireLock, which sends the new holder back to the  *)
(* read, so what heartbeats and releases do to the row cannot falsify it.  *)
(***************************************************************************)
EXTENDS WriterProtocol, TLAPS

-----------------------------------------------------------------------------
(* The inductive invariant *)

BeforeLock == {"idle", "inspect", "acquire"}

\* The steps of an apply up to the check that precedes its writes.
BeforeEntry == {"unfinished", "guard_claims", "guard_reserve", "reserve", "guard_enter"}

\* The steps of an apply between its read of unfinished attempts and its return.
AfterRead == {"guard_claims", "guard_reserve", "reserve", "guard_enter",
              "guard_target", "target", "more", "guard_finish", "finish"}

Writing == {"guard_target", "target", "more", "guard_finish", "finish"}

\* Which command each step belongs to.
StepOwners ==
    \A p \in Runs :
        /\ pc[p] \in BeforeEntry \cup {"finish"} => p \in Applies
        /\ pc[p] = "clear" => p \in Recoveries
        /\ pc[p] \in {"initialize", "aborted"} => p \in Rollbacks
        /\ attempts[p] = "attempting" => p \in Applies

\* entered says that the check has been passed, and only that.
EnteredWhenChecked ==
    \A p \in Runs :
        /\ pc[p] \in BeforeLock \cup BeforeEntry => ~entered[p]
        /\ p \in Applies /\ pc[p] \in Writing => entered[p]

CheckedSinceAcquired ==
    \A p \in Applies : holder = p /\ pc[p] \in AfterRead => OpenWork \subseteq {p}

\* The row of a run exists between its acquire_lock and its return, its death, or the
\* error that leaves the row behind, which comes before the heartbeat is started.
RowHasOwner ==
    \A p \in Runs :
        /\ pc[p] \in BeforeLock \cup {"done"} => holder # p
        /\ pc[p] \in {"idle", "inspect", "acquire", "initialize", "aborted"} =>
              heartbeat[p] = "off"

\* Attempts are finished by the last step of the try block.
FinishedIsOver ==
    \A p \in Runs : attempts[p] = "finished" => pc[p] \in Leaving \cup Ended

\* After a late write the row is gone for good, and no check passes any more.
LateIsLast ==
    \A p \in Runs :
        late[p] =>
            /\ holder # p
            /\ attempts[p] # "finished"
            /\ pc[p] \in {"guard_target", "more"} \cup Leaving \cup Ended

\* An unexpired reservation has a row.
FreshHasRow == \A c \in Claims : fresh[c] => reservation[c] # NoRun

\* What only the lock row and the steps decide ...
LockInv == StepOwners /\ EnteredWhenChecked /\ RowHasOwner /\ FinishedIsOver /\ LateIsLast

\* ... what relates them to the attempts ...
WorkInv == CheckedSinceAcquired /\ ExclusiveWriters

\* ... and what only the rows of the ledger decide.
ReservationInv == FreshHasRow /\ ReservationsRecoverable /\ ReservationsDisjoint

IInv == TypeOK /\ LockInv /\ WorkInv /\ ReservationInv

-----------------------------------------------------------------------------
(* Type correctness *)

USE DEF Goto, lockVars, ledgerVars, historyVars

\* Every action keeps each variable in its type.
LEMMA TypeStep ==
    ASSUME TypeOK, Next
    PROVE  TypeOK'
<1> USE RunsAssumption, ClaimsAssumption DEF TypeOK, Steps, Working, Leaving, Ended, GuardPoints
<1>1. ASSUME NEW p \in Runs, Begin(p) PROVE TypeOK'
  BY <1>1 DEF Begin
<1>2. ASSUME NEW p \in Runs, Inspect(p) PROVE TypeOK'
  BY <1>2 DEF Inspect
<1>3. ASSUME NEW p \in Runs, AcquireLock(p) PROVE TypeOK'
  BY <1>3 DEF AcquireLock, FirstStep, Runs
<1>4. ASSUME NEW p \in Runs, LockRefused(p) PROVE TypeOK'
  BY <1>4 DEF LockRefused
<1>5. ASSUME NEW p \in Runs, RequireCurrent(p) PROVE TypeOK'
  BY <1>5 DEF RequireCurrent, AfterGuard
<1>6. ASSUME NEW p \in Runs, LockLost(p) PROVE TypeOK'
  BY <1>6 DEF LockLost
<1>7. ASSUME NEW p \in Runs, CheckUnfinished(p) PROVE TypeOK'
  BY <1>7 DEF CheckUnfinished
<1>8. ASSUME NEW p \in Runs, ReserveClaims(p) PROVE TypeOK'
  BY <1>8 DEF ReserveClaims
<1>9. ASSUME NEW p \in Runs, ReservationConflict(p) PROVE TypeOK'
  BY <1>9 DEF ReservationConflict
<1>10. ASSUME NEW p \in Runs, WriteTarget(p) PROVE TypeOK'
  BY <1>10 DEF WriteTarget
<1>11. ASSUME NEW p \in Runs, TargetsDone(p) PROVE TypeOK'
  BY <1>11 DEF TargetsDone
<1>12. ASSUME NEW p \in Runs, FinishRun(p) PROVE TypeOK'
  BY <1>12 DEF FinishRun
<1>13. ASSUME NEW p \in Runs, ClearInterrupted(p) PROVE TypeOK'
  BY <1>13 DEF ClearInterrupted
<1>14. ASSUME NEW p \in Runs, StepRaises(p) PROVE TypeOK'
  BY <1>14 DEF StepRaises
<1>15. ASSUME NEW p \in Runs, StopHeartbeat(p) PROVE TypeOK'
  BY <1>15 DEF StopHeartbeat
<1>16. ASSUME NEW p \in Runs, ReleaseReads(p) PROVE TypeOK'
  BY <1>16 DEF ReleaseReads
<1>17. ASSUME NEW p \in Runs, ReleaseDeletes(p) PROVE TypeOK'
  BY <1>17 DEF ReleaseDeletes
<1>18. ASSUME NEW p \in Runs, HeartbeatReads(p) PROVE TypeOK'
  BY <1>18 DEF HeartbeatReads
<1>19. ASSUME NEW p \in Runs, HeartbeatWrites(p) PROVE TypeOK'
  BY <1>19 DEF HeartbeatWrites
<1>20. ASSUME NEW p \in Runs, HeartbeatFails(p) PROVE TypeOK'
  BY <1>20 DEF HeartbeatFails
<1>21. ASSUME NEW p \in Runs, Crash(p) PROVE TypeOK'
  BY <1>21 DEF Crash
<1>22. ASSUME NEW p \in Runs, NextInvocation(p) PROVE TypeOK'
  BY <1>22 DEF NextInvocation
<1>23. ASSUME LeaseLapses PROVE TypeOK'
  BY <1>23 DEF LeaseLapses
<1>24. ASSUME NEW c \in Claims, ReservationLapses(c) PROVE TypeOK'
  BY <1>24 DEF ReservationLapses
<1>25. ASSUME NEW p \in Runs, InitializeLedger(p) PROVE TypeOK'
  BY <1>25 DEF InitializeLedger
<1>26. ASSUME NEW p \in Runs, InitializeFails(p) PROVE TypeOK'
  BY <1>26 DEF InitializeFails
<1>27. ASSUME NEW p \in Runs, WriteMore(p) PROVE TypeOK'
  BY <1>27 DEF WriteMore
<1> HIDE DEF TypeOK
<1> QED
  BY <1>1, <1>2, <1>3, <1>4, <1>5, <1>6, <1>7, <1>8, <1>9, <1>10,
     <1>11, <1>12, <1>13, <1>14, <1>15, <1>16, <1>17, <1>18, <1>19, <1>20, <1>21, 
     <1>22, <1>23, <1>24, <1>25, <1>26, <1>27
     DEF Next, Advance, HeartbeatStep

\* The initial values have their types.
LEMMA InitType == Init => TypeOK
<1> SUFFICES ASSUME Init PROVE TypeOK
  OBVIOUS
<1>1. pc \in [Runs -> Steps]
  BY DEF Init, Steps
<1>2. late \in [Runs -> BOOLEAN]
  BY DEF Init
<1>3. lost \in [Runs -> BOOLEAN] /\ entered \in [Runs -> BOOLEAN] /\ fresh \in [Claims -> BOOLEAN]
  BY DEF Init
<1> QED BY <1>1, <1>2, <1>3 DEF Init, TypeOK

\* Every variable has its type in every state, for all sets of runs and claims.
THEOREM TypeInvariant == Spec => []TypeOK
<1>1. TypeOK /\ [Next]_vars => TypeOK'
  <2>1. ASSUME TypeOK, UNCHANGED vars PROVE TypeOK'
    BY <2>1 DEF TypeOK, vars
  <2> QED BY <2>1, TypeStep
<1> QED BY InitType, <1>1, PTL DEF Spec

-----------------------------------------------------------------------------
(* Every step preserves the inductive invariant *)

\* Which step each command stands at, and what the lock row then is.
LEMMA LockStep ==
    ASSUME IInv, TypeOK', Next
    PROVE  LockInv'
<1> USE RunsAssumption, ClaimsAssumption
<1> USE DEF IInv, TypeOK, LockInv, StepOwners, EnteredWhenChecked, RowHasOwner, FinishedIsOver,
         LateIsLast, Working, Leaving, Ended, GuardPoints, BeforeLock, BeforeEntry, Writing, Runs
<1>1. ASSUME NEW p \in Runs, Begin(p) PROVE LockInv'
  BY <1>1 DEF Begin
<1>2. ASSUME NEW p \in Runs, Inspect(p) PROVE LockInv'
  BY <1>2 DEF Inspect
<1>3. ASSUME NEW p \in Runs, AcquireLock(p) PROVE LockInv'
  BY <1>3 DEF AcquireLock, FirstStep
<1>4. ASSUME NEW p \in Runs, LockRefused(p) PROVE LockInv'
  BY <1>4 DEF LockRefused
<1>5. ASSUME NEW p \in Runs, RequireCurrent(p) PROVE LockInv'
  <2> USE <1>5 DEF RequireCurrent, LockIsCurrent
  <2>1. pc'[p] = AfterGuard(p) /\ \A q \in Runs \ {p} : pc'[q] = pc[q]
    OBVIOUS
  <2>2. StepOwners'
    BY <2>1 DEF AfterGuard
  <2>3. EnteredWhenChecked'
    <3>1. pc[p] \in {"guard_claims", "guard_reserve"} =>
             ~entered'[p] /\ pc'[p] \in {"guard_reserve", "reserve"}
      BY <2>1 DEF AfterGuard
    <3>2. pc[p] = "guard_enter" => entered'[p] /\ pc'[p] = "guard_target"
      BY <2>1 DEF AfterGuard
    <3>3. pc[p] \in {"guard_target", "guard_finish"} =>
             entered'[p] = entered[p] /\ pc'[p] \in {"target", "finish", "stop"}
      BY <2>1 DEF AfterGuard
    <3> QED BY <2>1, <3>1, <3>2, <3>3
  <2>4. RowHasOwner' /\ LateIsLast'
    BY <2>1 DEF AfterGuard
  <2> QED BY <2>2, <2>3, <2>4
<1>6. ASSUME NEW p \in Runs, LockLost(p) PROVE LockInv'
  BY <1>6 DEF LockLost
<1>7. ASSUME NEW p \in Runs, CheckUnfinished(p) PROVE LockInv'
  BY <1>7 DEF CheckUnfinished, Unfinished
<1>8. ASSUME NEW p \in Runs, ReserveClaims(p) PROVE LockInv'
  BY <1>8 DEF ReserveClaims, ReservationBlocked
<1>9. ASSUME NEW p \in Runs, ReservationConflict(p) PROVE LockInv'
  BY <1>9 DEF ReservationConflict
<1>10. ASSUME NEW p \in Runs, WriteTarget(p) PROVE LockInv'
  BY <1>10 DEF WriteTarget
<1>11. ASSUME NEW p \in Runs, TargetsDone(p) PROVE LockInv'
  BY <1>11 DEF TargetsDone
<1>12. ASSUME NEW p \in Runs, FinishRun(p) PROVE LockInv'
  BY <1>12 DEF FinishRun
<1>13. ASSUME NEW p \in Runs, ClearInterrupted(p) PROVE LockInv'
  BY <1>13 DEF ClearInterrupted, ClaimsOfRuns, Unfinished, LockIsCurrent
<1>14. ASSUME NEW p \in Runs, StepRaises(p) PROVE LockInv'
  BY <1>14 DEF StepRaises
<1>15. ASSUME NEW p \in Runs, StopHeartbeat(p) PROVE LockInv'
  BY <1>15 DEF StopHeartbeat
<1>16. ASSUME NEW p \in Runs, ReleaseReads(p) PROVE LockInv'
  BY <1>16 DEF ReleaseReads
<1>17. ASSUME NEW p \in Runs, ReleaseDeletes(p) PROVE LockInv'
  BY <1>17 DEF ReleaseDeletes
<1>18. ASSUME NEW p \in Runs, HeartbeatReads(p) PROVE LockInv'
  BY <1>18 DEF HeartbeatReads
<1>19. ASSUME NEW p \in Runs, HeartbeatWrites(p) PROVE LockInv'
  BY <1>19 DEF HeartbeatWrites
<1>20. ASSUME NEW p \in Runs, HeartbeatFails(p) PROVE LockInv'
  BY <1>20 DEF HeartbeatFails
<1>21. ASSUME NEW p \in Runs, Crash(p) PROVE LockInv'
  BY <1>21 DEF Crash
<1>22. ASSUME NEW p \in Runs, NextInvocation(p) PROVE LockInv'
  BY <1>22 DEF NextInvocation, Unfinished
<1>23. ASSUME LeaseLapses PROVE LockInv'
  BY <1>23 DEF LeaseLapses
<1>24. ASSUME NEW c \in Claims, ReservationLapses(c) PROVE LockInv'
  BY <1>24 DEF ReservationLapses
<1>25. ASSUME NEW p \in Runs, InitializeLedger(p) PROVE LockInv'
  BY <1>25 DEF InitializeLedger
<1>26. ASSUME NEW p \in Runs, InitializeFails(p) PROVE LockInv'
  BY <1>26 DEF InitializeFails
<1>27. ASSUME NEW p \in Runs, WriteMore(p) PROVE LockInv'
  BY <1>27 DEF WriteMore
<1> HIDE DEF IInv, TypeOK, LockInv
<1> QED
  BY <1>1, <1>2, <1>3, <1>4, <1>5, <1>6, <1>7, <1>8, <1>9, <1>10,
     <1>11, <1>12, <1>13, <1>14, <1>15, <1>16, <1>17, <1>18, <1>19, <1>20, <1>21,
     <1>22, <1>23, <1>24, <1>25, <1>26, <1>27
     DEF Next, Advance, HeartbeatStep

\* The steps that matter: AcquireLock sends the new holder back to its read,
\* CheckUnfinished goes on only when there is no open work at all, and
\* RequireCurrent adds to the open work only the run that holds the row.
LEMMA WorkStep ==
    ASSUME IInv, TypeOK', Next
    PROVE  WorkInv'
<1> USE RunsAssumption, ClaimsAssumption
<1> USE DEF IInv, TypeOK, LockInv, StepOwners, EnteredWhenChecked, WorkInv, CheckedSinceAcquired, ExclusiveWriters, OpenWork, Working, GuardPoints, BeforeEntry, AfterRead, Runs
<1>1. ASSUME NEW p \in Runs, Begin(p) PROVE WorkInv'
  BY <1>1 DEF Begin
<1>2. ASSUME NEW p \in Runs, Inspect(p) PROVE WorkInv'
  BY <1>2 DEF Inspect
<1>3. ASSUME NEW p \in Runs, AcquireLock(p) PROVE WorkInv'
  BY <1>3 DEF AcquireLock, FirstStep
<1>4. ASSUME NEW p \in Runs, LockRefused(p) PROVE WorkInv'
  BY <1>4 DEF LockRefused
<1>5. ASSUME NEW p \in Runs, RequireCurrent(p) PROVE WorkInv'
  BY <1>5 DEF RequireCurrent, AfterGuard, LockIsCurrent
<1>6. ASSUME NEW p \in Runs, LockLost(p) PROVE WorkInv'
  BY <1>6 DEF LockLost
<1>7. ASSUME NEW p \in Runs, CheckUnfinished(p) PROVE WorkInv'
  BY <1>7 DEF CheckUnfinished, Unfinished
<1>8. ASSUME NEW p \in Runs, ReserveClaims(p) PROVE WorkInv'
  BY <1>8 DEF ReserveClaims, ReservationBlocked
<1>9. ASSUME NEW p \in Runs, ReservationConflict(p) PROVE WorkInv'
  BY <1>9 DEF ReservationConflict
<1>10. ASSUME NEW p \in Runs, WriteTarget(p) PROVE WorkInv'
  BY <1>10 DEF WriteTarget
<1>11. ASSUME NEW p \in Runs, TargetsDone(p) PROVE WorkInv'
  BY <1>11 DEF TargetsDone
<1>12. ASSUME NEW p \in Runs, FinishRun(p) PROVE WorkInv'
  BY <1>12 DEF FinishRun
<1>13. ASSUME NEW p \in Runs, ClearInterrupted(p) PROVE WorkInv'
  BY <1>13 DEF ClearInterrupted, ClaimsOfRuns, Unfinished, LockIsCurrent
<1>14. ASSUME NEW p \in Runs, StepRaises(p) PROVE WorkInv'
  BY <1>14 DEF StepRaises
<1>15. ASSUME NEW p \in Runs, StopHeartbeat(p) PROVE WorkInv'
  BY <1>15 DEF StopHeartbeat
<1>16. ASSUME NEW p \in Runs, ReleaseReads(p) PROVE WorkInv'
  BY <1>16 DEF ReleaseReads
<1>17. ASSUME NEW p \in Runs, ReleaseDeletes(p) PROVE WorkInv'
  BY <1>17 DEF ReleaseDeletes
<1>18. ASSUME NEW p \in Runs, HeartbeatReads(p) PROVE WorkInv'
  BY <1>18 DEF HeartbeatReads
<1>19. ASSUME NEW p \in Runs, HeartbeatWrites(p) PROVE WorkInv'
  BY <1>19 DEF HeartbeatWrites
<1>20. ASSUME NEW p \in Runs, HeartbeatFails(p) PROVE WorkInv'
  BY <1>20 DEF HeartbeatFails
<1>21. ASSUME NEW p \in Runs, Crash(p) PROVE WorkInv'
  BY <1>21 DEF Crash
<1>22. ASSUME NEW p \in Runs, NextInvocation(p) PROVE WorkInv'
  BY <1>22 DEF NextInvocation, Unfinished
<1>23. ASSUME LeaseLapses PROVE WorkInv'
  BY <1>23 DEF LeaseLapses
<1>24. ASSUME NEW c \in Claims, ReservationLapses(c) PROVE WorkInv'
  BY <1>24 DEF ReservationLapses
<1>25. ASSUME NEW p \in Runs, InitializeLedger(p) PROVE WorkInv'
  BY <1>25 DEF InitializeLedger
<1>26. ASSUME NEW p \in Runs, InitializeFails(p) PROVE WorkInv'
  BY <1>26 DEF InitializeFails
<1>27. ASSUME NEW p \in Runs, WriteMore(p) PROVE WorkInv'
  BY <1>27 DEF WriteMore
<1> HIDE DEF IInv, TypeOK, WorkInv
<1> QED
  BY <1>1, <1>2, <1>3, <1>4, <1>5, <1>6, <1>7, <1>8, <1>9, <1>10,
     <1>11, <1>12, <1>13, <1>14, <1>15, <1>16, <1>17, <1>18, <1>19, <1>20, <1>21,
     <1>22, <1>23, <1>24, <1>25, <1>26, <1>27
     DEF Next, Advance, HeartbeatStep

\* The rows of the ledger: ReserveClaims needs the symmetry of Overlaps,
\* ClearInterrupted that attempts belong to applies.
LEMMA ReservationStep ==
    ASSUME IInv, TypeOK', Next
    PROVE  ReservationInv'
<1> USE RunsAssumption, ClaimsAssumption
<1> USE DEF IInv, TypeOK, LockInv, StepOwners, ReservationInv, FreshHasRow, ReservationsRecoverable, ReservationsDisjoint, Unfinished, BeforeEntry, Runs
<1>1. ASSUME NEW p \in Runs, Begin(p) PROVE ReservationInv'
  BY <1>1 DEF Begin
<1>2. ASSUME NEW p \in Runs, Inspect(p) PROVE ReservationInv'
  BY <1>2 DEF Inspect
<1>3. ASSUME NEW p \in Runs, AcquireLock(p) PROVE ReservationInv'
  BY <1>3 DEF AcquireLock, FirstStep
<1>4. ASSUME NEW p \in Runs, LockRefused(p) PROVE ReservationInv'
  BY <1>4 DEF LockRefused
<1>5. ASSUME NEW p \in Runs, RequireCurrent(p) PROVE ReservationInv'
  BY <1>5 DEF RequireCurrent, AfterGuard, LockIsCurrent
<1>6. ASSUME NEW p \in Runs, LockLost(p) PROVE ReservationInv'
  BY <1>6 DEF LockLost
<1>7. ASSUME NEW p \in Runs, CheckUnfinished(p) PROVE ReservationInv'
  BY <1>7 DEF CheckUnfinished, Unfinished
<1>8. ASSUME NEW p \in Runs, ReserveClaims(p) PROVE ReservationInv'
  BY <1>8 DEF ReserveClaims, ReservationBlocked
<1>9. ASSUME NEW p \in Runs, ReservationConflict(p) PROVE ReservationInv'
  BY <1>9 DEF ReservationConflict
<1>10. ASSUME NEW p \in Runs, WriteTarget(p) PROVE ReservationInv'
  BY <1>10 DEF WriteTarget
<1>11. ASSUME NEW p \in Runs, TargetsDone(p) PROVE ReservationInv'
  BY <1>11 DEF TargetsDone
<1>12. ASSUME NEW p \in Runs, FinishRun(p) PROVE ReservationInv'
  BY <1>12 DEF FinishRun
<1>13. ASSUME NEW p \in Runs, ClearInterrupted(p) PROVE ReservationInv'
  BY <1>13 DEF ClearInterrupted, ClaimsOfRuns, Unfinished, LockIsCurrent
<1>14. ASSUME NEW p \in Runs, StepRaises(p) PROVE ReservationInv'
  BY <1>14 DEF StepRaises
<1>15. ASSUME NEW p \in Runs, StopHeartbeat(p) PROVE ReservationInv'
  BY <1>15 DEF StopHeartbeat
<1>16. ASSUME NEW p \in Runs, ReleaseReads(p) PROVE ReservationInv'
  BY <1>16 DEF ReleaseReads
<1>17. ASSUME NEW p \in Runs, ReleaseDeletes(p) PROVE ReservationInv'
  BY <1>17 DEF ReleaseDeletes
<1>18. ASSUME NEW p \in Runs, HeartbeatReads(p) PROVE ReservationInv'
  BY <1>18 DEF HeartbeatReads
<1>19. ASSUME NEW p \in Runs, HeartbeatWrites(p) PROVE ReservationInv'
  BY <1>19 DEF HeartbeatWrites
<1>20. ASSUME NEW p \in Runs, HeartbeatFails(p) PROVE ReservationInv'
  BY <1>20 DEF HeartbeatFails
<1>21. ASSUME NEW p \in Runs, Crash(p) PROVE ReservationInv'
  BY <1>21 DEF Crash
<1>22. ASSUME NEW p \in Runs, NextInvocation(p) PROVE ReservationInv'
  BY <1>22 DEF NextInvocation, Unfinished
<1>23. ASSUME LeaseLapses PROVE ReservationInv'
  BY <1>23 DEF LeaseLapses
<1>24. ASSUME NEW c \in Claims, ReservationLapses(c) PROVE ReservationInv'
  BY <1>24 DEF ReservationLapses
<1>25. ASSUME NEW p \in Runs, InitializeLedger(p) PROVE ReservationInv'
  BY <1>25 DEF InitializeLedger
<1>26. ASSUME NEW p \in Runs, InitializeFails(p) PROVE ReservationInv'
  BY <1>26 DEF InitializeFails
<1>27. ASSUME NEW p \in Runs, WriteMore(p) PROVE ReservationInv'
  BY <1>27 DEF WriteMore
<1> HIDE DEF IInv, TypeOK, ReservationInv
<1> QED
  BY <1>1, <1>2, <1>3, <1>4, <1>5, <1>6, <1>7, <1>8, <1>9, <1>10,
     <1>11, <1>12, <1>13, <1>14, <1>15, <1>16, <1>17, <1>18, <1>19, <1>20, <1>21,
     <1>22, <1>23, <1>24, <1>25, <1>26, <1>27
     DEF Next, Advance, HeartbeatStep

\* The inductive invariant, on which every theorem below rests.
THEOREM InductiveInvariant == Spec => []IInv
<1>1. Init => IInv
  <2> SUFFICES ASSUME Init PROVE LockInv /\ WorkInv /\ ReservationInv
    BY InitType DEF IInv
  <2>1. LockInv
    BY RunsAssumption DEF Init, LockInv, StepOwners, EnteredWhenChecked, RowHasOwner,
           FinishedIsOver, LateIsLast, BeforeEntry, Writing
  <2>2. WorkInv
    BY DEF Init, WorkInv, CheckedSinceAcquired, ExclusiveWriters, OpenWork
  <2>3. ReservationInv
    BY DEF Init, ReservationInv, FreshHasRow, ReservationsRecoverable, ReservationsDisjoint
  <2> QED BY <2>1, <2>2, <2>3
<1>2. TypeOK /\ TypeOK' /\ IInv /\ [Next]_vars => IInv'
  <2>1. ASSUME IInv, UNCHANGED vars PROVE IInv'
    BY <2>1 DEF vars, IInv, TypeOK, LockInv, StepOwners, EnteredWhenChecked, RowHasOwner,
       FinishedIsOver, LateIsLast, WorkInv, CheckedSinceAcquired, ExclusiveWriters, OpenWork,
       ReservationInv, FreshHasRow, ReservationsRecoverable, ReservationsDisjoint,
       Unfinished
  <2> QED BY <2>1, LockStep, WorkStep, ReservationStep DEF IInv
<1> QED BY <1>1, <1>2, TypeInvariant, PTL DEF Spec

-----------------------------------------------------------------------------
(* The safety properties of WriterProtocol *)

\* Two applies never both have open work, for any number of commands and whatever
\* leases lapse.
THEOREM WritersAreExclusive == Spec => []ExclusiveWriters
<1>1. IInv => ExclusiveWriters
  BY DEF IInv, WorkInv
<1> QED BY <1>1, InductiveInvariant, PTL

\* A command that is over left no lock row of its own, unless it died or is a rollback
\* that could not initialize the ledger; the row of that one is renewed by no thread of
\* its own.
THEOREM RowsLeftBehind == Spec => []NoRowLeftBehind
<1>1. IInv => NoRowLeftBehind
  BY DEF IInv, LockInv, RowHasOwner, StepOwners, NoRowLeftBehind, Ended
<1> QED BY <1>1, InductiveInvariant, PTL

\* A run that wrote after it lost the row begins no other target, nor are its attempts
\* ever recorded as finished.
THEOREM NothingFollowsALateWrite == Spec => []LateWriteIsTheLast
<1>1. IInv => LateWriteIsTheLast
  BY DEF IInv, LockInv, LateIsLast, LateWriteIsTheLast, Leaving, Ended
<1> QED BY <1>1, InductiveInvariant, PTL

\* Unexpired reservations of different runs do not overlap.
THEOREM DisjointReservations == Spec => []ReservationsDisjoint
<1>1. IInv => ReservationsDisjoint
  BY DEF IInv, ReservationInv
<1> QED BY <1>1, InductiveInvariant, PTL

\* Every reservation belongs to unfinished attempts for its claim.
THEOREM RecoverableReservations == Spec => []ReservationsRecoverable
<1>1. IInv => ReservationsRecoverable
  BY DEF IInv, ReservationInv
<1> QED BY <1>1, InductiveInvariant, PTL

\* Attempts are resolved by their own run after its entry check, or by a recovery
\* that holds the live lock, and by nothing else.
THEOREM ResolutionOfAttempts == Spec => AttemptsResolvedOnce
<1> DEFINE Resolved ==
      \A p \in Unfinished :
         \/ attempts'[p] = "attempting"
         \/ attempts'[p] = "finished" /\ entered[p]
         \/ attempts'[p] = "interrupted" /\ live /\ holder \in Recoveries
<1>1. ASSUME IInv, Next PROVE Resolved
  <2> USE <1>1 DEF IInv, TypeOK, Unfinished
  <2>1. ASSUME NEW p \in Runs, ReserveClaims(p) PROVE Resolved
    BY <2>1 DEF ReserveClaims
  <2>2. ASSUME NEW p \in Runs, FinishRun(p) PROVE Resolved
    <3>1. entered[p]
      BY <2>2 DEF FinishRun, LockInv, StepOwners, EnteredWhenChecked, Writing
    <3> QED BY <2>2, <3>1 DEF FinishRun
  <2>3. ASSUME NEW p \in Runs, ClearInterrupted(p) PROVE Resolved
    <3>1. live /\ holder \in Recoveries
      BY <2>3 DEF ClearInterrupted, LockIsCurrent, LockInv, StepOwners
    <3>2. \A q \in Unfinished : attempts'[q] = "interrupted"
      BY <2>3 DEF ClearInterrupted
    <3> QED BY <3>1, <3>2
  <2>4. ASSUME NEW p \in Runs, NextInvocation(p) PROVE Resolved
    BY <2>4 DEF NextInvocation
  <2>5. CASE UNCHANGED attempts
    BY <2>5
  <2> QED
    BY <2>1, <2>2, <2>3, <2>4, <2>5
       DEF Next, Advance, HeartbeatStep, Begin, Inspect, AcquireLock, LockRefused,
           RequireCurrent, LockLost, CheckUnfinished, ReservationConflict, WriteTarget,
           WriteMore, InitializeLedger, InitializeFails, TargetsDone, StepRaises,
           StopHeartbeat, ReleaseReads, ReleaseDeletes,
           HeartbeatReads, HeartbeatWrites, HeartbeatFails, Crash, LeaseLapses,
           ReservationLapses
<1>2. ASSUME UNCHANGED vars, TypeOK PROVE Resolved
  BY <1>2 DEF vars, Unfinished
<1> QED BY <1>1, <1>2, InductiveInvariant, PTL DEF Spec, AttemptsResolvedOnce, IInv

-----------------------------------------------------------------------------
(* The protocol implements ExclusiveWork *)

\* Open work begins in the entry check of an apply, ends in its final transaction
\* or in a recovery, and every other step leaves it alone.
THEOREM ImplementsExclusiveWork == Spec => SlotSpec
<1>1. Init => Slot!Init
  BY DEF Init, Slot!Init, OpenWork
<1>2. ASSUME IInv, Next PROVE Slot!Next \/ UNCHANGED OpenWork
  <2> USE <1>2 DEF IInv, TypeOK
  <2>1. ASSUME NEW p \in Runs, RequireCurrent(p) PROVE Slot!Next \/ UNCHANGED OpenWork
    <3>1. CASE pc[p] = "guard_enter" /\ attempts[p] = "attempting"
      <4>1. p \in Applies /\ holder = p /\ ~entered[p]
        BY <2>1, <3>1 DEF RequireCurrent, LockIsCurrent, LockInv, StepOwners,
                          EnteredWhenChecked, BeforeEntry
      <4>2. OpenWork = {}
        BY <3>1, <4>1 DEF WorkInv, CheckedSinceAcquired, AfterRead, OpenWork
      <4>3. OpenWork' = {p}
        BY <2>1, <3>1, <4>2 DEF RequireCurrent, OpenWork
      <4> QED BY <4>2, <4>3 DEF Slot!Next, Slot!Begin
    <3>2. CASE ~(pc[p] = "guard_enter" /\ attempts[p] = "attempting")
      BY <2>1, <3>2 DEF RequireCurrent, OpenWork
    <3> QED BY <3>1, <3>2
  <2>2. ASSUME NEW p \in Runs, FinishRun(p) PROVE Slot!Next \/ UNCHANGED OpenWork
    <3>1. OpenWork' = OpenWork \ {p}
      BY <2>2 DEF FinishRun, OpenWork
    <3>2. OpenWork = {p} \/ p \notin OpenWork
      BY DEF WorkInv, ExclusiveWriters
    <3> QED BY <3>1, <3>2 DEF Slot!Next, Slot!Resolve
  <2>3. ASSUME NEW p \in Runs, ClearInterrupted(p) PROVE Slot!Next \/ UNCHANGED OpenWork
    <3>1. OpenWork' = {}
      BY <2>3 DEF ClearInterrupted, OpenWork, Unfinished
    <3>2. OpenWork = {} \/ \E q \in Runs : OpenWork = {q}
      BY DEF WorkInv, ExclusiveWriters, OpenWork
    <3> QED BY <3>1, <3>2 DEF Slot!Next, Slot!Resolve
  <2>4. ASSUME NEW p \in Runs, ReserveClaims(p) PROVE UNCHANGED OpenWork
    BY <2>4 DEF ReserveClaims, OpenWork, LockInv, EnteredWhenChecked, BeforeEntry
  <2>5. ASSUME NEW p \in Runs, NextInvocation(p) PROVE UNCHANGED OpenWork
    BY <2>5 DEF NextInvocation, OpenWork, Unfinished
  <2>6. CASE UNCHANGED <<attempts, entered>>
    BY <2>6 DEF OpenWork
  <2> QED
    BY <2>1, <2>2, <2>3, <2>4, <2>5, <2>6
       DEF Next, Advance, HeartbeatStep, Begin, Inspect, AcquireLock, LockRefused,
           LockLost, CheckUnfinished, ReservationConflict, WriteTarget,
           WriteMore, InitializeLedger, InitializeFails, TargetsDone, StepRaises,
           StopHeartbeat, ReleaseReads, ReleaseDeletes,
           HeartbeatReads, HeartbeatWrites, HeartbeatFails, Crash, LeaseLapses,
           ReservationLapses
<1>3. UNCHANGED vars => UNCHANGED OpenWork
  BY DEF vars, OpenWork
<1> QED BY <1>1, <1>2, <1>3, InductiveInvariant, PTL DEF Spec, SlotSpec, Slot!Spec
=============================================================================
