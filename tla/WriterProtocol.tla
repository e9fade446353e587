--------------------------- MODULE WriterProtocol ---------------------------
(***************************************************************************)
(* The protocol by which the mutating commands of prescribe exclude one    *)
(* another: the "global" row of run_locks with its lease, the heartbeat    *)
(* thread that renews it, the lock checks of apply, rollback and recover,  *)
(* and the ledger of target attempts and claim reservations that outlives  *)
(* a command.                                                              *)
(*                                                                         *)
(* A member of Runs is one invocation of a command; it stands for its lock *)
(* token (a fresh uuid) and its run id.  Time is abstract: a lease or a    *)
(* reservation may lapse at any moment, which covers every stall of every  *)
(* process.  Each SQLite transaction is one step; each statement outside   *)
(* a transaction is one step too, so heartbeat and release, which read the *)
(* row and then write it by primary key, take two.                         *)
(***************************************************************************)
EXTENDS Naturals, FiniteSets

CONSTANTS
    Applies, Rollbacks, Recoveries,  \* invocations of the three commands
    NoRun,                           \* absence of a row
    Orphan,                          \* token of a dead run that is not in Runs any more
    Claims,                          \* claim keys (target type, subject, address)
    ClaimsOf,                        \* the active claims of the spec of each apply
    Overlaps                         \* the claims each claim overlaps (claims_overlap)

Runs == Applies \cup Rollbacks \cup Recoveries

ASSUME RunsAssumption ==
    /\ NoRun \notin Runs /\ Orphan \notin Runs /\ NoRun # Orphan
    /\ Applies \cap Rollbacks = {}
    /\ Applies \cap Recoveries = {}
    /\ Rollbacks \cap Recoveries = {}

ASSUME ClaimsAssumption ==
    /\ ClaimsOf \in [Applies -> (SUBSET Claims) \ {{}}]
    /\ Overlaps \in [Claims -> SUBSET Claims]
    /\ \A c \in Claims : c \in Overlaps[c]
    /\ \A c, d \in Claims : c \in Overlaps[d] => d \in Overlaps[c]

VARIABLES
    pc,           \* where each invocation stands in its handler
    holder,       \* token of the run_locks row, NoRun when there is no row
    live,         \* the row's expires_at is in the future
    heartbeat,    \* heartbeat thread of each run
    lost,         \* LockHeartbeat.lost, or an error of the thread
    attempts,     \* phase of the run's rows in target_attempts
    reservation,  \* run whose 'reserved' row each claim key has
    fresh,        \* that row's expires_at is in the future
    entered,      \* history: the run passed the check that precedes its writes
    late          \* history: the run changed a file while the row was not its own

vars == <<pc, holder, live, heartbeat, lost, attempts, reservation, fresh,
          entered, late>>

lockVars == <<holder, live>>
ledgerVars == <<attempts, reservation, fresh>>
historyVars == <<entered, late>>

GuardPoints == {"guard_claims", "guard_reserve", "guard_enter", "guard_target",
                "guard_finish"}

\* The steps of a command inside its try block.
Working == GuardPoints \cup {"unfinished", "reserve", "target", "more", "finish", "clear"}

Leaving == {"stop", "release", "delete"}

\* A command that has ended, one way or another.
Ended == {"done", "aborted", "crashed"}

Steps == Working \cup Leaving \cup Ended \cup {"idle", "inspect", "acquire", "initialize"}

Init ==
    /\ pc = [p \in Runs |-> "idle"]
    /\ holder = NoRun
    /\ live = FALSE
    /\ heartbeat = [p \in Runs |-> "off"]
    /\ lost = [p \in Runs |-> FALSE]
    /\ attempts = [p \in Runs |-> "none"]
    /\ reservation = [c \in Claims |-> NoRun]
    /\ fresh = [c \in Claims |-> FALSE]
    /\ entered = [p \in Runs |-> FALSE]
    /\ late = [p \in Runs |-> FALSE]

\* Rows of target_attempts in phase 'attempting', by run.
Unfinished == {p \in Runs : attempts[p] = "attempting"}

Goto(p, step) == pc' = [pc EXCEPT ![p] = step]

-----------------------------------------------------------------------------
(* Starting a command and taking the lock *)

Begin(p) ==
    /\ pc[p] = "idle"
    /\ Goto(p, IF p \in Recoveries THEN "inspect" ELSE "acquire")
    /\ UNCHANGED <<lockVars, heartbeat, lost, ledgerVars, historyVars>>

\* recover looks before it takes the lock, and leaves when there is nothing to
\* clear or the operator did not say --force.
Inspect(p) ==
    /\ pc[p] = "inspect"
    /\ \/ Unfinished # {} /\ Goto(p, "acquire")
       \/ Goto(p, "done")
    /\ UNCHANGED <<lockVars, heartbeat, lost, ledgerVars, historyVars>>

\* Mutant: an expired row is not taken over.
LockFreeOnlyWithoutRow == holder = NoRun

LockFree == holder = NoRun \/ ~live

\* rollback goes on outside of its try block.
FirstStep(p) == CASE p \in Applies -> "unfinished"
                  [] p \in Rollbacks -> "initialize"
                  [] p \in Recoveries -> "clear"

\* One BEGIN IMMEDIATE transaction.  The heartbeat thread of apply and recover starts
\* at once.
AcquireLock(p) ==
    /\ pc[p] = "acquire"
    /\ LockFree
    /\ holder' = p
    /\ live' = TRUE
    /\ heartbeat' = [heartbeat EXCEPT ![p] = IF p \in Rollbacks THEN @ ELSE "waiting"]
    /\ Goto(p, FirstStep(p))
    /\ UNCHANGED <<lost, ledgerVars, historyVars>>

\* rollback migrates the ledger with the lock in its hands and no heartbeat yet.
InitializeLedger(p) ==
    /\ pc[p] = "initialize"
    /\ heartbeat' = [heartbeat EXCEPT ![p] = "waiting"]
    /\ Goto(p, "guard_target")
    /\ UNCHANGED <<lockVars, lost, ledgerVars, historyVars>>

\* initialize() raises before the try block whose finally would release the lock.
InitializeFails(p) ==
    /\ pc[p] = "initialize"
    /\ Goto(p, "aborted")
    /\ UNCHANGED <<lockVars, heartbeat, lost, ledgerVars, historyVars>>

\* Mutant: the refusal is reported but the command does not return.
LockRefusedAndStays(p) ==
    /\ pc[p] = "acquire"
    /\ ~LockFree
    /\ Goto(p, "refused")
    /\ UNCHANGED <<lockVars, heartbeat, lost, ledgerVars, historyVars>>

LockRefused(p) ==
    /\ pc[p] = "acquire"
    /\ ~LockFree
    /\ Goto(p, "done")
    /\ UNCHANGED <<lockVars, heartbeat, lost, ledgerVars, historyVars>>

-----------------------------------------------------------------------------
(* The heartbeat thread, and the checks of the main thread *)

\* lock_is_current: the row is there, has the run's token and has not expired.
LockIsCurrent(p) == holder = p /\ live

RunningHeartbeats == Working \cup {"stop"}

HeartbeatReads(p) ==
    /\ heartbeat[p] = "waiting"
    /\ pc[p] \in RunningHeartbeats
    /\ IF LockIsCurrent(p)
       THEN /\ heartbeat' = [heartbeat EXCEPT ![p] = "refreshing"]
            /\ UNCHANGED lost
       ELSE /\ heartbeat' = [heartbeat EXCEPT ![p] = "off"]
            /\ lost' = [lost EXCEPT ![p] = TRUE]
    /\ UNCHANGED <<pc, lockVars, ledgerVars, historyVars>>

\* UPDATE run_locks SET heartbeat_at, expires_at WHERE name = 'global': whatever
\* row is there now has its lease renewed, and without one the thread dies.
HeartbeatWrites(p) ==
    /\ heartbeat[p] = "refreshing"
    /\ IF holder = NoRun
       THEN /\ heartbeat' = [heartbeat EXCEPT ![p] = "off"]
            /\ lost' = [lost EXCEPT ![p] = TRUE]
            /\ UNCHANGED live
       ELSE /\ live' = TRUE
            /\ heartbeat' = [heartbeat EXCEPT ![p] =
                                IF pc[p] \in RunningHeartbeats THEN "waiting" ELSE "off"]
            /\ UNCHANGED lost
    /\ UNCHANGED <<pc, holder, ledgerVars, historyVars>>

\* The ledger raises in the thread, for instance after waiting for the write lock.
HeartbeatFails(p) ==
    /\ heartbeat[p] \in {"waiting", "refreshing"}
    /\ heartbeat' = [heartbeat EXCEPT ![p] = "off"]
    /\ lost' = [lost EXCEPT ![p] = TRUE]
    /\ UNCHANGED <<pc, lockVars, ledgerVars, historyVars>>

AfterGuard(p) ==
    CASE pc[p] = "guard_claims" -> "guard_reserve"
      [] pc[p] = "guard_reserve" -> "reserve"
      [] pc[p] = "guard_enter" -> "guard_target"
      [] pc[p] = "guard_target" -> "target"
      [] pc[p] = "guard_finish" -> IF p \in Applies THEN "finish" ELSE "stop"

\* Mutant: the check after the reserving transaction is missing.
RequireCurrentNotOnEntry(p) ==
    /\ pc[p] \in GuardPoints
    /\ pc[p] # "guard_enter" => ~lost[p] /\ LockIsCurrent(p)
    /\ Goto(p, AfterGuard(p))
    /\ entered' = [entered EXCEPT ![p] = @ \/ pc[p] = "guard_enter"]
    /\ UNCHANGED <<lockVars, heartbeat, lost, ledgerVars, late>>

\* LockHeartbeat.require_current.
RequireCurrent(p) ==
    /\ pc[p] \in GuardPoints
    /\ ~lost[p]
    /\ LockIsCurrent(p)
    /\ Goto(p, AfterGuard(p))
    /\ entered' = [entered EXCEPT ![p] = @ \/ pc[p] = "guard_enter"]
    /\ UNCHANGED <<lockVars, heartbeat, lost, ledgerVars, late>>

LockLost(p) ==
    /\ pc[p] \in GuardPoints \cup {"clear"}
    /\ lost[p] \/ ~LockIsCurrent(p)
    /\ lost' = [lost EXCEPT ![p] = TRUE]
    /\ Goto(p, "stop")
    /\ UNCHANGED <<lockVars, heartbeat, ledgerVars, historyVars>>

-----------------------------------------------------------------------------
(* apply: the steps before the first write *)

\* Mutant: interrupted work is not looked for.
CheckNothing(p) ==
    /\ pc[p] = "unfinished"
    /\ Goto(p, "guard_claims")
    /\ UNCHANGED <<lockVars, heartbeat, lost, ledgerVars, historyVars>>

CheckUnfinished(p) ==
    /\ pc[p] = "unfinished"
    /\ Goto(p, IF Unfinished = {} THEN "guard_claims" ELSE "stop")
    /\ UNCHANGED <<lockVars, heartbeat, lost, ledgerVars, historyVars>>

\* Mutant: only a row of the very same claim blocks.
ReservationBlockedByKey(p) ==
    \E c \in ClaimsOf[p] : reservation[c] \notin {NoRun, p} /\ fresh[c]

\* Another run's unexpired 'reserved' row overlaps one of this run's claims.
ReservationBlocked(p) ==
    \E c \in ClaimsOf[p], d \in Claims :
        /\ reservation[d] \notin {NoRun, p}
        /\ fresh[d]
        /\ d \in Overlaps[c]

\* One transaction: start_run, reserve_claim and record_target_attempt for every
\* claim.  The lock is not looked at again inside it.
ReserveClaims(p) ==
    /\ pc[p] = "reserve"
    /\ ~ReservationBlocked(p)
    /\ attempts' = [attempts EXCEPT ![p] = "attempting"]
    /\ reservation' = [c \in Claims |-> IF c \in ClaimsOf[p] THEN p ELSE reservation[c]]
    /\ fresh' = [c \in Claims |-> c \in ClaimsOf[p] \/ fresh[c]]
    /\ Goto(p, "guard_enter")
    /\ UNCHANGED <<lockVars, heartbeat, lost, historyVars>>

ReservationConflict(p) ==
    /\ pc[p] = "reserve"
    /\ ReservationBlocked(p)
    /\ Goto(p, "stop")
    /\ UNCHANGED <<lockVars, heartbeat, lost, ledgerVars, historyVars>>

-----------------------------------------------------------------------------
(* apply and rollback: the writes, and the final transaction of apply *)

\* Mutant: the lock is checked before the first target only.
WriteTargetsUnchecked(p) ==
    /\ pc[p] = "target"
    /\ late' = [late EXCEPT ![p] = @ \/ holder # p]
    /\ Goto(p, "target")
    /\ UNCHANGED <<lockVars, heartbeat, lost, ledgerVars, entered>>

\* A file is replaced and its records are committed; or recording fails after
\* the write and the run is abandoned (_PostWriteStateError).
WriteTarget(p) ==
    /\ pc[p] = "target"
    /\ late' = [late EXCEPT ![p] = @ \/ holder # p]
    /\ \/ Goto(p, "guard_target")
       \/ p \in Applies /\ Goto(p, "more")
       \/ Goto(p, "stop")
    /\ UNCHANGED <<lockVars, heartbeat, lost, ledgerVars, entered>>

\* apply changes several files under one check where it materializes the environment
\* (script, plist, registry values) and where it moves a displaced file back.
WriteMore(p) ==
    /\ pc[p] = "more"
    /\ late' = [late EXCEPT ![p] = @ \/ holder # p]
    /\ \/ Goto(p, "more")
       \/ Goto(p, "guard_target")
       \/ Goto(p, "stop")
    /\ UNCHANGED <<lockVars, heartbeat, lost, ledgerVars, entered>>

\* No target is left to write.
TargetsDone(p) ==
    /\ pc[p] = "target"
    /\ Goto(p, "guard_finish")
    /\ UNCHANGED <<lockVars, heartbeat, lost, ledgerVars, historyVars>>

\* Mutant: the reservations are left to their time limit.
FinishRunKeepsReservations(p) ==
    /\ pc[p] = "finish"
    /\ attempts' = [attempts EXCEPT ![p] = "finished"]
    /\ Goto(p, "stop")
    /\ UNCHANGED <<lockVars, heartbeat, lost, reservation, fresh, historyVars>>

\* One transaction: attempts become succeeded or failed whatever their phase is
\* now, the run's reservations are promoted or failed, the run is finished.
FinishRun(p) ==
    /\ pc[p] = "finish"
    /\ attempts' = [attempts EXCEPT ![p] = "finished"]
    /\ reservation' = [c \in Claims |-> IF reservation[c] = p THEN NoRun ELSE reservation[c]]
    /\ fresh' = [c \in Claims |-> reservation[c] # p /\ fresh[c]]
    /\ Goto(p, "stop")
    /\ UNCHANGED <<lockVars, heartbeat, lost, historyVars>>

\* The try block is left early: a claim conflict before the reservation or at the
\* end, a failed statement.  The transaction of the step, if any, is rolled back.
StepRaises(p) ==
    /\ pc[p] \in Working
    /\ Goto(p, "stop")
    /\ UNCHANGED <<lockVars, heartbeat, lost, ledgerVars, historyVars>>

-----------------------------------------------------------------------------
(* recover --force *)

\* The claims of the runs whose attempts a recovery clears.
ClaimsOfRuns(S) == UNION {ClaimsOf[p] : p \in S \cap Applies}

\* Mutant: the recovery relies on having taken the lock earlier.
ClearInterruptedUnchecked(p) ==
    /\ pc[p] = "clear"
    /\ attempts' = [q \in Runs |-> IF q \in Unfinished THEN "interrupted" ELSE attempts[q]]
    /\ reservation' = [c \in Claims |-> IF c \in ClaimsOfRuns(Unfinished) THEN NoRun
                                        ELSE reservation[c]]
    /\ fresh' = [c \in Claims |-> c \notin ClaimsOfRuns(Unfinished) /\ fresh[c]]
    /\ Goto(p, "stop")
    /\ UNCHANGED <<lockVars, heartbeat, lost, historyVars>>

\* One transaction with the lock checked inside it.
ClearInterrupted(p) ==
    /\ pc[p] = "clear"
    /\ ~lost[p]
    /\ LockIsCurrent(p)
    /\ attempts' = [q \in Runs |-> IF q \in Unfinished THEN "interrupted" ELSE attempts[q]]
    /\ reservation' = [c \in Claims |-> IF c \in ClaimsOfRuns(Unfinished) THEN NoRun
                                        ELSE reservation[c]]
    /\ fresh' = [c \in Claims |-> c \notin ClaimsOfRuns(Unfinished) /\ fresh[c]]
    /\ Goto(p, "stop")
    /\ UNCHANGED <<lockVars, heartbeat, lost, historyVars>>

-----------------------------------------------------------------------------
(* Leaving a command *)

\* LockHeartbeat.__exit__: the thread ends, or the join times out while the
\* thread is still between its two statements.
StopHeartbeat(p) ==
    /\ pc[p] = "stop"
    /\ heartbeat' = [heartbeat EXCEPT ![p] = IF @ = "waiting" THEN "off" ELSE @]
    /\ Goto(p, "release")
    /\ UNCHANGED <<lockVars, lost, ledgerVars, historyVars>>

\* Mutant: a run that lost the lock does not release.
ReleaseReadsUnlessLost(p) ==
    /\ pc[p] = "release"
    /\ Goto(p, IF holder = p /\ ~lost[p] THEN "delete" ELSE "done")
    /\ UNCHANGED <<lockVars, heartbeat, lost, ledgerVars, historyVars>>

\* release_lock reads the row and compares its token ...
ReleaseReads(p) ==
    /\ pc[p] = "release"
    /\ Goto(p, IF holder = p THEN "delete" ELSE "done")
    /\ UNCHANGED <<lockVars, heartbeat, lost, ledgerVars, historyVars>>

\* ... and deletes it by primary key in a later statement.
ReleaseDeletes(p) ==
    /\ pc[p] = "delete"
    /\ holder' = NoRun
    /\ live' = FALSE
    /\ Goto(p, "done")
    /\ UNCHANGED <<heartbeat, lost, ledgerVars, historyVars>>

-----------------------------------------------------------------------------
(* The environment *)

\* The process dies, and its heartbeat thread with it.
Crash(p) ==
    /\ pc[p] \notin Ended \cup {"idle"}
    /\ Goto(p, "crashed")
    /\ heartbeat' = [heartbeat EXCEPT ![p] = "off"]
    /\ lost' = [lost EXCEPT ![p] = FALSE]
    /\ UNCHANGED <<lockVars, ledgerVars, historyVars>>

LeaseLapses ==
    /\ live
    /\ live' = FALSE
    /\ UNCHANGED <<pc, holder, heartbeat, lost, ledgerVars, historyVars>>

ReservationLapses(c) ==
    /\ fresh[c]
    /\ fresh' = [fresh EXCEPT ![c] = FALSE]
    /\ UNCHANGED <<pc, lockVars, heartbeat, lost, attempts, reservation, historyVars>>

\* A later invocation, with a new token and a new run id, takes over the name of
\* one that has ended and whose attempts are resolved.  A lock row the dead run
\* left stays, with a token no invocation has.
NextInvocation(p) ==
    /\ pc[p] \in Ended
    /\ heartbeat[p] = "off"
    /\ p \notin Unfinished
    /\ holder' = IF holder = p THEN Orphan ELSE holder
    /\ Goto(p, "idle")
    /\ lost' = [lost EXCEPT ![p] = FALSE]
    /\ attempts' = [attempts EXCEPT ![p] = "none"]
    /\ entered' = [entered EXCEPT ![p] = FALSE]
    /\ late' = [late EXCEPT ![p] = FALSE]
    /\ UNCHANGED <<live, heartbeat, reservation, fresh>>

-----------------------------------------------------------------------------

HeartbeatStep(p) == HeartbeatReads(p) \/ HeartbeatWrites(p)

\* The steps a started command takes by itself.
Advance(p) ==
    \/ Inspect(p) \/ AcquireLock(p) \/ LockRefused(p)
    \/ InitializeLedger(p) \/ InitializeFails(p)
    \/ RequireCurrent(p) \/ LockLost(p)
    \/ CheckUnfinished(p)
    \/ ReserveClaims(p) \/ ReservationConflict(p)
    \/ WriteTarget(p) \/ WriteMore(p) \/ TargetsDone(p) \/ FinishRun(p)
    \/ ClearInterrupted(p) \/ StepRaises(p)
    \/ StopHeartbeat(p) \/ ReleaseReads(p) \/ ReleaseDeletes(p)

Next ==
    \/ \E p \in Runs :
        \/ Begin(p) \/ Advance(p) \/ NextInvocation(p)
        \/ HeartbeatStep(p) \/ HeartbeatFails(p)
        \/ Crash(p)
    \/ LeaseLapses
    \/ \E c \in Claims : ReservationLapses(c)

Spec == Init /\ [][Next]_vars

\* A lease that no running command renews ends when its time is over.
AbandonedLeaseLapses ==
    /\ \A p \in Runs : holder = p => pc[p] \in Ended
    /\ LeaseLapses

\* recover is run again and again with --force, and neither finds the lock taken
\* nor loses it every time.
OperatorRecovers(r) ==
    /\ WF_vars(NextInvocation(r)) /\ WF_vars(Begin(r))
    /\ SF_vars(Inspect(r) /\ pc'[r] = "acquire")
    /\ SF_vars(AcquireLock(r))
    /\ SF_vars(ClearInterrupted(r))

\* A running process goes on, its spec has finitely many targets, and the clock
\* goes on when nobody renews the lease.  Crashes, lapses and failing statements
\* are never required to happen.
Fairness ==
    /\ \A p \in Runs :
        /\ WF_vars(Advance(p))
        /\ WF_vars(HeartbeatStep(p))
        /\ SF_vars(TargetsDone(p))
    /\ WF_vars(AbandonedLeaseLapses)
    /\ \A r \in Recoveries : OperatorRecovers(r)

FairSpec == Spec /\ Fairness

-----------------------------------------------------------------------------
(* Properties *)

TypeOK ==
    /\ pc \in [Runs -> Steps]
    /\ holder \in Runs \cup {NoRun, Orphan}
    /\ live \in BOOLEAN
    /\ heartbeat \in [Runs -> {"off", "waiting", "refreshing"}]
    /\ lost \in [Runs -> BOOLEAN]
    /\ attempts \in [Runs -> {"none", "attempting", "finished", "interrupted"}]
    /\ reservation \in [Claims -> Runs \cup {NoRun}]
    /\ fresh \in [Claims -> BOOLEAN]
    /\ entered \in [Runs -> BOOLEAN]
    /\ late \in [Runs -> BOOLEAN]

\* The applies that went past the last check before their writes and whose
\* attempts nobody has resolved, be they running, stopped or dead.
OpenWork == {p \in Runs : entered[p] /\ attempts[p] = "attempting"}

\* Whatever leases lapse and whatever the unguarded writes of heartbeat and
\* release do to the lock row, two applies never both have begun to change files
\* with their attempts unresolved (orchestrator.py, run(): lock, then the read of
\* unfinished attempts, then the check after the reserving transaction).
ExclusiveWriters == \A p, q \in OpenWork : p = q

\* The same, step by step: the protocol implements a single slot of open work.
Slot == INSTANCE ExclusiveWork WITH open <- OpenWork

SlotSpec == Slot!Spec

\* A run that changed a file after it had lost the lock row, to a lapse or to another
\* run's late release, is at its last target: it begins no other, and its attempts are
\* never recorded as finished (require_current before every target of apply and every
\* write of rollback, and before the final transaction).
LateWriteIsTheLast ==
    \A p \in Runs :
        late[p] => pc[p] \notin {"target", "finish"} /\ attempts[p] # "finished"

\* Two runs never hold unexpired reservations of overlapping claims (reserve_claim
\* inside the transaction that records the attempts).
ReservationsDisjoint ==
    \A c, d \in Claims :
        fresh[c] /\ fresh[d] /\ d \in Overlaps[c] => reservation[c] = reservation[d]

\* A 'reserved' row always belongs to a run with unfinished attempts for that
\* claim, so that resolving the attempts, by the run or by recover --force, frees
\* every reservation and none is left behind to block applies.
ReservationsRecoverable ==
    \A c \in Claims :
        reservation[c] # NoRun =>
            /\ reservation[c] \in Unfinished
            /\ c \in ClaimsOf[reservation[c]]

\* A command that is over left no lock row of its own, also when it lost the lock,
\* failed, or its heartbeat outlived the join (the finally of run(),
\* recover_interrupted() and rollback()), unless its process died or it is a rollback
\* whose initialize() raised; that one has no heartbeat to keep its row alive.
NoRowLeftBehind ==
    \A p \in Runs :
        holder = p /\ pc[p] \in Ended =>
            \/ pc[p] = "crashed"
            \/ p \in Rollbacks /\ pc[p] = "aborted" /\ heartbeat[p] = "off"

\* Attempts leave 'attempting' in two ways only: in the final transaction of a run
\* that began its writes, or in a recovery while no other run holds a live lock
\* (README: recover --force refuses while another writer holds the live lock).
AttemptsResolvedOnce ==
    [][\A p \in Unfinished :
          \/ attempts'[p] = "attempting"
          \/ attempts'[p] = "finished" /\ entered[p]
          \/ attempts'[p] = "interrupted" /\ live /\ holder \in Recoveries]_vars

\* Unfinished attempts, also those of a dead run that still has the lock row, do
\* not block applies forever when the operator keeps running recover --force.
InterruptedWorkCleared ==
    \A p \in Applies : p \in Unfinished ~> p \notin Unfinished

\* The lock row is only removed by the run whose token it has (tests/
\* test_state_ledger.py: "release and heartbeat require current token").
ReleaseNeedsOwnToken ==
    [][holder # NoRun /\ holder' = NoRun =>
          \E p \in Runs : holder = p /\ pc[p] = "delete"]_vars
=============================================================================
