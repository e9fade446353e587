-------------------------- MODULE ClaimOwnership --------------------------
(***************************************************************************)
(* The ledger of owners (managed_claims) on top of the writer protocol:    *)
(* an apply asks about the claims of other owners before it reserves its   *)
(* own, and in the transaction that resolves its attempts it takes over    *)
(* the claims of the targets that succeeded.  The question and the         *)
(* transaction are far apart: leases lapse, runs stall between their last  *)
(* lock check and that transaction, and a forced recovery may have         *)
(* resolved their attempts and let others in.                              *)
(***************************************************************************)
EXTENDS WriterProtocol

CONSTANTS
    Owners,    \* a spec and the index of one of its targets
    NoOwner,   \* absence of a row
    OwnerOf,   \* the owner an apply claims each claim for
    Order      \* position of a claim among the claims of a spec

\* The claims of a spec that overlap have one owner: anything else is refused
\* before the lock is taken (detect_internal_claim_conflicts).
ASSUME OwnersAssumption ==
    /\ NoOwner \notin Owners
    /\ OwnerOf \in [Applies -> [Claims -> Owners]]
    /\ \A p \in Applies : \A c, d \in ClaimsOf[p] :
          d \in Overlaps[c] => OwnerOf[p][c] = OwnerOf[p][d]

ASSUME OrderAssumption ==
    /\ Order \in [Claims -> Nat]
    /\ \A c, d \in Claims : Order[c] = Order[d] => c = d

VARIABLES
    owner,    \* owner_id of the row of each claim
    asked,    \* the apply has checked its claims against the rows
    take      \* ClaimCheckResult.take_keys

claimVars == <<owner, asked, take>>

ClaimInit ==
    /\ Init
    /\ owner = [c \in Claims |-> NoOwner]
    /\ asked = [p \in Applies |-> FALSE]
    /\ take = [p \in Applies |-> {}]

\* The rows of other owners that a claim of p overlaps.
Rivals(p, c) == {d \in Overlaps[c] : owner[d] \notin {NoOwner, OwnerOf[p][c]}}

Contested(p) == {c \in ClaimsOf[p] : Rivals(p, c) # {}}

-----------------------------------------------------------------------------
(* The question, before the reservation *)

\* Mutant: the reservation follows the question, without the lock check between.
CheckClaimsAndReserve(p) ==
    /\ pc[p] = "guard_reserve"
    /\ ~asked[p]
    /\ asked' = [asked EXCEPT ![p] = TRUE]
    /\ take' = [take EXCEPT ![p] = Contested(p)]
    /\ Goto(p, "reserve")
    /\ UNCHANGED <<lockVars, heartbeat, lost, ledgerVars, historyVars, owner>>

\* No claim is contested, or the resolver agrees to take each one from each rival.
CheckClaims(p) ==
    /\ pc[p] = "guard_reserve"
    /\ ~asked[p]
    /\ asked' = [asked EXCEPT ![p] = TRUE]
    /\ take' = [take EXCEPT ![p] = Contested(p)]
    /\ UNCHANGED <<vars, owner>>

\* Without a resolver, or when it declines one rival, nothing is reserved.
RefuseClaims(p) ==
    /\ pc[p] = "guard_reserve"
    /\ ~asked[p]
    /\ Contested(p) # {}
    /\ StepRaises(p)
    /\ UNCHANGED claimVars

-----------------------------------------------------------------------------
(* The final transaction *)

\* The claims of the targets that succeeded: all or none of the claims of an owner.
SuccessfulClaims(p) ==
    {won \in SUBSET ClaimsOf[p] :
        \A c \in won, d \in ClaimsOf[p] : OwnerOf[p][c] = OwnerOf[p][d] => d \in won}

\* Mutant: the answers given before the reservation are not looked at again.
PromotionGoesThrough(p, won) == TRUE

\* persist_claims finds no rejected rival: the claims go through in order, and what an
\* earlier one has retired is not there any more for a later one.
PromotionAccepted(p, won) ==
    \A c \in won : \A d \in Rivals(p, c) :
        \/ c \in take[p]
        \/ \E e \in won : Order[e] < Order[c] /\ d \in Rivals(p, e)

\* Mutant: only the row of the very same claim changes hands.
PromotedInPlace(p, won) ==
    [c \in Claims |-> IF c \in won THEN OwnerOf[p][c] ELSE owner[c]]

Retired(p, won) == UNION {Rivals(p, c) : c \in won}

\* Overlapping rows of other owners are deleted, then the claims are written.
Promoted(p, won) ==
    [c \in Claims |-> IF c \in won THEN OwnerOf[p][c]
                      ELSE IF c \in Retired(p, won) THEN NoOwner ELSE owner[c]]

PromoteClaims(p) ==
    /\ FinishRun(p)
    /\ \E won \in SuccessfulClaims(p) :
          /\ PromotionAccepted(p, won)
          /\ owner' = Promoted(p, won)
    /\ UNCHANGED <<asked, take>>

\* _DeferredClaimConflict: the transaction is rolled back, with the resolution of
\* the attempts in it.
DeferConflict(p) ==
    /\ pc[p] = "finish"
    /\ \E won \in SuccessfulClaims(p) : ~PromotionAccepted(p, won)
    /\ StepRaises(p)
    /\ UNCHANGED claimVars

-----------------------------------------------------------------------------

NextClaimInvocation(p) ==
    /\ NextInvocation(p)
    /\ asked' = [q \in Applies |-> q # p /\ asked[q]]
    /\ take' = [q \in Applies |-> IF q = p THEN {} ELSE take[q]]
    /\ UNCHANGED owner

\* The steps that neither ask about owners nor change them.  The second lock check
\* of an apply comes after the question.
WriterStep(p) ==
    /\ p \in Applies /\ pc[p] = "guard_reserve" =>
          asked[p] \/ HeartbeatStep(p) \/ HeartbeatFails(p) \/ StepRaises(p) \/ Crash(p)
    /\ \/ Begin(p) \/ Inspect(p) \/ AcquireLock(p) \/ LockRefused(p)
       \/ InitializeLedger(p) \/ InitializeFails(p)
       \/ RequireCurrent(p) \/ LockLost(p)
       \/ CheckUnfinished(p) \/ ReserveClaims(p) \/ ReservationConflict(p)
       \/ WriteTarget(p) \/ WriteMore(p) \/ TargetsDone(p)
       \/ ClearInterrupted(p) \/ StepRaises(p)
       \/ StopHeartbeat(p) \/ ReleaseReads(p) \/ ReleaseDeletes(p)
       \/ HeartbeatStep(p) \/ HeartbeatFails(p) \/ Crash(p)
    /\ UNCHANGED claimVars

ClaimNext ==
    \/ \E p \in Applies :
        \/ CheckClaims(p) \/ RefuseClaims(p)
        \/ PromoteClaims(p) \/ DeferConflict(p)
    \/ \E p \in Runs : WriterStep(p) \/ NextClaimInvocation(p)
    \/ (LeaseLapses \/ \E c \in Claims : ReservationLapses(c)) /\ UNCHANGED claimVars

ClaimSpec == ClaimInit /\ [][ClaimNext]_<<vars, claimVars>>

-----------------------------------------------------------------------------
(* Properties *)

\* No two owners ever have overlapping claims, whoever finished late and whatever
\* was taken: a takeover retires every row it overlaps (persist_claims).
DisjointOwners ==
    \A c, d \in Claims :
        owner[c] # NoOwner /\ owner[d] # NoOwner /\ d \in Overlaps[c] =>
            owner[c] = owner[d]

\* A row is lost to another owner only when a run finishes that was given leave to
\* take a claim overlapping it; a run that was overtaken while it stalled before its
\* final transaction does not carry off what others have claimed meanwhile.
TransfersAreAgreed ==
    [][\A d \in Claims :
          owner[d] # NoOwner /\ owner'[d] # owner[d] =>
              \E p \in Applies :
                  /\ pc[p] = "finish" /\ attempts'[p] = "finished"
                  /\ \E c \in take[p] : d \in Overlaps[c]]_<<vars, claimVars>>

\* With the ledger of owners the commands still follow the writer protocol, so that
\* all that is proved about it holds here.
WriterSpec == Spec
=============================================================================
