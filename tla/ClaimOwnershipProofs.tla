----------------------- MODULE ClaimOwnershipProofs -----------------------
(***************************************************************************)
(* Proofs about the ledger of owners, for any applies, claims and owners:  *)
(* it keeps to the writer protocol, so that what WriterProtocolProofs has  *)
(* shown holds with it too; owners stay disjoint; and a row changes hands  *)
(* by agreement only.                                                      *)
(***************************************************************************)
EXTENDS ClaimOwnership, WriterProtocolProofs, WellFoundedInduction

LEMMA ClaimStepIsWriterStep == ASSUME ClaimNext PROVE [Next]_vars
<1>1. ASSUME NEW p \in Applies, CheckClaims(p) PROVE [Next]_vars
  BY <1>1 DEF CheckClaims
<1>2. ASSUME NEW p \in Applies, RefuseClaims(p) \/ DeferConflict(p) PROVE [Next]_vars
  BY <1>2 DEF RefuseClaims, DeferConflict, Next, Advance, Runs
<1>3. ASSUME NEW p \in Applies, PromoteClaims(p) PROVE [Next]_vars
  BY <1>3 DEF PromoteClaims, Next, Advance, Runs
<1>4. ASSUME NEW p \in Runs, WriterStep(p) PROVE [Next]_vars
  BY <1>4 DEF WriterStep, Next, Advance
<1>5. ASSUME NEW p \in Runs, NextClaimInvocation(p) PROVE [Next]_vars
  BY <1>5 DEF NextClaimInvocation, Next
<1>6. ASSUME LeaseLapses \/ \E c \in Claims : ReservationLapses(c) PROVE [Next]_vars
  BY <1>6 DEF Next
<1> QED BY <1>1, <1>2, <1>3, <1>4, <1>5, <1>6 DEF ClaimNext

(* Every behaviour with the ledger of owners is one of the writer protocol. *)
THEOREM ClaimsKeepTheProtocol == ClaimSpec => WriterSpec
<1>1. ClaimInit => Init
  BY DEF ClaimInit
<1>2. [ClaimNext]_<<vars, claimVars>> => [Next]_vars
  BY ClaimStepIsWriterStep
<1> QED BY <1>1, <1>2, PTL DEF ClaimSpec, WriterSpec, Spec

(* So writers exclude each other also when they ask for and take over claims. *)
THEOREM ClaimingWritersAreExclusive == ClaimSpec => []ExclusiveWriters
BY ClaimsKeepTheProtocol, WritersAreExclusive, PTL DEF WriterSpec

-----------------------------------------------------------------------------
(* The ledger changes in the final transaction only. *)

OwnerType == owner \in [Claims -> Owners \cup {NoOwner}]

LEMMA OwnersChangeByPromotion ==
    ASSUME ClaimNext, owner' # owner
    PROVE  \E p \in Applies : PromoteClaims(p)
BY DEF ClaimNext, CheckClaims, RefuseClaims, DeferConflict, WriterStep,
       NextClaimInvocation, claimVars

LEMMA OwnerTypeStep ==
    ASSUME OwnerType, [ClaimNext]_<<vars, claimVars>>
    PROVE  OwnerType'
<1>1. CASE owner' = owner
  BY <1>1 DEF OwnerType
<1>2. CASE owner' # owner
  <2>1. PICK p \in Applies : PromoteClaims(p)
    BY <1>2, OwnersChangeByPromotion DEF claimVars
  <2>2. PICK won \in SuccessfulClaims(p) : owner' = Promoted(p, won)
    BY <2>1 DEF PromoteClaims
  <2>3. \A c \in won : OwnerOf[p][c] \in Owners
    BY OwnersAssumption, ClaimsAssumption DEF SuccessfulClaims
  <2> QED BY <2>2, <2>3 DEF OwnerType, Promoted
<1> QED BY <1>1, <1>2

OwnersInv == OwnerType /\ DisjointOwners

LEMMA DisjointOwnersStep ==
    ASSUME OwnersInv, OwnerType', [ClaimNext]_<<vars, claimVars>>
    PROVE  DisjointOwners'
<1>1. CASE owner' = owner
  BY <1>1 DEF OwnersInv, DisjointOwners
<1>2. CASE owner' # owner
  <2>1. PICK p \in Applies : PromoteClaims(p)
    BY <1>2, OwnersChangeByPromotion DEF claimVars
  <2>2. PICK won \in SuccessfulClaims(p) : owner' = Promoted(p, won)
    BY <2>1 DEF PromoteClaims
  <2>3. won \subseteq ClaimsOf[p] /\ won \subseteq Claims
    BY ClaimsAssumption DEF SuccessfulClaims
  <2> SUFFICES ASSUME NEW c \in Claims, NEW d \in Claims,
                      owner'[c] # NoOwner, owner'[d] # NoOwner, d \in Overlaps[c]
               PROVE  owner'[c] = owner'[d]
    BY DEF DisjointOwners
  <2>4. c \in Overlaps[d]
    BY ClaimsAssumption
  <2>5. ASSUME NEW x \in won, NEW y \in Claims \ won, y \in Overlaps[x], owner'[y] # NoOwner
        PROVE  owner'[x] = owner'[y]
    \* A row that survives beside x has x's owner: any other is retired.
    <3>1. owner'[x] = OwnerOf[p][x]
      BY <2>2, <2>3 DEF Promoted
    <3>2. ~ \E e \in won : y \in Rivals(p, e)
      BY <2>2, <2>5 DEF Promoted, Retired
    <3>3. owner'[y] = owner[y]
      BY <2>2, <3>2 DEF Promoted, Retired
    <3>4. owner[y] \in {NoOwner, OwnerOf[p][x]}
      BY <2>5, <3>2 DEF Rivals
    <3> QED BY <2>5, <3>1, <3>3, <3>4
  <2>6. CASE c \in won /\ d \in won
    BY <2>2, <2>3, <2>6, OwnersAssumption DEF Promoted
  <2>7. CASE c \in won /\ d \notin won
    BY <2>5, <2>7
  <2>8. CASE c \notin won /\ d \in won
    BY <2>4, <2>5, <2>8
  <2>9. CASE c \notin won /\ d \notin won
    <3>1. owner'[c] = owner[c] /\ owner'[d] = owner[d]
      BY <2>2, <2>9 DEF Promoted
    <3> QED BY <3>1 DEF OwnersInv, DisjointOwners
  <2> QED BY <2>6, <2>7, <2>8, <2>9
<1> QED BY <1>1, <1>2

(* The rows of the ledger name owners, and no two owners have overlapping rows. *)
THEOREM OwnersInvariant == ClaimSpec => []OwnersInv
<1>1. ClaimInit => OwnersInv
  BY DEF ClaimInit, OwnersInv, OwnerType, DisjointOwners
<1>2. OwnersInv /\ [ClaimNext]_<<vars, claimVars>> => OwnersInv'
  BY OwnerTypeStep, DisjointOwnersStep DEF OwnersInv
<1> QED BY <1>1, <1>2, PTL DEF ClaimSpec

(* No two owners ever have overlapping claims, however many applies there are and in
   whatever order they finish. *)
THEOREM OwnersAreDisjoint == ClaimSpec => []DisjointOwners
<1>1. OwnersInv => DisjointOwners
  BY DEF OwnersInv
<1> QED BY <1>1, OwnersInvariant, PTL

-----------------------------------------------------------------------------

\* Of the claims that retire a row, the first was taken with leave.
LEMMA FirstRivalIsTaken ==
    ASSUME NEW p \in Applies, NEW won \in SuccessfulClaims(p), PromotionAccepted(p, won),
           NEW d, NEW c \in won, d \in Rivals(p, c)
    PROVE  \E e \in take[p] : d \in Overlaps[e]
<1> DEFINE Retiring == {e \in won : d \in Rivals(p, e)}
           Places == {Order[e] : e \in Retiring}
<1>1. won \subseteq Claims
  BY ClaimsAssumption DEF SuccessfulClaims
<1>2. Places \subseteq Nat /\ Places # {}
  BY <1>1, OrderAssumption
<1>3. PICK n \in Places : \A m \in Places : ~ (<<m, n>> \in OpToRel(<, Nat))
  BY <1>2, NatLessThanWellFounded, WFMin
<1>4. PICK e \in Retiring : n = Order[e]
  BY <1>3
<1>5. \A f \in Retiring : ~ (Order[f] < Order[e])
  BY <1>2, <1>3, <1>4 DEF OpToRel
<1>6. e \in take[p]
  BY <1>4, <1>5 DEF PromotionAccepted
<1>7. d \in Overlaps[e]
  BY <1>4 DEF Rivals
<1> QED BY <1>6, <1>7

LEMMA TransferStep ==
    ASSUME OwnerType, TypeOK, [ClaimNext]_<<vars, claimVars>>,
           NEW d \in Claims, owner[d] # NoOwner, owner'[d] # owner[d]
    PROVE  \E p \in Applies :
              /\ pc[p] = "finish" /\ attempts'[p] = "finished"
              /\ \E c \in take[p] : d \in Overlaps[c]
<1>1. PICK p \in Applies : PromoteClaims(p)
  BY OwnersChangeByPromotion DEF claimVars
<1>2. PICK won \in SuccessfulClaims(p) :
          PromotionAccepted(p, won) /\ owner' = Promoted(p, won)
  BY <1>1 DEF PromoteClaims
<1>3. pc[p] = "finish" /\ attempts'[p] = "finished"
  BY <1>1 DEF PromoteClaims, FinishRun, TypeOK, Runs
<1>4. \E c \in won : d \in Rivals(p, c)
  <2>1. CASE d \in won
    \* A claim overlaps itself.
    <3>1. owner'[d] = OwnerOf[p][d]
      BY <1>2, <2>1 DEF Promoted
    <3>2. d \in Overlaps[d]
      BY ClaimsAssumption
    <3> QED BY <2>1, <3>1, <3>2 DEF Rivals
  <2>2. CASE d \notin won
    BY <1>2, <2>2 DEF Promoted, Retired
  <2> QED BY <2>1, <2>2
<1>5. \E c \in take[p] : d \in Overlaps[c]
  BY <1>2, <1>4, FirstRivalIsTaken
<1> QED BY <1>3, <1>5

(* An owner loses a row only to a run that was given leave to take a claim overlapping
   it, also when the run stalled for as long as it likes before it finished. *)
THEOREM RowsChangeHandsByAgreement == ClaimSpec => TransfersAreAgreed
<1> DEFINE Agreed ==
      \A d \in Claims :
         owner[d] # NoOwner /\ owner'[d] # owner[d] =>
            \E p \in Applies :
               /\ pc[p] = "finish" /\ attempts'[p] = "finished"
               /\ \E c \in take[p] : d \in Overlaps[c]
<1>1. OwnersInv /\ TypeOK /\ [ClaimNext]_<<vars, claimVars>>
          => [Agreed]_<<vars, claimVars>>
  BY TransferStep DEF OwnersInv
<1>2. ClaimSpec => []TypeOK
  BY ClaimsKeepTheProtocol, TypeInvariant, PTL DEF WriterSpec
<1> QED BY <1>1, <1>2, OwnersInvariant, PTL DEF ClaimSpec, TransfersAreAgreed
=============================================================================
