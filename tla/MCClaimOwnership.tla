------------------------- MODULE MCClaimOwnership -------------------------
(* Instances of ClaimOwnership for TLC, with claims that are scopes. *)
EXTENDS ClaimOwnership

CONSTANTS a1, a2

LOCAL Scopes == INSTANCE ClaimScopes

Key(words) == [type |-> "file", path |-> <<"conf">>, address |-> words]

Parent == Key(<<"service">>)
Token == Key(<<"service", "token">>)
Name == Key(<<"service", "name">>)

ParentAndChild == {Parent, Token}

\* Overlaps as claims_overlap finds them.
ScopesOverlap == Scopes!OverlapsIn(Claims)

\* a1 manages the parent, every other apply the children.
ParentApart == [p \in Applies |-> IF p = a1 THEN {Parent} ELSE Claims \ {Parent}]

SpecOwners == [spec : Applies, target : {0, 1}]

\* A spec for each apply, with a target for each child.
SpecPerApply ==
    [p \in Applies |-> [c \in Claims |-> [spec |-> p, target |-> IF c = Name THEN 1 ELSE 0]]]

KeyOrder == [c \in Claims |-> CASE c = Name -> 0 [] c = Parent -> 1 [] OTHER -> 2]

\* Bound: only a2 is invoked again, once a1 waits for its final transaction or is done;
\* a run that dies is one that stalls for ever; leases are not renewed.
SecondApplyReturns ==
    \A p \in Runs :
        /\ pc'[p] # "crashed" /\ heartbeat'[p] # "refreshing"
        /\ pc[p] = "done" /\ pc'[p] # "done" => p = a2 /\ pc[a1] \in {"finish", "done"}

\* late is read by no guard, and no property of this run depends on its value.
WithoutLate == <<pc, holder, live, heartbeat, lost, ledgerVars, claimVars, entered>>
=============================================================================
