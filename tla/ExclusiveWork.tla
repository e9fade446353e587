---------------------------- MODULE ExclusiveWork ----------------------------
(***************************************************************************)
(* What the writer protocol promises about applies, with every mechanism   *)
(* (lock row, lease, heartbeat, ledger transactions) left out: a single    *)
(* slot of work that has begun to change managed files and whose attempts  *)
(* are not yet resolved.  An apply takes the slot only while it is empty,  *)
(* and the slot is emptied when the attempts of its run are resolved: by   *)
(* the run's own final transaction, or by a forced recovery.               *)
(***************************************************************************)
CONSTANT Runs

VARIABLE open      \* runs that began to write and whose attempts are unresolved

Init == open = {}

\* An apply passes its last check before the first target.
Begin(p) == /\ open = {}
            /\ open' = {p}

\* The attempts of the run in the slot leave the unfinished phases.
Resolve(p) == /\ open = {p}
              /\ open' = {}

Next == \E p \in Runs : Begin(p) \/ Resolve(p)

Spec == Init /\ [][Next]_open
=============================================================================
