---------------------------- MODULE MCManagedFile ----------------------------
(* Instances of ManagedFile for TLC: one key that specs manage, one that they do not. *)
EXTENDS ManagedFile, TLC

CONSTANTS k, u, v1, v2

OneManagedKey == {k}

TwoKeys == {k, u}

\* What a spec may ask of k: one of two values, or to delete it.
MappingSpecs == [{k} -> {v1, v2, Absent}]

\* A managed block is never deleted by a spec.
LineSpecs == [{k} -> {v1, v2}]

NoneForced == {{}}

SymmetryValues == Permutations({v1, v2})

SomeForced == {{}, {k}}
=============================================================================
