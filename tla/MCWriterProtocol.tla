--------------------------- MODULE MCWriterProtocol ---------------------------
(* Instances of WriterProtocol for TLC. *)
EXTENDS WriterProtocol, TLC

CONSTANTS a1, a2, k1

\* Every apply wants every claim.
SameClaims == [p \in Applies |-> Claims]

\* Claims overlap only themselves.
DistinctClaims == [c \in Claims |-> {c}]

SymmetryApplies == Permutations(Applies)
=============================================================================
