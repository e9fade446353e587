----------------------------- MODULE MCAssetFiles -----------------------------
(* An instance of AssetFiles for TLC: two files below one destination. *)
EXTENDS AssetFiles, TLC

CONSTANTS a, b, s1, s2, u

TwoFiles == (a :> 1) @@ (b :> 2)

\* Source trees with one file or both, and with other content for it.
Trees == {a :> s1, a :> s2, b :> s1, (a :> s1) @@ (b :> s2)}
=============================================================================
