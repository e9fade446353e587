---------------------------- MODULE ClaimScopes ----------------------------
(***************************************************************************)
(* When two claims are about the same thing: the rules of claims_overlap,  *)
(* used by the claim checks of a spec, by the ledger of owners and by the  *)
(* reservations.                                                           *)
(*                                                                         *)
(* A scope is a record of the claim's type, the normalised absolute path   *)
(* of its subject as the sequence of its parts, and its address as the     *)
(* sequence of the words between its dots.  "x is below y" is then that y  *)
(* is a prefix of x, both for is_relative_to and for startswith(y + ".").  *)
(* The name of an environment variable is a path of one part.              *)
(***************************************************************************)
EXTENDS SequencesExt

Kinds == {"file", "line", "shell", "asset", "env"}

Tree == <<"tree">>

Is(kind, left, right) == left.type = kind /\ right.type = kind

OneIs(kind, left, right) == left.type = kind \/ right.type = kind

IsText(scope) == scope.type \in {"line", "shell"}

\* A mirrored tree covers every path below its destination.
CoversPath(tree, scope) ==
    /\ tree.type = "asset"
    /\ tree.address = Tree
    /\ IsPrefix(tree.path, scope.path)

\* Mutant: only the parent that is claimed first is recognised.
NestedBelow(left, right) == IsPrefix(left.address, right.address)

\* One key is the other, or a parent of it.
Nested(left, right) ==
    IsPrefix(left.address, right.address) \/ IsPrefix(right.address, left.address)

\* Two claims of one path: a document and a text format never go together.
OverlapInFile(left, right) ==
    \/ OneIs("asset", left, right)
    \/ Is("file", left, right) /\ Nested(left, right)
    \/ IsText(left) /\ IsText(right) /\ left.address = right.address
    \/ ~Is("file", left, right) /\ ~(IsText(left) /\ IsText(right))

Overlap(left, right) ==
    IF OneIs("env", left, right)
    THEN Is("env", left, right) /\ left.path = right.path
    ELSE \/ CoversPath(left, right)
         \/ CoversPath(right, left)
         \/ left.path = right.path /\ OverlapInFile(left, right)

\* The scopes a set of scopes overlaps, for modules that compose this one.
OverlapsIn(scopes) == [s \in scopes |-> {t \in scopes : Overlap(s, t)}]

-----------------------------------------------------------------------------
(* What the claims are about *)

\* Keys of documents, blocks of texts, and environment variables.
PlacesOver(paths, keys, ids) ==
    [in : {"document"}, path : paths, at : keys]
        \cup [in : {"text", "environment"}, path : paths, at : ids]

\* A setting and what is below it, a block, all of a file, all files of a tree, a variable.
IsAbout(scope, place) ==
    \/ /\ scope.type = "env" /\ place.in = "environment"
       /\ place.path = scope.path
    \/ /\ IsText(scope) /\ place.in = "text"
       /\ place.path = scope.path /\ place.at = scope.address
    \/ /\ scope.type = "file" /\ place.in = "document"
       /\ place.path = scope.path /\ IsPrefix(scope.address, place.at)
    \/ /\ scope.type = "asset" /\ place.in # "environment"
       /\ place.path = scope.path \/ CoversPath(scope, place)

\* A document and a text over one path, which no program can keep both.
MixedFormats(left, right) ==
    /\ left.path = right.path
    /\ \/ left.type = "file" /\ IsText(right)
       \/ right.type = "file" /\ IsText(left)

\* The answer that claims_overlap should give.
SharedPlace(left, right, places) ==
    \/ \E place \in places : IsAbout(left, place) /\ IsAbout(right, place)
    \/ MixedFormats(left, right)

\* A claim over these paths, keys and blocks.
ClaimOver(scope, paths, keys, ids) ==
    /\ scope.type \in Kinds /\ scope.path \in paths
    /\ scope.type = "file" => scope.address \in keys
    /\ IsText(scope) => scope.address \in ids
=============================================================================
