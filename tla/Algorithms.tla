------------------------------ MODULE Algorithms ------------------------------
(***************************************************************************)
(* The pure algorithms about claims, targets, managed blocks and variables *)
(* of the environment: an input is chosen in two steps, what it is about   *)
(* and the object first, the rest second, and the invariants say what the  *)
(* algorithm makes of it.  The inputs are constants: TLC is given small    *)
(* sets of them, the proofs are about any.                                 *)
(***************************************************************************)
EXTENDS ClaimScopes, TargetSelection, LineDocument, EnvEdits

CONSTANTS
    Scopes, ScopePaths, ScopeKeys, ScopeBlocks, PathParts, KeyWords,
    Machines, FileTargets,
    Here, Locations, Candidates, Appendices, FileSystems, NewPaths,
    Texts, DesiredBlocks,
    EntryLists, Environs, OtherPaths

ASSUME ScopesAssumption ==
    /\ ScopePaths \subseteq Seq(PathParts) /\ ScopeKeys \subseteq Seq(KeyWords) /\ ScopeBlocks # {}
    /\ \A scope \in Scopes : ClaimOver(scope, ScopePaths, ScopeKeys, ScopeBlocks)

ASSUME LocationsAssumption ==
    /\ \A candidate \in Candidates : candidate.path \in Seq(PathParts)
    /\ \A location \in Locations :
          /\ location.candidates \in Seq(Candidates)
          /\ location.mode \in {"first", "create_parent", "first_existing", "required",
                                "first_existing_parent"}
    /\ Appendices \cup NewPaths \subseteq Seq(PathParts)

ASSUME TextsAssumption ==
    /\ \A text \in Texts : text \in Seq(Lines) /\ LinesEnd(text) /\ Readable(text)
    /\ \A desired \in DesiredBlocks : desired \in Seq(Entries) /\ SingleLines(desired)

ASSUME EnvAssumption ==
    /\ EntryLists \subseteq Seq(EntryRecords)
    /\ \A environ \in Environs : /\ DOMAIN environ \subseteq Names
                                 /\ \A name \in DOMAIN environ : environ[name] \in Values

VARIABLE input

Init == input = [about |-> "nothing", whole |-> FALSE]

\* The second half of an input is there.
Complete(about) == input.about = about /\ input.whole

Choose(about, objects) ==
    /\ input.about = "nothing"
    /\ \E object \in objects : input' = [about |-> about, whole |-> FALSE, object |-> object]

With(about) == input.about = about /\ ~input.whole

ChooseScope == Choose("scopes", Scopes)
CompareScopes ==
    /\ With("scopes")
    /\ \E scope \in Scopes :
          input' = [about |-> "scopes", whole |-> TRUE, left |-> input.object, right |-> scope]

ChooseLines == Choose("lines", Texts)
WriteBlockTwice ==
    /\ With("lines")
    /\ \E id \in BlockIds, first, second \in DesiredBlocks :
          input' = [about |-> "lines", whole |-> TRUE, text |-> input.object,
                    id |-> id, first |-> first, second |-> second]

ChooseEntries == Choose("env", EntryLists)
ResolveEntries ==
    /\ With("env")
    /\ \E environ \in Environs, shell \in Shells \cup {AnyShell}, path \in OtherPaths :
          input' = [about |-> "env", whole |-> TRUE, entries |-> input.object,
                    environ |-> environ, shell |-> shell, path |-> path]

ChooseTarget == Choose("targets", FileTargets)
CompareTargets ==
    /\ With("targets")
    /\ \E target \in FileTargets :
          input' = [about |-> "targets", whole |-> TRUE, left |-> input.object, right |-> target]

ChooseLocation == Choose("location", Locations)
ResolveAgain ==
    /\ With("location")
    /\ \E files \in FileSystems, append \in Appendices, created \in NewPaths :
          input' = [about |-> "location", whole |-> TRUE, location |-> input.object, files |-> files,
                    append |-> append, created |-> created]

Next ==
    \/ ChooseScope \/ CompareScopes
    \/ ChooseLines \/ WriteBlockTwice
    \/ ChooseEntries \/ ResolveEntries
    \/ ChooseTarget \/ CompareTargets
    \/ ChooseLocation \/ ResolveAgain

Spec == Init /\ [][Next]_input

-----------------------------------------------------------------------------

ClaimedPlaces == PlacesOver(ScopePaths, ScopeKeys, ScopeBlocks)

\* claims_overlap says yes exactly when the two claims have a place in common or
\* would treat one file as a document and as text: no two owners can be given the
\* same place, and none is refused a place that is free (claim_scopes.py).
OverlapIsSharedPlace ==
    Complete("scopes") =>
        (Overlap(input.left, input.right) <=> SharedPlace(input.left, input.right, ClaimedPlaces))

\* A managed block reads back as it was written whatever stands around it, and rollback
\* gives back the text, up to the end of its last line (adapters/line.py).
BlocksAreUndone ==
    Complete("lines") =>
        /\ BlockSettles(input.text, input.id, input.first)
        /\ BlockUndone(input.text, input.id, input.first, input.second)

\* The entries that are for the shell refer to earlier ones and wait for nothing.
InOrder == Ordered(ActiveEntries(input.entries, input.environ, input.shell))

\* The block of a shell profile does not change when the next apply runs in a shell that
\* has sourced it, or in a process with any other PATH (orchestrator.py, shell.py).
EnvBlockSettles ==
    Complete("env") /\ InOrder => EnvSettles(input.entries, input.environ, input.shell, input.path)

\* A shell that sources the block gets the variables and the PATH that _resolve_env
\* computes, two computations of the same merge, and sourcing it again changes nothing,
\* in any order of the entries, as long as no edit of PATH is a list of directories itself.
EnvBlockIsResolved ==
    Complete("env") /\ SingleDirectories(ShellBlock(input.entries, input.environ, input.shell)) =>
        SourcedAsResolved(input.entries, input.environ, input.shell)

\* Two targets for one path with the same priority pass the check at load only if no
\* machine activates both, but for WSL, which is linux too (spec.py, orchestrator.py).
AlternativesAreExclusive ==
    Complete("targets") =>
        \A machine \in Machines : AlternativesExclude(input.left, input.right, machine)

\* A location or a list of candidate paths leads to the same path again after apply has
\* created it, whatever else has appeared behind it (spec.py, _resolve_location).
LocationsAreStable ==
    Complete("location") =>
        SelectedStays(input.location, input.append, Here, input.files, input.created)
=============================================================================
