---------------------------- MODULE TargetSelection ----------------------------
(***************************************************************************)
(* Which targets of a spec are for this machine, which of them a spec may  *)
(* hold side by side, and which path a target with several candidates is   *)
(* resolved to.                                                            *)
(*                                                                         *)
(* Selectors are sets; an empty one selects every machine.  A path is a    *)
(* sequence of names, and a file system is the function from the paths     *)
(* that exist to "file" or "dir".  Symbolic links are left out.            *)
(***************************************************************************)
EXTENDS Naturals, SequencesExt

CONSTANTS All, Unresolved

(* Conditions *)

\* PLATFORM_MATCHERS: a machine with WSL is a linux machine as well.
PlatformMatches(selectors, machine) ==
    \/ selectors = {}
    \/ machine.platform \in selectors
    \/ machine.platform = "wsl" /\ "linux" \in selectors

Selects(selectors, value) == selectors = {} \/ selectors \cap {value, All} # {}

\* condition_skip_reason, of a target and also of a candidate of a location.  Tags, which
\* only narrow the choice, and if_env_missing, which files do not have, are left out.
Matches(target, machine) ==
    /\ PlatformMatches(target.platforms, machine)
    /\ Selects(target.arch, machine.arch)
    /\ Selects(target.machine, machine.name)
    /\ target.commands \subseteq machine.commands

ValuesOverlap(left, right) ==
    left = {} \/ right = {} \/ All \in left \cup right \/ left \cap right # {}

\* Mutant: one selector that tells two targets apart has to do so on its own.
FileTargetsOverlapInAll(left, right) ==
    /\ ValuesOverlap(left.platforms, right.platforms)
    /\ left.arch = right.arch /\ left.machine = right.machine

FileTargetsOverlap(left, right) ==
    /\ ValuesOverlap(left.platforms, right.platforms)
    /\ ValuesOverlap(left.arch, right.arch)
    /\ ValuesOverlap(left.machine, right.machine)

\* _validate_no_duplicate_overlapping_files, for two targets with the same path.
MayStandTogether(left, right) == left.priority # right.priority \/ ~FileTargetsOverlap(left, right)

\* _resolve_active_files: the best priority, then the first in the spec.
ActiveFile(targets, machine) ==
    LET active == {n \in DOMAIN targets : Matches(targets[n], machine)}
        best == {n \in active : \A m \in active : targets[n].priority <= targets[m].priority}
    IN  IF active = {} THEN Unresolved ELSE targets[Min(best)]

-----------------------------------------------------------------------------
(* Paths *)

Parent(path) == Front(path)
Exists(path, files) == path = <<>> \/ path \in DOMAIN files

\* The candidates that exist, and those with a directory to stand in, by their places.
Existing(paths, files) == {n \in DOMAIN paths : Exists(paths[n], files)}
Sheltered(paths, files) == {n \in DOMAIN paths : Exists(Parent(paths[n]), files)}

First(paths, places) == paths[Min(places)]

\* Mutant: the first path with a parent, whether another one exists or not.
PreferredByParent(paths, files) ==
    LET near == Existing(paths, files) \cup Sheltered(paths, files)
    IN  First(paths, IF near # {} THEN near ELSE DOMAIN paths)

\* _resolve_target_path, _resolve_asset_dest_path and mode "first_existing_parent".
Preferred(paths, files) ==
    CASE Existing(paths, files) # {} -> First(paths, Existing(paths, files))
      [] Existing(paths, files) = {} /\ Sheltered(paths, files) # {} ->
            First(paths, Sheltered(paths, files))
      [] Existing(paths, files) = {} /\ Sheltered(paths, files) = {} -> First(paths, DOMAIN paths)

KindFits(kind, path, files) ==
    path \in DOMAIN files => kind = "any" \/ files[path] = kind

\* The paths of the active candidates, at their places in the location.
CandidatePaths(location, machine) ==
    [n \in {n \in DOMAIN location.candidates : Matches(location.candidates[n], machine)} |->
        location.candidates[n].path]

\* _resolve_location: every active candidate has to be of the kind, chosen or not.
ResolveLocation(location, machine, files) ==
    LET paths == CandidatePaths(location, machine)
        existing == Existing(paths, files)
    IN  IF \/ DOMAIN paths = {}
           \/ \E n \in DOMAIN paths : ~KindFits(location.kind, paths[n], files)
           \/ location.mode \in {"first_existing", "required"} /\ existing = {}
        THEN Unresolved
        ELSE CASE location.mode \in {"first", "create_parent"} -> First(paths, DOMAIN paths)
               [] location.mode \in {"first_existing", "required"} -> First(paths, existing)
               [] location.mode = "first_existing_parent" -> Preferred(paths, files)

\* _resolve_target_from_spec, of a location with path_append.
ResolveTarget(location, append, machine, files) ==
    LET base == ResolveLocation(location, machine, files)
    IN  IF base = Unresolved THEN Unresolved ELSE base \o append

\* What apply makes of a path: a file, and directories above it, unless a file is there.
CanBeCreated(path, files) ==
    \A n \in 1 .. Len(path) - 1 : SubSeq(path, 1, n) \in DOMAIN files => files[SubSeq(path, 1, n)] = "dir"

Created(path, files) ==
    [p \in DOMAIN files \cup {SubSeq(path, 1, n) : n \in 1 .. Len(path)} |->
        IF p \in DOMAIN files THEN files[p] ELSE IF p = path THEN "file" ELSE "dir"]

-----------------------------------------------------------------------------
(* What the selection is for *)

\* Of the targets of one path and priority that a spec may hold, a machine activates one
\* at most, but for one that is for linux and another one that is for wsl.
AlternativesExclude(left, right, machine) ==
    left.priority = right.priority /\ MayStandTogether(left, right)
        /\ Matches(left, machine) /\ Matches(right, machine) =>
            /\ machine.platform = "wsl"
            /\ {left.platforms \cap {"linux", "wsl"}, right.platforms \cap {"linux", "wsl"}} = {{"linux"}, {"wsl"}}

\* A target that was written is found at the same path again, also when other files and
\* directories have appeared in the meantime; only a candidate before it may get in its
\* way, by existing itself, or one that is of the wrong kind.
SelectedStays(location, append, machine, files, other) ==
    LET path == ResolveTarget(location, append, machine, files)
        later == Created(other, Created(path, files))
        base == SubSeq(path, 1, Len(path) - Len(append))
        paths == CandidatePaths(location, machine)
        inTheWay == {n \in DOMAIN paths : /\ paths[n] \in DOMAIN later \ DOMAIN files
                                          /\ \/ ~KindFits(location.kind, paths[n], later)
                                             \/ base \notin {paths[m] : m \in DOMAIN paths \cap 1 .. n}}
    IN  path # Unresolved /\ CanBeCreated(path, files) /\ inTheWay = {} =>
            ResolveTarget(location, append, machine, later) = path
=============================================================================
