------------------------------- MODULE EnvEdits -------------------------------
(***************************************************************************)
(* How the [[env]] entries of a spec become variables and edits of PATH,   *)
(* how these stand in the block of a shell profile, and what the block     *)
(* does to the environment of a shell that sources it.                     *)
(*                                                                         *)
(* A value is a sequence of literals, separators and references to names.  *)
(* An environment is a function from names to values.  Quoting for the     *)
(* shells, "~" and the spelling of paths are left out.                     *)
(***************************************************************************)
EXTENDS Naturals, SequencesExt

CONSTANTS Names, Path, Separator, Parts, Shells, NoValue, NoEdits, AnyShell

Values == Seq(Parts)

EntryRecords ==
    [name : Names, value : Values \cup {NoValue}, prepend : Seq(Values), append : Seq(Values),
     ifMissing : BOOLEAN, shells : SUBSET Shells]

ASSUME PartsAssumption ==
    /\ Path \in Names /\ Separator \in Parts
    /\ NoValue \notin Values
    /\ NoEdits \notin [prepend : Seq(Values), append : Seq(Values)]

Ref(name) == <<name>>
IsRef(part) == \E name \in Names : part = Ref(name)

\* _expandvars: what is not set stays as it is, what is put in is not expanded again.
Expand(value, env) ==
    FlattenSeq([n \in DOMAIN value |->
        IF IsRef(value[n]) /\ value[n][1] \in DOMAIN env THEN env[value[n][1]] ELSE <<value[n]>>])

\* The elements of a sequence at some places, in their order.
Picked(seq, places) ==
    LET picked[n \in 0 .. Len(seq)] ==
            IF n = 0 THEN <<>>
            ELSE IF n \in places THEN Append(picked[n - 1], seq[n]) ELSE picked[n - 1]
    IN  picked[Len(seq)]

\* The parts before, between and after the separators.
Split(value) ==
    LET split[n \in 0 .. Len(value)] ==
            IF n = 0 THEN <<<<>>>>
            ELSE IF value[n] = Separator THEN Append(split[n - 1], <<>>)
            ELSE [split[n - 1] EXCEPT ![Len(split[n - 1])] = Append(@, value[n])]
    IN  split[Len(value)]

PathEntries(value) == Picked(Split(value), {n \in DOMAIN Split(value) : Split(value)[n] # <<>>})

Joined(entries) ==
    FlattenSeq([n \in DOMAIN entries |->
        IF n = 1 THEN entries[n] ELSE <<Separator>> \o entries[n]])

\* The first of several equal entries stays.
Distinct(entries) ==
    Picked(entries, {n \in DOMAIN entries : \A m \in 1 .. n - 1 : entries[m] # entries[n]})

Without(entries, others) ==
    Picked(entries, {n \in DOMAIN entries : ~Contains(others, entries[n])})

Assigned(env, name, value) ==
    [n \in DOMAIN env \cup {name} |-> IF n = name THEN value ELSE env[n]]

-----------------------------------------------------------------------------
(* Resolving the entries *)

\* condition_matches and the shells of an entry.
Active(entry, environ, shell) ==
    /\ entry.ifMissing => entry.name \notin DOMAIN environ
    /\ shell = AnyShell \/ entry.shells = {} \/ shell \in entry.shells

ActiveEntries(entries, environ, shell) ==
    Picked(entries, {n \in DOMAIN entries : Active(entries[n], environ, shell)})

\* Mutant: values are expanded with the variables of the process alone.
MergeWithProcess(entries, environ) ==
    LET env[n \in 0 .. Len(entries)] ==
            IF n = 0 THEN environ
            ELSE IF entries[n].value = NoValue THEN env[n - 1]
            ELSE Assigned(env[n - 1], entries[n].name, Expand(entries[n].value, environ))
    IN  env[Len(entries)]

\* Values one after the other, each expanded with those before it.
Merge(entries, environ) ==
    LET env[n \in 0 .. Len(entries)] ==
            IF n = 0 THEN environ
            ELSE IF entries[n].value = NoValue THEN env[n - 1]
            ELSE Assigned(env[n - 1], entries[n].name, Expand(entries[n].value, env[n - 1]))
    IN  env[Len(entries)]

\* _resolve_env: the variables, and the edits of PATH unless it has a value of its own.
ResolveEnv(entries, environ, shell, includeCurrentPath) ==
    LET active == ActiveEntries(entries, environ, shell)
        env == Merge(active, environ)
        named == {active[n].name : n \in {m \in DOMAIN active : active[m].value # NoValue}}
        EntriesIn(lists) == FlattenSeq([n \in DOMAIN lists |->
                          [m \in DOMAIN lists[n] |-> Expand(lists[n][m], env)]])
        prepend == Distinct(EntriesIn([n \in DOMAIN active |-> active[n].prepend]))
        append == Without(Distinct(EntriesIn([n \in DOMAIN active |-> active[n].append])), prepend)
        current == IF Path \in DOMAIN env /\ (includeCurrentPath \/ Path \in named)
                   THEN Without(Distinct(PathEntries(env[Path])), prepend \o append) ELSE <<>>
        values == [name \in named |-> env[name]]
    IN  IF prepend \o append = <<>> THEN [vars |-> values, edits |-> NoEdits]
        ELSE [vars |-> Assigned(values, Path, Joined(prepend \o current \o append)),
              edits |-> IF Path \in named THEN NoEdits ELSE [prepend |-> prepend, append |-> append]]

\* _handle_shell, render_shell_block: with edits of PATH its value is left out.
ShellBlock(entries, environ, shell) ==
    LET resolved == ResolveEnv(entries, environ, shell, FALSE)
        names == DOMAIN resolved.vars \ IF resolved.edits = NoEdits THEN {} ELSE {Path}
    IN  [resolved EXCEPT !.vars = [name \in names |-> @[name]]]

-----------------------------------------------------------------------------
(* Sourcing the block *)

\* Mutant: what is managed already stays where it is as well.
RelocateCopies(path, edits) == edits.prepend \o PathEntries(path) \o edits.append

\* _render_path_edits, all shells but cmd.
Relocate(path, edits) ==
    edits.prepend \o Without(PathEntries(path), edits.prepend \o edits.append) \o edits.append

Sourced(environ, block) ==
    LET env == [name \in DOMAIN environ \cup DOMAIN block.vars |->
                   IF name \in DOMAIN block.vars THEN block.vars[name] ELSE environ[name]]
        path == IF Path \in DOMAIN env THEN env[Path] ELSE <<>>
    IN  IF block.edits = NoEdits THEN env
        ELSE Assigned(env, Path, Joined(Relocate(path, block.edits)))

-----------------------------------------------------------------------------
(* What the entries are for *)

References(value) == {value[n][1] : n \in {m \in DOMAIN value : IsRef(value[m])}}

\* Values refer to earlier entries or to variables that no entry sets, and edits of PATH
\* to anything but PATH; no entry waits for its variable to be missing.
Ordered(entries) ==
    LET sets == {n \in DOMAIN entries : entries[n].value # NoValue}
        Within(lists) == UNION {References(lists[m]) : m \in DOMAIN lists}
    IN  /\ \A n \in DOMAIN entries : ~entries[n].ifMissing
        /\ \A n \in DOMAIN entries : Path \notin Within(entries[n].prepend) \cup Within(entries[n].append)
        /\ \A n \in sets : \A name \in References(entries[n].value) :
              /\ name # Path
              /\ (\E m \in sets : entries[m].name = name) => \E m \in sets : m < n /\ entries[m].name = name

\* A block that was sourced is not planned again, whatever PATH the process has then.
EnvSettles(entries, environ, shell, path) ==
    LET block == ShellBlock(entries, environ, shell)
        after == Sourced(environ, block)
    IN  /\ ShellBlock(entries, after, shell) = block
        /\ block.edits # NoEdits => ShellBlock(entries, Assigned(after, Path, path), shell) = block

\* Every edit of PATH is about one directory.
SingleDirectories(block) ==
    block.edits # NoEdits =>
        \A n \in DOMAIN (block.edits.prepend \o block.edits.append) :
            LET entry == (block.edits.prepend \o block.edits.append)[n]
            IN  entry # <<>> /\ ~Contains(entry, Separator)

\* A shell that sources the block, once or twice, has the variables and the PATH that the
\* results of apply name, up to entries that stand there twice.
SourcedAsResolved(entries, environ, shell) ==
    LET block == ShellBlock(entries, environ, shell)
        resolved == ResolveEnv(entries, environ, shell, TRUE).vars
        once == Sourced(environ, block)
    IN  /\ Sourced(once, block) = once
        /\ \A name \in DOMAIN resolved :
              IF name = Path THEN Distinct(PathEntries(once[name])) = Distinct(PathEntries(resolved[name]))
              ELSE once[name] = resolved[name]
=============================================================================
