---------------------------- MODULE MCAlgorithms ----------------------------
(***************************************************************************)
(* The inputs of the algorithms that TLC goes through: every one of a few  *)
(* small shapes.  To the inputs that Algorithms chooses come documents and *)
(* JSONC texts, whose algorithms are recursive.                            *)
(***************************************************************************)
EXTENDS Algorithms

CONSTANTS a, b, l, m, p, q, x, y, shell, other, m1, m2, c, d, note, Scalars, Comma, Missing, Failed

Documents == INSTANCE MCDocumentPlan
Jsonc == INSTANCE MCJsoncEdit

(* Scopes over a few paths, keys, blocks and variables *)

\* Bound: paths and addresses of one or two parts.
Depth == 2

MCScopePaths == UNION {[1 .. n -> {a, b}] : n \in 1 .. Depth}

MCScopeKeys == UNION {[1 .. n -> KeyWords] : n \in 1 .. Depth}

MCScopeBlocks == [1 .. 1 -> KeyWords]

MCScopes ==
    [type : {"file"}, path : MCScopePaths, address : MCScopeKeys]
        \cup [type : {"line", "shell"}, path : MCScopePaths, address : MCScopeBlocks]
        \cup [type : {"asset"}, path : MCScopePaths, address : {Tree, <<"file">>}]
        \cup [type : {"env"}, path : [1 .. 1 -> {a, b}], address : {<<"value">>}]

(* Files of up to four lines with the markers of two blocks, and desired entries that
   look like a marker as well *)

MCBlockIds == {p, q}

MCBodies == {Plain(x), Plain(y)} \cup {BeginOf(id) : id \in MCBlockIds} \cup {EndOf(id) : id \in MCBlockIds}

\* Bound: the number of lines.
Length == 4

MCTexts ==
    {text \in {[n \in DOMAIN bodies |-> [body |-> bodies[n], ended |-> n < Len(bodies) \/ ended]] :
                  bodies \in UNION {[1 .. length -> MCBodies \ {Plain(y)}] : length \in 0 .. Length},
                  ended \in BOOLEAN} :
        Readable(text)}

MCDesiredBlocks ==
    UNION {[1 .. length -> {Entry(<<body>>, FALSE) : body \in {Plain(x), Plain(y), BeginOf(q)}}] :
              length \in 0 .. 2}

(* Lists of up to three entries for two variables and PATH, in processes with and without
   them, for two shells that some entries are not for *)

MCNames == {a, b, Path}

MCParts == {l, m, Separator} \cup {Ref(name) : name \in MCNames}

Variable(name, value, prepend, append, shells) ==
    [name |-> name, value |-> value, prepend |-> prepend, append |-> append,
     ifMissing |-> FALSE, shells |-> shells]

Lists == {<<>>, <<<<l>>>>, <<<<Ref(a)>>, <<l>>>>, <<<<Ref(b)>>, <<m>>>>}

FirstEntries ==
    {Variable(name, value, <<>>, <<>>, {}) : name \in {a, b}, value \in {<<l>>, <<Ref(a)>>, <<l, Ref(b)>>}}
        \cup {Variable(a, <<m>>, <<>>, <<>>, {other}), Variable(b, <<m>>, <<<<Ref(b)>>>>, <<>>, {shell})}
        \cup {[Variable(a, <<l>>, <<<<m>>>>, <<>>, {}) EXCEPT !.ifMissing = TRUE]}
        \cup {Variable(Path, value, <<>>, <<>>, {}) : value \in {<<l, Separator, m>>, <<Ref(a), Separator, l>>}}
        \cup {Variable(Path, NoValue, prepend, append, {}) : prepend, append \in Lists}

\* Bound: three entries, the last one an edit of PATH.
MoreEntries ==
    {<<>>} \cup [1 .. 1 -> FirstEntries]
        \cup {<<first, second>> : first \in FirstEntries,
                 second \in {Variable(Path, NoValue, <<<<Ref(a)>>, <<l>>>>, append, {}) :
                                append \in {<<>>, <<<<Ref(b)>>>>}}}

MCEntryLists == {<<entry>> \o more : entry \in FirstEntries, more \in MoreEntries}

EnvPaths == {<<>>, <<m>>, <<m, l, Separator, Separator, l, Separator, l>>}

MCEnvirons ==
    {[name \in {} |-> <<>>]} \cup {[name \in {Path} |-> path] : path \in EnvPaths}
        \cup {[name \in {Path, a} |-> IF name = a THEN <<m>> ELSE path] : path \in EnvPaths}

MCOtherPaths == {<<l, Separator, m>>}

(* Targets with every combination of a few selectors, and locations with candidates that
   lie beside and below one another *)

MCMachines == [platform : {"linux", "wsl", "macos"}, arch : {"arm64", "x86"}, name : {m1, m2}, commands : {{}}]

MCFileTargets ==
    [platforms : SUBSET {"linux", "wsl", "macos"}, arch : {{}, {"arm64"}, {"x86"}, {"arm64", "x86"}, {All}},
     machine : {{}, {m1}, {m2}, {All}}, commands : {{}}, priority : {0}]

MCHere == [platform |-> "linux", arch |-> "arm64", name |-> m1, commands |-> {}]

Candidate(path, platforms) ==
    [path |-> path, platforms |-> platforms, arch |-> {}, machine |-> {}, commands |-> {}]

MCNewPaths == {<<a>>, <<b>>, <<a, x>>, <<b, x>>, <<a, x, x>>}

MCAppendices == {<<>>, <<x>>}

MCCandidates ==
    {Candidate(path, {}) : path \in MCNewPaths}
        \cup {Candidate(<<b>>, {"macos"}), Candidate(<<a, x>>, {"wsl"})}

MCLocations ==
    [candidates : [1 .. 1 -> MCCandidates] \cup [1 .. 2 -> MCCandidates]
                     \cup [1 .. 3 -> {Candidate(path, {}) : path \in {<<a>>, <<a, x>>, <<b, x>>}}],
     kind : {"any", "file", "dir"}, mode : {"first_existing_parent", "first_existing", "first"}]

MCFileSystems ==
    {files \in UNION {[paths -> {"dir", "file"}] : paths \in SUBSET {<<a>>, <<b>>, <<a, x>>, <<b, x>>}} :
        \A path \in DOMAIN files : Len(path) = 2 => <<Head(path)>> \in DOMAIN files /\ files[<<Head(path)>>] = "dir"}

-----------------------------------------------------------------------------
(* Documents and JSONC texts *)

ChooseDocument == Choose("document", Documents!Roots)
ApplyTwice ==
    /\ With("document")
    /\ \E first, second \in Documents!Desired :
          input' = [about |-> "two applies", whole |-> TRUE, root |-> input.object, first |-> first, second |-> second]
ApplyAndEdit ==
    /\ With("document")
    /\ \E desired \in Documents!Desired, address \in Documents!EditedAddresses, value \in {Missing, x, y} :
          input' = [about |-> "apply and edit", whole |-> TRUE, root |-> input.object, desired |-> desired,
                    address |-> address, value |-> value]

ChooseText == Choose("jsonc", Jsonc!JsoncTexts)
DumpText ==
    /\ With("jsonc")
    /\ \E wanted \in Jsonc!Wanted :
          input' = [about |-> "jsonc", whole |-> TRUE, text |-> input.object, wanted |-> wanted]

AllNext ==
    \/ Next
    \/ ChooseDocument \/ ApplyTwice \/ ApplyAndEdit
    \/ ChooseText \/ DumpText

AllSpec == Init /\ [][AllNext]_input

-----------------------------------------------------------------------------

\* A second apply of the same desired state finds nothing to do, for documents that
\* write a setting flat or nested, but not both ways (planner.py, apply.py, _util.py).
\* It always finds something again if the desired state has a dotted key inside a mapping
\* that the document has as well, without that very key.
DocumentsSettle ==
    Complete("two applies") /\ Documents!Plain(input.root) =>
        Documents!Settles(input.root, input.first)

\* Undoing the recorded operations of two applies gives back the document, unless flat
\* keys stand inside of mappings (rollback.py, _rollback_mapping) or an apply has taken
\* the value of such a dotted key for a new one.
AppliesAreUndone ==
    Complete("two applies") /\ Documents!Plain(input.root) /\ Documents!FlatOnTop(input.root) =>
        Documents!UndoGivesBack(input.root, input.first, input.second)

\* What a user changes after an apply is not undone with it, other than by a deleted key
\* coming back whose place the user has emptied further (rollback.py, _rollback_mapping).
EditsSurviveRollback ==
    Complete("apply and edit") /\ Documents!Plain(input.root)
        /\ (input.value # Missing \/ input.desired.delete = <<>>) =>
            Documents!EditSurvives(input.root, input.desired, input.address, input.value)

\* A JSONC text without a key that stands twice is rewritten to one that parses and says
\* what is wanted, with the comments kept where no key comes or goes (jsonc.py).
JsoncIsRewritten ==
    Complete("jsonc") /\ Jsonc!NoKeyTwice(input.text) =>
        /\ Jsonc!SaysWhatIsWanted(input.text, input.wanted)
        /\ Jsonc!KeptBeside(input.text, Jsonc!Dumped(input.text, input.wanted))
=============================================================================
