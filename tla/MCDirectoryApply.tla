--------------------------- MODULE MCDirectoryApply ---------------------------
(* Two specs with up to two targets for one file each, so that every target competes
   with others; the second target of a spec is the one of the better priority. *)
EXTENDS DirectoryApply, Sequences

CONSTANTS f, k, l, c

FileTarget(priority, keys, needs) == [file |-> f, priority |-> priority, keys |-> keys, needs |-> needs]

Single == {FileTarget(p, keys, needs) : p \in {0, 10}, keys \in {{k}, {l}}, needs \in {{}, {c}}}

MCSpecContents ==
    {<<>>} \cup {<<t>> : t \in Single}
        \cup {<<t, u>> : t \in {x \in Single : x.priority = 10}, u \in {x \in Single : x.priority = 0}}
=============================================================================
