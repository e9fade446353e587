----------------------------- MODULE DocumentPlan -----------------------------
(***************************************************************************)
(* How a desired state becomes operations on a TOML, YAML or JSONC         *)
(* document, how these are carried out, and how rollback undoes them.      *)
(*                                                                         *)
(* A mapping is a function from literal keys to scalars and mappings.  A   *)
(* literal key is a sequence of words, longer than one when the key itself *)
(* holds dots ("editor.fontSize" in settings.json); a dotted key is a      *)
(* sequence of words too, which may lead through mappings or through such  *)
(* flat keys.  An address is a sequence of literal keys.                   *)
(***************************************************************************)
EXTENDS Naturals, SequencesExt

CONSTANTS Scalars, Missing, Failed

Nothing == <<>>   \* the mapping without keys

IsMapping(value) == value \notin Scalars \cup {Missing, Failed}

Splits(key) == 1 .. Len(key) - 1
First(key, n) == SubSeq(key, 1, n)
Rest(key, n) == SubSeq(key, n + 1, Len(key))
Longest(splits) == CHOOSE n \in splits : \A m \in splits : m <= n

\* The entry with a literal key is put there; Missing takes it away.
Entry(mapping, key, value) ==
    IF value = Missing
    THEN [k \in DOMAIN mapping \ {key} |-> mapping[k]]
    ELSE [k \in DOMAIN mapping \cup {key} |-> IF k = key THEN value ELSE mapping[k]]

-----------------------------------------------------------------------------
(* Where a dotted key leads *)

\* Mutant: a dotted key is looked up word by word, never as a flat key.
LookupNested(node, key) ==
    LET RECURSIVE Below(_, _)
        Below(value, rest) ==
            IF rest = <<>> THEN value
            ELSE IF ~IsMapping(value) THEN Missing
            ELSE IF <<Head(rest)>> \notin DOMAIN value THEN Missing
            ELSE Below(value[<<Head(rest)>>], Tail(rest))
    IN  Below(node, key)

RECURSIVE Lookup(_, _)

\* mapping_value: flat keys first, the longest prefix that leads to a value.
Lookup(node, key) ==
    IF ~IsMapping(node) THEN Missing
    ELSE IF key \in DOMAIN node THEN node[key]
    ELSE LET Below(n) == Lookup(node[First(key, n)], Rest(key, n))
             leading == {n \in Splits(key) : First(key, n) \in DOMAIN node /\ Below(n) # Missing}
         IN  IF leading = {} THEN Missing ELSE Below(Longest(leading))

RECURSIVE KeyParts(_, _)

\* mapping_key_parts: the address of a dotted key that leads to a value.
KeyParts(node, key) ==
    IF key \in DOMAIN node THEN <<key>>
    ELSE LET n == Longest({m \in Splits(key) : /\ First(key, m) \in DOMAIN node
                                               /\ Lookup(node[First(key, m)], Rest(key, m)) # Missing})
         IN  <<First(key, n)>> \o KeyParts(node[First(key, n)], Rest(key, n))

Nested(key) == [n \in 1 .. Len(key) |-> <<key[n]>>]

RECURSIVE Place(_, _)

\* resolve_parent: the address a value is written to; the longest prefix that is a
\* mapping is taken, whether the key leads to a value below it or not.
Place(node, key) ==
    IF key \in DOMAIN node THEN <<key>>
    ELSE LET mappings == {n \in Splits(key) : /\ First(key, n) \in DOMAIN node
                                              /\ IsMapping(node[First(key, n)])}
             n == Longest(mappings)
         IN  IF mappings = {} THEN Nested(key)
             ELSE <<First(key, n)>> \o Place(node[First(key, n)], Rest(key, n))

RECURSIVE ValueAt(_, _)

ValueAt(node, address) ==
    IF address = <<>> THEN node
    ELSE IF ~IsMapping(node) THEN Missing
    ELSE IF Head(address) \notin DOMAIN node THEN Missing
    ELSE ValueAt(node[Head(address)], Tail(address))

RECURSIVE Put(_, _, _)

\* Mappings on the way are created; a scalar on the way is an error.
Put(node, address, value) ==
    LET key == Head(address)
        below == IF key \in DOMAIN node THEN node[key] ELSE Nothing
        changed == Put(below, Tail(address), value)
    IN  IF ~IsMapping(node) THEN Failed
        ELSE IF Len(address) = 1 THEN Entry(node, key, value)
        ELSE IF changed = Failed THEN Failed ELSE Entry(node, key, changed)

-----------------------------------------------------------------------------
(* Planner *)

SetOperation(key, value, parents) ==
    [kind |-> "set", key |-> key, value |-> value, before |-> Missing,
     parents |-> parents, address |-> <<>>]
UpdateOperation(key, value, before) ==
    [kind |-> "update", key |-> key, value |-> value, before |-> before,
     parents |-> {}, address |-> <<>>]
DeleteOperation(key, before, address) ==
    [kind |-> "delete", key |-> key, value |-> Missing, before |-> before,
     parents |-> {}, address |-> address]

\* Mutant: the parents of a dotted key are never counted as new.
NoMissingParents(node, key, prefix) == {}

\* _missing_parent_keys: at the top below a flat prefix or from the root, inside a
\* mapping always from there, word by word.
MissingParents(node, key, prefix) ==
    LET flat == {n \in Splits(key) : /\ prefix = <<>>
                                     /\ First(key, n) \in DOMAIN node
                                     /\ IsMapping(node[First(key, n)])}
        n == IF flat = {} THEN 0 ELSE Longest(flat)
        start == IF n = 0 THEN node ELSE node[First(key, n)]
        new == {m \in Splits(key) : m > n /\ ValueAt(start, Nested(SubSeq(key, n + 1, m))) = Missing}
    IN  {prefix \o First(key, m) : m \in new}

RECURSIVE DiffMapping(_, _, _)

\* _diff_mapping: dotted keys are looked up from the root, at the top only; any other
\* key, also a dotted one inside a mapping, stands literally where it is looked for.
DiffMapping(node, desired, prefix) ==
    LET Compared(key, current) ==
            IF current = desired[key] THEN <<>>
            ELSE <<UpdateOperation(prefix \o key, desired[key], current)>>
        Added(key) ==
            <<SetOperation(prefix \o key, desired[key], MissingParents(node, key, prefix))>>
        For(key) ==
            IF prefix = <<>> /\ Len(key) > 1
            THEN IF Lookup(node, key) = Missing THEN Added(key)
                 ELSE Compared(key, Lookup(node, key))
            ELSE IF key \notin DOMAIN node THEN Added(key)
            ELSE IF IsMapping(desired[key]) /\ IsMapping(node[key])
                 THEN DiffMapping(node[key], desired[key], prefix \o key)
            ELSE Compared(key, node[key])
    IN  FlattenSeq([n \in 1 .. Cardinality(DOMAIN desired) |->
                        For(SetToSeq(DOMAIN desired)[n])])

\* _plan_deletions, looked up before any operation is carried out.
Deletions(root, keys) ==
    LET there == SelectSeq(keys, LAMBDA key : Lookup(root, key) # Missing)
    IN  [n \in DOMAIN there |->
            DeleteOperation(there[n], Lookup(root, there[n]), KeyParts(root, there[n]))]

Plan(root, desired) ==
    DiffMapping(root, desired.data, <<>>) \o Deletions(root, desired.delete)

-----------------------------------------------------------------------------
(* Apply *)

\* One operation; a deletion of what is not there any more is an error.
Carry(operation, root) ==
    IF root = Failed THEN Failed
    ELSE LET place == Place(root, operation.key)
         IN  IF operation.kind = "delete" /\ ValueAt(root, place) = Missing THEN Failed
             ELSE Put(root, place, operation.value)

Applied(root, operations) == FoldLeft(LAMBDA r, operation : Carry(operation, r), root, operations)

-----------------------------------------------------------------------------
(* Rollback *)

\* _delete_if_empty_dict
PruneIfEmpty(root, key) ==
    LET place == Place(root, key)
    IN  IF Lookup(root, key) # Nothing \/ ValueAt(root, place) \notin {Nothing, Missing} THEN root
        ELSE Put(root, place, Missing)

\* delete_mapping_value, with the emptied parents, the deepest first.
DeleteValue(root, key, parents) ==
    IF Lookup(root, key) = Missing THEN root
    ELSE FoldLeft(PruneIfEmpty, Put(root, Place(root, key), Missing),
                  SetToSortSeq(parents, LAMBDA p, q : Len(p) > Len(q)))

\* A deleted value goes back to its own address unless something is in the way.
RestoreDeleted(root, operation) ==
    IF ValueAt(root, operation.address) # Missing \/ Put(root, operation.address, operation.before) = Failed
    THEN root
    ELSE Put(root, operation.address, operation.before)

\* Mutant: what the user has changed is reverted as well.
RevertAlways(root, operation) ==
    CASE operation.kind = "set" -> DeleteValue(root, operation.key, operation.parents)
      [] operation.kind = "update" -> Put(root, Place(root, operation.key), operation.before)
      [] operation.kind = "delete" -> RestoreDeleted(root, operation)

\* _rollback_mapping without a resolver: a key that is not as it was left is skipped.
Revert(root, operation) ==
    LET asLeft == Lookup(root, operation.key) = operation.value
    IN  CASE operation.kind = "set" ->
               IF asLeft THEN DeleteValue(root, operation.key, operation.parents) ELSE root
          [] operation.kind = "update" ->
               IF asLeft THEN Put(root, Place(root, operation.key), operation.before) ELSE root
          [] operation.kind = "delete" -> RestoreDeleted(root, operation)

Undone(root, operations) == FoldLeft(Revert, root, Reverse(operations))

-----------------------------------------------------------------------------
(* What these operations are for *)

RECURSIVE Addresses(_)

\* The addresses of all values in a document.
Addresses(node) ==
    IF ~IsMapping(node) THEN {}
    ELSE UNION {{<<key>>} \cup {<<key>> \o below : below \in Addresses(node[key])}
                    : key \in DOMAIN node}

\* No dotted key, and no part of one, stands for two places of the document: settings
\* are written flat or nested, but not both ways.
Plain(root) ==
    \A p, q \in Addresses(root) : IsPrefix(FlattenSeq(p), FlattenSeq(q)) => IsPrefix(p, q)

\* Keys with dots stand at the top of the document only.
FlatOnTop(root) == \A p \in Addresses(root) : \A n \in 2 .. Len(p) : Len(p[n]) = 1

RECURSIVE Unread(_, _)

\* The keys below a mapping of both the document and the desired data that hold dots and
\* do not stand there literally: the planner does not see where they are written.
Unread(node, desired) ==
    UNION {LET below == IF IsMapping(node[key]) /\ IsMapping(desired[key])
                        THEN DOMAIN desired[key] ELSE {}
           IN  {key \o k : k \in {k \in below : Len(k) > 1 /\ k \notin DOMAIN node[key]}}
                  \cup (IF below = {} THEN {}
                        ELSE {key \o k : k \in Unread(node[key], desired[key])})
              : key \in DOMAIN node \cap DOMAIN desired}

\* At the top of the document a dotted key is looked up, and its value compared whole.
UnreadKeys(root, data) ==
    Unread(root, [key \in {k \in DOMAIN data : Len(k) = 1} |-> data[key]])

\* A plan that was carried out is not planned again, unless it has a key that is never
\* found: that one is planned again and again.
Settles(root, desired) ==
    LET after == Applied(root, Plan(root, desired))
    IN  after # Failed /\ Plain(after) =>
            (Plan(after, desired) = <<>> <=> UnreadKeys(root, desired.data) = {})

\* A value is already there under a key that the planner does not find.
Overlooked(root, desired) ==
    \E key \in UnreadKeys(root, desired.data) : Lookup(root, key) # Missing

\* Undoing what two applies have recorded gives back the first document, if neither has
\* taken a value that was there for a new one.
UndoGivesBack(root, first, second) ==
    LET batch1 == Plan(root, first)
        after1 == Applied(root, batch1)
        batch2 == Plan(after1, second)
        after2 == Applied(after1, batch2)
        readable == after1 # Failed /\ Plain(after1) /\ after2 # Failed /\ Plain(after2)
    IN  readable /\ ~Overlooked(root, first) /\ ~Overlooked(after1, second) =>
            Undone(Undone(after2, batch2), batch1) = root

\* A value that a user puts into the file or takes away after apply is still so after
\* rollback.
EditSurvives(root, desired, address, value) ==
    LET batch == Plan(root, desired)
        after == Applied(root, batch)
        edited == Put(after, address, value)
    IN  after # Failed /\ Plain(after) /\ edited # Failed /\ Plain(edited) /\ edited # after =>
            ValueAt(Undone(edited, batch), address) = value
=============================================================================
