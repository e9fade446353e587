------------------------------ MODULE JsoncEdit ------------------------------
(***************************************************************************)
(* How a JSONC file is rewritten: the changes between the loaded document  *)
(* and the wanted one become edits of the text, one key after the other.   *)
(*                                                                         *)
(* The text of an object is a record: what stands behind its opening brace *)
(* up to the first key, and its properties, each with what stands behind   *)
(* its value up to the next key or the closing brace.  These stretches are *)
(* sequences of comments and commas; blanks and line ends are left out.    *)
(* Arrays count as scalars, since they are replaced as a whole.            *)
(***************************************************************************)
EXTENDS Naturals, SequencesExt

CONSTANTS Scalars, Comma, Missing, Failed

Object(open, properties) == [open |-> open, properties |-> properties]
Property(key, value, rest) == [key |-> key, value |-> value, rest |-> rest]

KeyOf(text, n) == text.properties[n].key
Places(text, key) == {n \in DOMAIN text.properties : KeyOf(text, n) = key}
KeysIn(text) == {KeyOf(text, n) : n \in DOMAIN text.properties}

Commas(stretch) == {n \in DOMAIN stretch : stretch[n] = Comma}

RECURSIVE WellFormed(_)

\* What the parser accepts: one comma between two properties, at most one after the last.
WellFormed(text) ==
    \/ text \in Scalars
    \/ /\ Commas(text.open) = {}
       /\ \A n \in DOMAIN text.properties :
            LET commas == Cardinality(Commas(text.properties[n].rest))
            IN  /\ IF n = Len(text.properties) THEN commas <= 1 ELSE commas = 1
                /\ WellFormed(text.properties[n].value)

RECURSIVE DataOf(_)

\* parse_jsonc: json.loads keeps the last of several equal keys.
DataOf(text) ==
    IF text \in Scalars THEN text
    ELSE [key \in KeysIn(text) |-> DataOf(text.properties[Max(Places(text, key))].value)]

RECURSIVE Rendered(_)

\* _render_value
Rendered(value) ==
    IF value \in Scalars THEN value
    ELSE LET keys == SetToSeq(DOMAIN value)
         IN  Object(<<>>, [n \in DOMAIN keys |->
                 Property(keys[n], Rendered(value[keys[n]]), IF n = Len(keys) THEN <<>> ELSE <<Comma>>)])

-----------------------------------------------------------------------------
(* The edits of one text *)

SetValue(text, n, value) == [text EXCEPT !.properties[n].value = value]

\* Mutant: the comma of the last property is kept in front of the new one.
InsertBehindComma(text, key, value) ==
    LET last == Len(text.properties)
    IN  IF text.properties = <<>> THEN Object(<<>>, <<Property(key, value, <<>>)>>)
        ELSE [text EXCEPT !.properties =
                Append([@ EXCEPT ![last].rest = SelectSeq(@, LAMBDA t : t = Comma) \o <<Comma>>],
                       Property(key, value, <<>>))]

\* A new property goes to the end; what stood before the closing brace goes away.
Insert(text, key, value) ==
    LET last == Len(text.properties)
    IN  IF text.properties = <<>> THEN Object(<<>>, <<Property(key, value, <<>>)>>)
        ELSE [text EXCEPT !.properties = Append([@ EXCEPT ![last].rest = <<Comma>>],
                                                Property(key, value, <<>>))]

\* _delete_property: from the end of the property before it, or from the brace.
Delete(text, n) ==
    IF Len(text.properties) = 1 \/ n = 1 THEN Object(<<>>, Tail(text.properties))
    ELSE Object(text.open,
                RemoveAt([text.properties EXCEPT ![n - 1].rest = text.properties[n].rest], n))

\* _modify_object edits the first of several equal keys.
ModifyObject(text, key, value) ==
    IF key \in KeysIn(text)
    THEN LET n == Min(Places(text, key))
         IN  IF value = Missing THEN Delete(text, n) ELSE SetValue(text, n, Rendered(value))
    ELSE Insert(text, key, Rendered(value))

RECURSIVE ModifyText(_, _, _)

\* modify_text, down to the parent by find_node_at_location.
ModifyText(text, path, value) ==
    IF text = Failed \/ text \in Scalars THEN Failed
    ELSE IF Len(path) = 1 THEN ModifyObject(text, Head(path), value)
    ELSE IF Head(path) \notin KeysIn(text) THEN Failed
    ELSE LET n == Min(Places(text, Head(path)))
             below == ModifyText(text.properties[n].value, Tail(path), value)
         IN  IF below = Failed THEN Failed ELSE SetValue(text, n, below)

-----------------------------------------------------------------------------
(* The changes to make *)

Change(path, value) == [path |-> path, value |-> value]

RECURSIVE DiffPaths(_, _, _)

\* diff_paths: keys that are gone first, then keys that are new or differ.
DiffPaths(original, current, prefix) ==
    IF original \in Scalars \/ current \in Scalars
    THEN IF original = current THEN <<>> ELSE <<Change(prefix, current)>>
    ELSE LET gone == SetToSeq(DOMAIN original \ DOMAIN current)
             wanted == SetToSeq(DOMAIN current)
             For(key) == IF key \in DOMAIN original
                         THEN DiffPaths(original[key], current[key], Append(prefix, key))
                         ELSE <<Change(Append(prefix, key), current[key])>>
         IN  [n \in DOMAIN gone |-> Change(Append(prefix, gone[n]), Missing)]
                 \o FlattenSeq([n \in DOMAIN wanted |-> For(wanted[n])])

\* JsoncAdapter.dump of a document that was loaded from a text.
Dumped(text, current) ==
    FoldLeft(LAMBDA t, change : ModifyText(t, change.path, change.value), text,
             DiffPaths(DataOf(text), current, <<>>))

-----------------------------------------------------------------------------
(* What the edits are for *)

RECURSIVE NoKeyTwice(_)

NoKeyTwice(text) ==
    text \in Scalars \/ \A n \in DOMAIN text.properties :
        Places(text, KeyOf(text, n)) = {n} /\ NoKeyTwice(text.properties[n].value)

\* The new text can be parsed and says what was wanted.
SaysWhatIsWanted(text, current) ==
    LET new == Dumped(text, current)
    IN  new # Failed /\ WellFormed(new) /\ DataOf(new) = current

RECURSIVE KeptBeside(_, _)

\* Where no key comes or goes, what stands between two properties stays, comments
\* included, at every depth of the text.
KeptBeside(old, new) ==
    IF old \in Scalars \/ new \in Scalars THEN TRUE
    ELSE /\ KeysIn(old) = KeysIn(new) => new.open = old.open
         /\ \A m \in DOMAIN old.properties, n \in DOMAIN new.properties :
              LET was == old.properties[m]  is == new.properties[n]
                  sameFollows == \/ m = Len(old.properties) /\ n = Len(new.properties)
                                 \/ /\ m < Len(old.properties) /\ n < Len(new.properties)
                                    /\ KeyOf(old, m + 1) = KeyOf(new, n + 1)
              IN  was.key = is.key =>
                    KeptBeside(was.value, is.value) /\ (sameFollows => is.rest = was.rest)
=============================================================================
