---------------------------- MODULE MCDocumentPlan ----------------------------
(* Documents over the dotted keys below "a", each with two desired states that are
   applied one after the other, or with one that is applied before a user edits the
   file. *)
EXTENDS DocumentPlan

CONSTANTS a, b, c, d, x, y

A == <<a>>    AB == <<a, b>>    ABC == <<a, b, c>>    AD == <<a, d>>    ABCD == <<a, b, c, d>>

Map(key, value) == [k \in {key} |-> value]

Both(left, right) == [k \in DOMAIN left \cup DOMAIN right |->
                         IF k \in DOMAIN left THEN left[k] ELSE right[k]]

\* What may stand at "a" and at a flat key "a.b": a scalar or a mapping of any shape.
Deep == {Nothing, Map(<<c>>, x), Map(<<c>>, Nothing)}
AtA == {x, Nothing, Map(<<d>>, x), Map(<<b, c>>, x), Map(<<b, c>>, Nothing)}
           \cup {Map(<<b>>, v) : v \in {x, y} \cup Deep}
           \cup {Both(Map(<<b>>, v), Map(<<d>>, x)) : v \in {x, Nothing}}

Roots ==
    LET Maybe(key, values) == {Nothing} \cup {Map(key, v) : v \in values}
    IN  {Both(m, Both(n, o)) : m \in Maybe(A, AtA), n \in Maybe(AB, {x, y} \cup Deep),
                               o \in Maybe(ABC, {x})}

\* Where a user edits.
EditedAddresses == {<<A>>, <<A, <<b>>>>, <<A, <<d>>>>, <<A, <<b>>, <<c>>>>, <<AB>>}

Data == {Nothing, Map(A, y), Map(A, Nothing), Map(A, Map(<<b>>, y)),
         Map(A, Map(<<b>>, Map(<<c>>, y))), Map(AB, y), Map(AB, Map(<<c>>, y)), Map(ABC, y), Map(ABCD, y),
         Both(Map(AB, y), Map(AD, y)), Map(A, Both(Map(<<b>>, y), Map(<<d>>, y))),
         Map(A, Map(<<b, c>>, y)), Map(A, Both(Map(<<b, c>>, y), Map(<<d>>, y)))}

Desired ==
    {[data |-> Nothing, delete |-> keys] : keys \in {<<A>>, <<AB>>, <<ABC>>, <<AB, A>>, <<AB, AD>>}}
        \cup {[data |-> data, delete |-> <<>>] : data \in Data}
        \cup {[data |-> Map(AB, y), delete |-> <<AD>>], [data |-> Map(AD, y), delete |-> <<AB>>]}
=============================================================================
