----------------------------- MODULE MCJsoncEdit -----------------------------
(* Texts of up to three properties with comments at every place where one can stand,
   and the documents they may have to say. *)
EXTENDS JsoncEdit

CONSTANTS x, y, note, a, b, c

Opens == {<<>>, <<note>>}
Between == {<<Comma>>, <<note, Comma>>, <<Comma, note>>}
Ends == {<<>>, <<note>>, <<Comma>>, <<note, Comma>>, <<Comma, note>>}

Inner ==
    {Object(open, <<>>) : open \in Opens}
        \cup {Object(open, <<Property(b, x, end)>>) : open \in Opens, end \in {<<>>, <<note>>, <<Comma, note>>}}
        \cup {Object(<<>>, <<Property(b, x, <<Comma>>), Property(c, x, <<note>>)>>)}

JsoncTexts ==
    {Object(open, <<>>) : open \in Opens}
        \cup {Object(open, <<Property(a, value, end)>>) : open \in Opens, value \in {x} \cup Inner, end \in Ends}
        \cup {Object(open, <<Property(k, value, between), Property(IF k = a THEN b ELSE a, x, end)>>) :
                 open \in Opens, k \in {a, b}, value \in {x} \cup Inner, between \in Between, end \in Ends}
        \cup {Object(<<>>, <<Property(b, x, s), Property(a, value, t), Property(c, x, end)>>) :
                 value \in {x, Object(<<note>>, <<Property(b, x, <<note>>)>>)}, s, t \in Between, end \in Ends}

Targets ==
    UNION {[keys -> {x, y, <<>>} \cup [{b} -> {x, y}] \cup [{b, c} -> {x}] \cup [{c} -> {y}]] :
              keys \in SUBSET {a, b}}

Wanted ==
    Targets \cup {[k \in DOMAIN t \cup {c} |-> IF k = c THEN x ELSE t[k]] : t \in Targets}
=============================================================================
