----------------------------- MODULE LineDocument -----------------------------
(***************************************************************************)
(* Managed blocks of a text file: how the file is split, how a block is    *)
(* planned, put in and taken away, and how the file is put together again. *)
(*                                                                         *)
(* A text is a sequence of lines, each with a body and with the sign       *)
(* whether it ends with a line end; only the last one may lack it.  The    *)
(* entries of a desired block are strings: each a sequence of bodies (more *)
(* than one if the string has line ends inside) that may end with a line   *)
(* end as well.  The kinds of line ends are not told apart.                *)
(***************************************************************************)
EXTENDS Naturals, SequencesExt

CONSTANTS Bodies, BlockIds, Unreadable, NoBlock

BeginOf(id) == <<"begin", id>>
EndOf(id) == <<"end", id>>
Plain(body) == <<"plain", body>>

Lines == [body : Bodies, ended : BOOLEAN]
Entries == [bodies : Seq(Bodies), ended : BOOLEAN]
Segments == [id : BlockIds \cup {NoBlock}, lines : Seq(Lines)]

ASSUME BlocksAssumption ==
    /\ NoBlock \notin BlockIds \cup Seq(Entries)
    /\ Unreadable \notin BlockIds \cup {NoBlock} \cup Seq(Segments)
    /\ \A id \in BlockIds : BeginOf(id) \in Bodies /\ EndOf(id) \in Bodies

IsBegin(line) == \E id \in BlockIds : line.body = BeginOf(id)
IsEnd(line) == \E id \in BlockIds : line.body = EndOf(id)

Line(body) == [body |-> body, ended |-> TRUE]
Entry(bodies, ended) == [bodies |-> bodies, ended |-> ended]

Literal(lines) == [id |-> NoBlock, lines |-> lines]
\* The lines of a block, its header and its footer included.
Block(id, lines) == [id |-> id, lines |-> lines]

Inner(block) == SubSeq(block.lines, 2, Len(block.lines) - 1)

Extended(segments, line) == [segments EXCEPT ![Len(segments)].lines = Append(@, line)]

\* One line: inside a block only the next end marker counts, outside only a begin.
Read(scan, line) ==
    CASE scan.open = Unreadable -> scan
      [] scan.open = NoBlock /\ IsBegin(line) ->
           [segments |-> Append(scan.segments, Block(line.body[2], <<line>>)), open |-> line.body[2]]
      [] scan.open = NoBlock /\ ~IsBegin(line) ->
           [scan EXCEPT !.segments = IF @ # <<>> /\ Last(@).id = NoBlock THEN Extended(@, line)
                                     ELSE Append(@, Literal(<<line>>))]
      [] scan.open \in BlockIds ->
           [segments |-> Extended(scan.segments, line),
            open |-> IF ~IsEnd(line) THEN scan.open
                     ELSE IF line.body = EndOf(scan.open) THEN NoBlock ELSE Unreadable]

\* The segments after all lines, and the block that is still open.
Scan(text) ==
    LET scan[n \in 0 .. Len(text)] ==
            IF n = 0 THEN [segments |-> <<>>, open |-> NoBlock] ELSE Read(scan[n - 1], text[n])
    IN  scan[Len(text)]

\* parse_line_document: every block has to be closed by a marker of its own.
Parse(text) == IF Scan(text).open = NoBlock THEN Scan(text).segments ELSE Unreadable

Ended(text) == IF text = <<>> THEN text ELSE [text EXCEPT ![Len(text)] = Line(@.body)]

\* LineDocument.render: a segment starts on a line of its own.
Render(segments) ==
    FlattenSeq([n \in DOMAIN segments |->
                   IF n = Len(segments) THEN segments[n].lines ELSE Ended(segments[n].lines)])

Places(segments, id) == {n \in DOMAIN segments : segments[n].id = id}

LinesOf(entries) == FlattenSeq([n \in DOMAIN entries |->
                                   [m \in DOMAIN entries[n].bodies |-> Line(entries[n].bodies[m])]])

\* Mutant: a block that is there already is put in again at the end.
EnsureBlockAgain(segments, id, entries) ==
    Append(segments, Block(id, <<Line(BeginOf(id))>> \o LinesOf(entries) \o <<Line(EndOf(id))>>))

\* The first block with the id gets the entries, a new one goes to the end.
EnsureBlock(segments, id, entries) ==
    IF Places(segments, id) = {}
    THEN Append(segments, Block(id, <<Line(BeginOf(id))>> \o LinesOf(entries) \o <<Line(EndOf(id))>>))
    ELSE [segments EXCEPT ![Min(Places(segments, id))].lines =
             <<Head(@)>> \o LinesOf(entries) \o <<@[Len(@)]>>]

RemoveBlock(segments, id) ==
    IF Places(segments, id) = {} THEN segments ELSE RemoveAt(segments, Min(Places(segments, id)))

\* The entries a block reads back as, its lines without their ends.
EntriesOf(segments, id) ==
    IF Places(segments, id) = {} THEN NoBlock
    ELSE LET lines == Inner(segments[Min(Places(segments, id))])
         IN  [n \in DOMAIN lines |-> Entry(<<lines[n].body>>, FALSE)]

\* _plan_line
PlanLine(segments, id, desired) ==
    IF EntriesOf(segments, id) = desired THEN <<>>
    ELSE <<[value |-> desired, before |-> EntriesOf(segments, id)]>>

-----------------------------------------------------------------------------
(* A file from one command to the next *)

\* Load, plan, apply and dump.
Written(text, id, desired) ==
    LET segments == Parse(text)
    IN  IF PlanLine(segments, id, desired) = <<>> THEN text
        ELSE Render(EnsureBlock(segments, id, desired))

\* _rollback_line of one batch, without a resolver: an edited block is skipped.
Reverted(text, id, operations) ==
    LET segments == Parse(text)
    IN  IF operations = <<>> \/ EntriesOf(segments, id) # operations[1].value THEN text
        ELSE Render(IF operations[1].before = NoBlock THEN RemoveBlock(segments, id)
                    ELSE EnsureBlock(segments, id, operations[1].before))

-----------------------------------------------------------------------------
(* What these operations are for *)

Readable(text) == Parse(text) # Unreadable

\* Only the last line may lack its end.
LinesEnd(text) == \A n \in 1 .. Len(text) - 1 : text[n].ended

\* Entries that are single lines and no end markers of any block.
SingleLines(entries) ==
    \A n \in DOMAIN entries : /\ Len(entries[n].bodies) = 1 /\ ~entries[n].ended
                              /\ \A id \in BlockIds : entries[n].bodies[1] # EndOf(id)

\* What is written can be read again, holds the entries, and is not planned again.
BlockSettles(text, id, desired) ==
    LET after == Written(text, id, desired)
    IN  Readable(after) /\ PlanLine(Parse(after), id, desired) = <<>>

\* The text outside of the first block with an id, its last line ended.
Around(text, id) ==
    Ended(Render(RemoveBlock(Parse(text), id)))

\* Undoing two writes gives back the text, up to the end of its last line, and at no
\* time does the text outside of the block change.
BlockUndone(text, id, first, second) ==
    LET batch1 == PlanLine(Parse(text), id, first)
        after1 == Written(text, id, first)
        batch2 == PlanLine(Parse(after1), id, second)
        after2 == Written(after1, id, second)
        undone == Reverted(Reverted(after2, id, batch2), id, batch1)
    IN  /\ Ended(undone) = Ended(text)
        /\ \A t \in {after1, after2, undone} : Around(t, id) = Around(text, id)
=============================================================================
