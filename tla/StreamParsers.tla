---------------------------- MODULE StreamParsers ----------------------------
(***************************************************************************)
(* The incremental parsers of server/protocol.py, as functions of their    *)
(* state and the text they are fed: StopSequenceBuffer withholds what may  *)
(* become a stop sequence, ThinkingStreamParser assigns text to the fields *)
(* of a chat message, ToolCallStreamParser withholds calls until their     *)
(* closing marker.  A text is a sequence of symbols; a symbol stands for a *)
(* run of characters that no marker cuts, "<" for the character every      *)
(* marker opens with and none repeats.                                     *)
(***************************************************************************)
EXTENDS Integers, Sequences, SequencesExt, FiniteSetsExt

CONSTANTS
  Symbols,       \* the symbols of texts
  MarkerField,   \* marker |-> the field it opens, or "unchanged"
  DialectOrder,  \* the pairs <<opening marker, closing marker>> of a call, in
                 \* the order parse_tool_calls tries them
  Declared,      \* the call bodies that name a tool of the request
  Undeclared,    \* the call bodies that name any other tool
  JsonCall       \* the symbol of a reply that is one JSON call of a declared tool

Markers == DOMAIN MarkerField
Dialects == ToSet(DialectOrder)
Openings == {dialect[1] : dialect \in Dialects}

\* The fields of a chat message.
Fields == {"content", "reasoning_content"}

ASSUME MarkersAreTexts ==
  /\ DialectOrder \in Seq(Seq(Symbols) \X Seq(Symbols))
  /\ Markers \subseteq Seq(Symbols)
  /\ MarkerField \in [Markers -> Fields \cup {"unchanged"}]

\* A marker opens with "<" and has no other, so markers neither overlap nor
\* extend one another.
ASSUME MarkersOpenOnce ==
  \A marker \in Markers \cup UNION {{d[1], d[2]} : d \in Dialects} :
    /\ marker # <<>> /\ marker[1] = "<"
    /\ \A i \in 2..Len(marker) : marker[i] # "<"

ASSUME MarkersPrefixFree ==
  /\ \A m, n \in Markers : ~IsStrictPrefix(m, n)
  /\ \A m, n \in Openings : ~IsStrictPrefix(m, n)

\* The markers of calls are told apart where they begin, and a body, or a reply that
\* is one call, is more than the character they open with.
ASSUME CallsAreToldApart ==
  /\ \A m \in Openings, d \in Dialects : ~IsPrefix(m, d[2]) /\ ~IsPrefix(d[2], m)
  /\ Declared \cup Undeclared \subseteq Symbols \ {"<"}
  /\ JsonCall # "<"

-----------------------------------------------------------------------------
\* Finding markers in a text

From(text, i) == SubSeq(text, i, Len(text))

\* Where in text which of the marks occurs: pairs <<index, mark>>.
Hits(marks, text) ==
  {hit \in (1..Len(text)) \X marks : IsPrefix(hit[2], From(text, hit[1]))}

Earliest(marks, text) ==
  CHOOSE hit \in Hits(marks, text) :
    \A other \in Hits(marks, text) : hit[1] <= other[1]

\* The lengths of the ends of text that a mark may still complete, with zero.
Completable(marks, text) ==
  {0} \cup {n \in 1..Len(text) : \E mark \in marks :
              n < Len(mark) /\ From(text, Len(text) + 1 - n) = SubSeq(mark, 1, n)}

\* The longest such end.  Faulty variant: that of one mark, not of them all.
HeldForOne(marks, text) ==
  LET longest == {Max(Completable({mark}, text)) : mark \in marks}
  IN  From(text, Len(text) + 1 - Min(longest \cup {Len(text)}))
Held(marks, text) == From(text, Len(text) + 1 - Max(Completable(marks, text)))

\* text without an end of it.
Without(text, end) == SubSeq(text, 1, Len(text) - Len(end))

-----------------------------------------------------------------------------
\* StopSequenceBuffer: [buffer, stopped, out], out what this call returns

StopFeed(stops, p, text) ==
  LET buffer == p.buffer \o text
  IN  IF Hits(stops, buffer) # {}
      THEN [buffer  |-> <<>>,
            stopped |-> TRUE,
            out     |-> SubSeq(buffer, 1, Earliest(stops, buffer)[1] - 1)]
      ELSE [buffer  |-> Held(stops, buffer),
            stopped |-> FALSE,
            out     |-> Without(buffer, Held(stops, buffer))]

StopFlush(p) == [p EXCEPT !.buffer = <<>>, !.out = IF p.stopped THEN <<>> ELSE p.buffer]

-----------------------------------------------------------------------------
\* ThinkingStreamParser: [field, buffer, out], out the fragments returned, pairs
\* <<field, text>>

Fragment(field, text) == IF text = <<>> THEN <<>> ELSE << <<field, text>> >>

\* The field after a marker.
Opened(field, marker) ==
  IF MarkerField[marker] = "unchanged" THEN field ELSE MarkerField[marker]

\* The last turn of feed, when the buffer holds no marker.  Faulty variant: all
\* of it is withheld.
HoardRest(p) == p
ReleaseRest(p) ==
  LET held == Held(Markers, p.buffer)
  IN  [p EXCEPT !.buffer = held, !.out = @ \o Fragment(p.field, Without(p.buffer, held))]

\* A turn of the while loop of feed, while the buffer holds a marker.
ThinkingTurn(p) ==
  IF Hits(Markers, p.buffer) = {} THEN p
  ELSE LET hit == Earliest(Markers, p.buffer)
       IN  [field  |-> Opened(p.field, hit[2]),
            buffer |-> From(p.buffer, hit[1] + Len(hit[2])),
            out    |-> p.out \o Fragment(p.field, SubSeq(p.buffer, 1, hit[1] - 1))]

\* The loop: a turn takes a marker at least, so the symbols of the buffer bound the turns.
ThinkingLoop(p) ==
  LET after[n \in 0..Len(p.buffer)] == IF n = 0 THEN p ELSE ThinkingTurn(after[n - 1])
  IN  ReleaseRest(after[Len(p.buffer)])

ThinkingFeed(p, text) == ThinkingLoop([p EXCEPT !.buffer = @ \o text, !.out = <<>>])

ThinkingFlush(p) == [p EXCEPT !.buffer = <<>>, !.out = Fragment(p.field, p.buffer)]

-----------------------------------------------------------------------------
\* parse_tool_calls: [visible, calls, failed]

\* The calls of one dialect in text: pairs <<index, whole block>>.
Blocks(dialect, text) ==
  Hits({dialect[1] \o <<body>> \o dialect[2] : body \in Declared \cup Undeclared}, text)

\* What s has at the given places, in its order.
Picked(s, places) ==
  LET picked[n \in 0..Len(s)] ==
        IF n = 0 THEN <<>>
        ELSE IF n \in places THEN Append(picked[n - 1], s[n]) ELSE picked[n - 1]
  IN  picked[Len(s)]

\* Whether the i-th symbol belongs to one of the hits.
Covered(hits, i) == \E h \in hits : i \in h[1]..(h[1] + Len(h[2]) - 1)

\* text without the blocks, and the bodies of the blocks in their order.
Outside(blocks, text) == Picked(text, {i \in DOMAIN text : ~Covered(blocks, i)})
Bodies(dialect, blocks, text) == Picked(text, {b[1] + Len(dialect[1]) : b \in blocks})

\* The first dialect that occurs in text decides, and then whether it is one JSON call.
Parsed(text) ==
  LET found == {n \in DOMAIN DialectOrder : Blocks(DialectOrder[n], text) # {}}
      dialect == DialectOrder[Min(found)]
      calls == Bodies(dialect, Blocks(dialect, text), text)
  IN  IF found # {}
      THEN [visible |-> Outside(Blocks(dialect, text), text),
            calls   |-> calls,
            failed  |-> \E i \in DOMAIN calls : calls[i] \in Undeclared]
      ELSE IF text = <<JsonCall>>
      THEN [visible |-> <<>>, calls |-> text, failed |-> FALSE]
      ELSE [visible |-> text, calls |-> <<>>, failed |-> FALSE]

\* ToolCallStreamParser: [buffer, failed, out], out a sequence of
\* <<"content", symbol>> and <<"tool_call", body>> (how content is cut is left out)

Tagged(kind, text) == [i \in DOMAIN text |-> <<kind, text[i]>>]

\* The buffer after the block that ends at last.  Faulty variant: it is emptied.
ForgetRest(block, last) == <<>>
RestAfter(block, last) == From(block, last + 1)

\* The first opening in text, what follows it, and its closing marker.
Opening(text) == Earliest(Openings, text)
Body(text) == From(text, Opening(text)[1] + Len(Opening(text)[2]))
Closing(text) == (CHOOSE d \in Dialects : d[1] = Opening(text)[2])[2]

\* A block of text is whole.
HoldsBlock(text) == Hits(Openings, text) # {} /\ Hits({Closing(text)}, Body(text)) # {}

\* A turn of the while loop of feed, which takes the first block out of the
\* buffer.  A call of an undeclared tool raises.
ToolTurn(p) ==
  IF p.failed \/ ~HoldsBlock(p.buffer) THEN p
  ELSE LET first  == Opening(p.buffer)[1]
           before == Tagged("content", SubSeq(p.buffer, 1, first - 1))
           block  == From(p.buffer, first)
           last   == Len(Opening(p.buffer)[2]) + Len(Closing(p.buffer)) - 1
                       + Earliest({Closing(p.buffer)}, Body(p.buffer))[1]
           read   == Parsed(SubSeq(block, 1, last))
       IN  IF read.failed THEN [p EXCEPT !.failed = TRUE]
           ELSE [p EXCEPT !.buffer = RestAfter(block, last),
                          !.out = @ \o before \o Tagged("tool_call", read.calls)]

\* What ends the loop: a block that is not whole is withheld, and else what may
\* become an opening.
WithholdRest(p) ==
  LET rest == IF Hits(Openings, p.buffer) # {} THEN From(p.buffer, Opening(p.buffer)[1])
              ELSE Held(Openings, p.buffer)
  IN  IF p.failed THEN p
      ELSE [p EXCEPT !.buffer = rest, !.out = @ \o Tagged("content", Without(p.buffer, rest))]

ToolLoop(p) ==
  LET after[n \in 0..Len(p.buffer)] == IF n = 0 THEN p ELSE ToolTurn(after[n - 1])
  IN  WithholdRest(after[Len(p.buffer)])

\* A call that raises returns nothing, not even the text before the bad block.
ToolFeed(p, text) ==
  LET fed == ToolLoop([p EXCEPT !.buffer = @ \o text, !.out = <<>>])
  IN  IF fed.failed THEN [fed EXCEPT !.out = <<>>] ELSE fed

ToolFlush(p) ==
  LET read == Parsed(p.buffer)
  IN  [buffer |-> <<>>,
       failed |-> read.failed,
       out    |-> IF read.failed THEN <<>>
                  ELSE Tagged("content", read.visible) \o Tagged("tool_call", read.calls)]
=============================================================================
