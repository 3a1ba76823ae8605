---------------------------- MODULE StreamedReply ----------------------------
(***************************************************************************)
(* A streamed chat reply, server/app.py _text_fragments and _chat_events:  *)
(* the model's responses go through the stop buffer, what it releases      *)
(* through the thinking parser, and the content that one finds through the *)
(* tool-call parser; at the end the three are flushed in that order.  The  *)
(* events of a plain completion are the released text.                     *)
(***************************************************************************)
EXTENDS StreamParsers

CONSTANTS
  Vocabularies,   \* name |-> [pieces: the texts one response of the model may
                  \* carry, length: the bound on the text of a reply]
  Requests        \* records [stops: the stop sequences, required: tool_choice is
                  \* "required", first: the field the prompt leaves open
                  \* (initial_reasoning), vocabulary: what the model speaks]

ASSUME TextsOfRequests ==
  /\ \A v \in DOMAIN Vocabularies : Vocabularies[v].pieces \subseteq Seq(Symbols) \ {<<>>}
  /\ \A r \in Requests : /\ r.stops \subseteq Seq(Symbols) \ {<<>>} /\ r.first \in Fields
                          /\ r.vocabulary \in DOMAIN Vocabularies

VARIABLES
  request,    \* the request, one of Requests
  phase,      \* "streaming", then "completed" or "failed"
  fed,        \* history: the text of every response so far
  released,   \* history: the text the stop buffer let through
  split,      \* history: the <<field, symbol>> pairs of the thinking parser
  reply,      \* the content symbols and calls sent to the client
  stop,       \* the StopSequenceBuffer
  thinking,   \* the ThinkingStreamParser
  tools       \* the ToolCallStreamParser

replyVars == <<request, phase, fed, released, split, reply, stop, thinking, tools>>

\* The symbols of one kind in a sequence of tagged ones.
Of(kind, tagged) ==
  Picked([i \in DOMAIN tagged |-> tagged[i][2]], {i \in DOMAIN tagged : tagged[i][1] = kind})

-----------------------------------------------------------------------------

Init ==
  /\ request \in Requests
  /\ phase = "streaming"
  /\ fed = <<>> /\ released = <<>> /\ split = <<>> /\ reply = <<>>
  /\ stop = [buffer |-> <<>>, stopped |-> FALSE, out |-> <<>>]
  /\ thinking = [field |-> request.first, buffer |-> <<>>, out |-> <<>>]
  /\ tools = [buffer |-> <<>>, failed |-> FALSE, out |-> <<>>]

\* _chat_protocol_events: the content fragments go to the tool parser one by
\* one, up to the one that raises; reasoning goes to the client as it is.
OneThroughTools(p, fragment) ==
  IF p.failed \/ fragment[1] # "content" THEN p
  ELSE LET next == ToolFeed(p, fragment[2]) IN [next EXCEPT !.out = p.out \o @]
ThroughTools(p, fragments) ==
  LET after[n \in 0..Len(fragments)] ==
        IF n = 0 THEN p ELSE OneThroughTools(after[n - 1], fragments[n])
  IN  after[Len(fragments)]

\* A parser between two calls.
Kept(p) == [p EXCEPT !.out = <<>>]

\* What the three parsers now return reaches the next one, and the client.
Parse(cut, thought, used) ==
  /\ stop' = Kept(cut)
  /\ released' = released \o cut.out
  /\ thinking' = Kept(thought)
  /\ split' = split \o FlattenSeq([i \in DOMAIN thought.out |->
                                      Tagged(thought.out[i][1], thought.out[i][2])])
  /\ tools' = Kept(used)
  /\ reply' = reply \o used.out

\* The model yields one more piece of text, which runs through the parsers.
\* A call of an undeclared tool raises, and the reply fails.
Respond(piece) ==
  /\ phase = "streaming"
  /\ ~stop.stopped
  /\ Len(fed) + Len(piece) <= Vocabularies[request.vocabulary].length
  /\ fed' = fed \o piece
  /\ LET cut     == StopFeed(request.stops, stop, piece)
         thought == ThinkingFeed(thinking, cut.out)
     IN  Parse(cut, thought, ThroughTools(tools, thought.out))
  /\ phase' = IF tools'.failed THEN "failed" ELSE "streaming"
  /\ UNCHANGED request

\* The flushes at the end of a reply: of the thinking parser, and of the tool
\* parser unless it has raised.  Faulty variants: either is left out.
ThinkingUnflushed(p) == [p EXCEPT !.buffer = <<>>]
ThinkingEnds(p) == [ThinkingFlush(p) EXCEPT !.out = p.out \o @]
ToolsUnflushed(p) == p
ToolsEnd(p) == IF p.failed THEN p ELSE [ToolFlush(p) EXCEPT !.out = p.out \o @]

\* The model ends, at a stop sequence or by itself: every parser gives up
\* what it withheld, and a required call that did not come fails the reply.
Finish ==
  /\ phase = "streaming"
  /\ LET cut     == StopFlush(stop)
         thought == ThinkingEnds(ThinkingFeed(thinking, cut.out))
     IN  Parse(cut, thought, ToolsEnd(ThroughTools(tools, thought.out)))
  /\ phase' = IF tools'.failed \/ (request.required /\ Of("tool_call", reply') = <<>>)
              THEN "failed" ELSE "completed"
  /\ UNCHANGED <<request, fed>>

Next ==
  \/ \E piece \in Vocabularies[request.vocabulary].pieces : Respond(piece)
  \/ Finish

Spec == Init /\ [][Next]_replyVars

-----------------------------------------------------------------------------
(***************************************************************************)
(* Properties                                                              *)
(***************************************************************************)

\* The client sees the text up to the first stop sequence, all of it and no
\* more, and no stop sequence is ever complete in what it sees, wherever the
\* responses cut the text (StopSequenceBuffer holds every possible beginning).
ReleasedUpToTheFirstStop ==
  /\ Hits(request.stops, released) = {}
  /\ ~stop.stopped => released \o stop.buffer = fed
  /\ stop.stopped => released = SubSeq(fed, 1, Earliest(request.stops, fed)[1] - 1)

\* The field of the i-th symbol of text: what the last marker before it opened,
\* or else the first.
FieldAt(first, text, i) ==
  LET opened == {h \in Hits(Markers, text) : h[1] < i /\ MarkerField[h[2]] # "unchanged"}
  IN  IF opened = {} THEN first
      ELSE MarkerField[(CHOOSE h \in opened : \A g \in opened : g[1] <= h[1])[2]]

\* text without its markers, each symbol with its field.
Reading(first, text) ==
  Picked([i \in DOMAIN text |-> <<FieldAt(first, text, i), text[i]>>],
         {i \in DOMAIN text : ~Covered(Hits(Markers, text), i)})

\* Every symbol reaches the field the last complete marker before it opened,
\* in order and exactly once, and no marker reaches the client: whatever the
\* responses were, markers cut in pieces included.
FieldsFollowTheMarkers ==
  split \o Tagged(thinking.field, thinking.buffer) = Reading(request.first, released)

\* A parser withholds text only while it may begin a stop sequence, a marker
\* or a call, and the tool parser also until the call it has begun is closed.
OnlyBeginningsAreHeld ==
  phase = "streaming" =>
    /\ stop.buffer = Held(request.stops, stop.buffer)
    /\ thinking.buffer = Held(Markers, thinking.buffer)
    /\ \/ tools.buffer = Held(Openings, tools.buffer)
       \/ \E d \in Dialects :
            /\ IsPrefix(d[1], tools.buffer)
            /\ Hits({d[2]}, From(tools.buffer, Len(d[1]) + 1)) = {}

\* The tool parser's reading of the content does not depend on how the
\* responses and the markers cut it: one call of feed with all of it reads the
\* same calls and content and withholds the same text, and raises if and only
\* if the pieces did.
ContentIsReadAsAWhole ==
  LET whole == ToolFeed([buffer |-> <<>>, failed |-> FALSE, out |-> <<>>], Of("content", split))
  IN  /\ phase = "streaming" => /\ whole.out = reply
                                /\ whole.buffer = tools.buffer
      /\ phase = "completed" => /\ ~whole.failed
                                /\ reply = whole.out \o ToolFlush(whole).out

\* What the same reply is without streaming, chat_completions: parse_tool_calls
\* on the whole content.
Unstreamed == Parsed(Of("content", split))

\* A completed stream carries the calls that the same reply carries when it is
\* not streamed.
StreamCarriesTheCalls ==
  phase = "completed" => Of("tool_call", reply) = Unstreamed.calls

\* The openings of text that no block of their own dialect begins with.
Stray(text) ==
  UNION {{h \in Hits({d[1]}, text) : \A b \in Blocks(d, text) : b[1] # h[1]} : d \in Dialects}

\* A reply in one dialect, every call of it well formed, is read alike by the
\* incremental parser and by parse_tool_calls on the whole content.
OneDialectIsReadAlike ==
  LET content == Of("content", split)
  IN  /\ phase = "completed"
      /\ content # <<JsonCall>>
      /\ Cardinality({d \in Dialects : Blocks(d, content) # {}}) <= 1
      /\ Stray(content) = {}
      => /\ Of("tool_call", reply) = Unstreamed.calls
         /\ Of("content", reply) = Unstreamed.visible
=============================================================================
