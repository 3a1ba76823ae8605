--------------------------- MODULE MCStreamedReply ---------------------------
(* Instances of StreamedReply.  A symbol is a run of characters: "thought"   *)
(* is the rest of "<|channel>thought\n".                                     *)
EXTENDS StreamedReply

MCSymbols ==
  {"<", ">", "|", "/", "think", "thought", "final", "channel", "tool", "/tool", "|tool",
   "a", "b", "call", "other", "json"}

MCMarkerField ==
     (<<"<", "think">> :> "reasoning_content")
  @@ (<<"<", "/", "think">> :> "content")
  @@ (<<"<", "|", "thought">> :> "reasoning_content")
  @@ (<<"<", "|", "final">> :> "content")
  @@ (<<"<", "channel">> :> "unchanged")

MCDialectOrder ==
  << << <<"<", "tool", ">">>, <<"<", "/tool">> >>,
     << <<"<", "|tool">>, <<"<", "tool", "|">> >> >>

Texts(symbols, n) == BoundedSeq(symbols, n) \ {<<>>}

\* Responses of one to three letters; every way to cut three of the thinking
\* markers; calls of both dialects, whole and cut, closed and not, well formed
\* and not; reasoning, calls and a stop sequence in one reply; replies of several
\* calls and of one JSON call.
MCVocabularies ==
  [letters  |-> [pieces |-> Texts({"a", "b"}, 3), length |-> 6],
   thinking |-> [pieces |-> Texts({"<", "/", "think", "channel", "a"}, 2), length |-> 5],
   tools    |-> [pieces |-> {<<"<">>, <<"tool">>, <<">">>, <<"|">>, <<"/tool">>,
                             <<"<", "|tool">>, <<"call", "<">>, <<"other", "<">>,
                             <<"<", "tool", ">">>}, length |-> 6],
   chat     |-> [pieces |-> {<<"<">>, <<"think">>, <<"/", "think">>, <<"tool", ">">>,
                             <<"call", "<">>, <<"/tool">>, <<"<", "think">>,
                             <<"<", "tool", ">">>}, length |-> 6],
   calls    |-> [pieces |-> {<<"<", "tool", ">", "call", "<">>, <<"/tool">>,
                             <<"/tool", "<", "tool", ">", "call", "<">>,
                             <<"<", "|tool", "call">>, <<"<", "tool", "|">>,
                             <<"<", "tool", "|", "<", "|tool", "call">>}, length |-> 12],
   json     |-> [pieces |-> {<<"json">>, <<"call">>}, length |-> 2]]

Asks(vocabulary, stops, required, fields) ==
  [stops : stops, required : required, first : fields, vocabulary : {vocabulary}]

MCRequests ==
  UNION {
    Asks("letters", {{s, t} : s, t \in Texts({"a", "b"}, 3)}, {FALSE}, {"content"}),
    Asks("thinking", {{}}, {FALSE}, {"content", "reasoning_content"}),
    Asks("tools", {{}}, {FALSE}, {"content"}),
    Asks("chat", {{}, {<<"/">>}, {<<"call", "<", "/tool">>}}, {FALSE}, {"content", "reasoning_content"}),
    Asks("calls", {{}}, BOOLEAN, {"content"})}

MCJsonRequests == Asks("json", {{}}, BOOLEAN, {"content"})
=============================================================================
