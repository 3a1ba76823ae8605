------------------------------ MODULE LocalServer ------------------------------
(***************************************************************************)
(* The HTTP server (server/app.py) on the generation service: one thread   *)
(* that serves one connection at a time, the requests and answers of a     *)
(* kept-alive connection, event streams to clients that may leave at any   *)
(* moment, and the life of the process from its start to the close of the  *)
(* service (cli.py).                                                       *)
(*                                                                         *)
(* The request loop and the shutdown flag are the standard library's, and  *)
(* modelled from how this code uses them.  A client sends a request when   *)
(* the last one is answered; its pieces are request heads and bodies.      *)
(* Payloads are left out: a body is valid or not.  The service's other     *)
(* callers are threads of a program that embeds it.                        *)
(***************************************************************************)
EXTENDS GenerationService, Sequences

CONSTANTS
  Serving,  \* the serving thread, one of the service's callers
  None      \* no request

ASSUME ServerAssumption == Serving \in Callers

VARIABLES
  life,       \* how far the process is
  stopAsked,  \* a signal has come: a thread of its own has called shutdown
  conn,       \* the connection being served: "none", "open", or "gone" with its client
  wire,       \* the pieces the client has sent that have not been read
  unsent,     \* whether the client has the body of its last request still to send
  owed,       \* the client's requests less the answers it has been sent
  stage,      \* where the serving thread is in the connection
  request,    \* the request being served
  keep        \* the negation of close_connection

connVars == <<conn, wire, unsent, owed, stage, request, keep>>
serverVars == <<life, stopAsked, connVars>>
allVars == <<vars, serverVars>>

\* What a client can ask: a GET; a POST to a path that is not served; a POST whose length
\* is missing, invalid or too large; /api/show; a plain and a streamed generation.
Posts == {"elsewhere", "unsized", "show", "plain", "stream"}
Kinds == Posts \cup {"get"}

\* The requests among the unread pieces.
Heads == Cardinality({i \in DOMAIN wire : wire[i] \in Kinds})

ServerInit ==
  /\ Init
  /\ life = "starting"
  /\ stopAsked = FALSE
  /\ conn = "none"
  /\ wire = <<>>
  /\ unsent = FALSE
  /\ owed = 0
  /\ stage = "away"
  /\ request = None
  /\ keep = FALSE
--------------------------------------------------------------------------------
(* The process. *)

\* serve may activate its default model before it listens.
Preload(m) ==
  /\ life = "starting"
  /\ ActivateOther(Serving, m)
  /\ life' = "loading"
  /\ UNCHANGED <<serviceVars, stopAsked, connVars>>

PreloadEnds(m) ==
  /\ life = "loading"
  /\ \/ LoadEngine(Serving, m) /\ life' = "loaded"
     \/ LoadRaises(Serving) /\ life' = "stopped"
  /\ UNCHANGED <<serviceVars, stopAsked, connVars>>

\* The socket is bound, the pid file written, the handlers are installed; binding may raise.
Listen ==
  /\ life \in {"starting", "loaded"}
  /\ life' \in {"serving", "stopped"}
  /\ UNCHANGED <<vars, stopAsked, connVars>>

\* The handler's thread asks serve_forever to stop.  Faulty variant: the handler itself
\* calls shutdown, and the serving thread waits for itself.
ShutdownInline ==
  /\ life = "serving"
  /\ ~stopAsked
  /\ stopAsked' = TRUE
  /\ life' = "waiting"
  /\ UNCHANGED <<vars, connVars>>
Signal ==
  /\ life = "serving"
  /\ ~stopAsked
  /\ stopAsked' = TRUE
  /\ UNCHANGED <<vars, life, connVars>>

\* serve_forever returns once no connection is being served; the handlers, the socket and
\* the pid file are given back.
ReturnFromServe ==
  /\ life = "serving"
  /\ stage = "away"
  /\ stopAsked
  /\ life' = "stopped"
  /\ UNCHANGED <<vars, stopAsked, connVars>>

\* The finally clause of serve.
Exit ==
  /\ life = "stopped"
  /\ Close(Serving)
  /\ life' = "exited"
  /\ UNCHANGED <<stopAsked, connVars>>
--------------------------------------------------------------------------------
(* The client. *)

Connect ==
  /\ life = "serving"
  /\ stage = "away"
  /\ ~stopAsked
  /\ conn' = "open"
  /\ stage' = "line"
  /\ UNCHANGED <<vars, life, stopAsked, wire, unsent, owed, request, keep>>

Send(kind) ==
  /\ conn = "open"
  /\ owed <= 0
  /\ ~unsent
  /\ wire' = Append(wire, kind)
  /\ owed' = owed + 1
  /\ unsent' = (kind \in Posts)
  /\ UNCHANGED <<vars, life, stopAsked, conn, stage, request, keep>>

SendBody ==
  /\ conn = "open"
  /\ unsent
  /\ unsent' = FALSE
  /\ wire' = Append(wire, "body")
  /\ UNCHANGED <<vars, life, stopAsked, conn, owed, stage, request, keep>>

Leave ==
  /\ conn = "open"
  /\ conn' = "gone"
  /\ UNCHANGED <<vars, life, stopAsked, wire, unsent, owed, stage, request, keep>>
--------------------------------------------------------------------------------
(* The serving thread on a connection. *)

\* The next step of the connection, with the service and the client's side left alone.
Goes(to) ==
  /\ stage' = to
  /\ UNCHANGED <<vars, life, stopAsked, conn, unsent>>

\* A request line is read.  A POST to another path closes the connection with its body
\* unread.  Faulty variant: it does not.
DispatchElsewhere(kind) ==
  /\ keep' \in BOOLEAN
  /\ Goes(IF kind \in {"get", "elsewhere", "unsized"} THEN "json" ELSE "body")
Dispatch(kind) ==
  /\ keep' \in IF kind = "elsewhere" THEN {FALSE} ELSE BOOLEAN
  /\ Goes(IF kind \in {"get", "elsewhere", "unsized"} THEN "json" ELSE "body")

ReadLine ==
  /\ stage = "line"
  /\ wire # <<>>
  /\ Head(wire) \in Kinds
  /\ request' = Head(wire)
  /\ wire' = Tail(wire)
  /\ Dispatch(Head(wire))
  /\ UNCHANGED owed

\* A body nobody has read is the next request line, up to its first line break or with
\* the next request's line behind it: a bad request, and the connection is closed.  The
\* request before it is still the last one served.
ReadBodyAsLine ==
  /\ stage = "line"
  /\ wire # <<>>
  /\ Head(wire) = "body"
  /\ wire' \in {Tail(wire)} \cup {Tail(Tail(wire)) : i \in {2} \cap DOMAIN wire}
  /\ keep' = FALSE
  /\ Goes("spurious")
  /\ UNCHANGED <<owed, request>>

\* No line comes: the client is gone, or the socket times out.
LineEnds ==
  /\ stage = "line"
  /\ Heads = 0
  /\ Goes("end")
  /\ UNCHANGED <<wire, owed, request, keep>>

\* _read_json_body, the whole body: invalid, or handed on.
ReadBody ==
  /\ stage = "body"
  /\ wire # <<>>
  /\ wire' = Tail(wire)
  /\ \/ Goes("json")
     \/ request \in {"plain", "stream"} /\ Goes("service")
  /\ UNCHANGED <<owed, request, keep>>

\* The body does not come: too little of it is read from a client that is gone, or the
\* read times out, which leaves the connection unreadable.
BodyEnds ==
  /\ stage = "body"
  /\ wire = <<>>
  /\ keep' \in IF conn = "gone" THEN {keep, FALSE} ELSE {FALSE}
  /\ Goes("json")
  /\ UNCHANGED <<wire, owed, request>>

\* The payload is refused, or the slot is taken: an error answer.
RefusePayload ==
  /\ stage = "service"
  /\ Goes("json")
  /\ UNCHANGED <<wire, owed, request, keep>>

CallService(m) ==
  /\ stage = "service"
  /\ Begin(Serving, m)
  /\ stage' = "generating"
  /\ UNCHANGED <<life, stopAsked, conn, wire, unsent, owed, request, keep>>

\* The call of the service goes on, to an answer or to a stream that is not started.
Generating ==
  /\ stage = "generating"
  /\ Activate(Serving) \/ Load(Serving) \/ BuildPrompt(Serving) \/ Generate(Serving)
  /\ phase'[Serving] = "running" => request = "plain"
  /\ phase'[Serving] = "reserved" => request = "stream"
  /\ stage' = CASE phase'[Serving] = "out" -> "json"
                [] phase'[Serving] = "reserved" -> "head"
                [] OTHER -> stage
  /\ UNCHANGED <<life, stopAsked, conn, wire, unsent, owed, request, keep>>

\* _send_json, or the library's answer to a bad request: it is written, or the client is
\* found to be gone.
SendJson ==
  /\ stage \in {"json", "spurious"}
  /\ \/ owed' = owed - 1 /\ Goes(IF keep THEN "line" ELSE "end")
     \/ conn = "gone" /\ UNCHANGED owed /\ Goes("end")
  /\ UNCHANGED <<wire, request, keep>>

\* _send_sse: the headers.
SendHead ==
  /\ stage = "head"
  /\ keep' = FALSE
  /\ Goes("events") \/ (conn = "gone" /\ Goes("settle"))
  /\ UNCHANGED <<wire, owed, request>>

\* The next event is pulled from the stream, which ends, raises, or has settled and goes on
\* with its last chunks.  Events that are written change nothing.
PullEvent ==
  /\ stage = "events"
  /\ StartStream(Serving) \/ Stream(Serving) \/ EndStream(Serving)
  /\ stage' = CASE phase'[Serving] # "out" -> "events"
                [] phase[Serving] = "finishing" -> "done"
                [] OTHER -> "raised"
  /\ UNCHANGED <<life, stopAsked, conn, wire, unsent, owed, request, keep>>

\* An event is not written: the client is gone, or it cannot be encoded.
LoseEvent ==
  /\ stage = "events"
  /\ phase[Serving] # "reserved"
  /\ Goes("raised") \/ (conn = "gone" /\ Goes("settle"))
  /\ UNCHANGED <<wire, owed, request, keep>>

\* _try_send_sse_error: written or not, [DONE] comes next.
SendError ==
  /\ stage = "raised"
  /\ Goes("done")
  /\ UNCHANGED <<wire, owed, request, keep>>

SendDone ==
  /\ stage = "done"
  /\ owed' = owed - 1 \/ (conn = "gone" /\ UNCHANGED owed)
  /\ Goes("settle")
  /\ UNCHANGED <<wire, request, keep>>

\* The stream is closed on the way out of _send_sse, whatever state it is in.  Faulty
\* variant: only one that has been started.
SettleStarted ==
  \/ phase[Serving] = "streaming" /\ Fail(Serving) /\ UNCHANGED registryVars
  \/ EndStream(Serving)
  \/ phase[Serving] \in {"out", "reserved"} /\ UNCHANGED vars
SettleStream ==
  \/ AbandonStream(Serving)
  \/ phase[Serving] = "streaming" /\ Fail(Serving) /\ UNCHANGED registryVars
  \/ EndStream(Serving)
  \/ phase[Serving] = "out" /\ UNCHANGED vars

Settle ==
  /\ stage = "settle"
  /\ SettleStream
  /\ stage' = "end"
  /\ UNCHANGED <<life, stopAsked, conn, wire, unsent, owed, request, keep>>

Hangup ==
  /\ stage = "end"
  /\ stage' = "away"
  /\ conn' = "none"
  /\ wire' = <<>>
  /\ unsent' = FALSE
  /\ owed' = 0
  /\ request' = None
  /\ keep' = FALSE
  /\ UNCHANGED <<vars, life, stopAsked>>

\* What the serving thread does by itself.
Answer ==
  \/ ReadLine \/ ReadBodyAsLine \/ LineEnds \/ ReadBody \/ BodyEnds
  \/ RefusePayload \/ Generating \/ SendJson
  \/ SendHead \/ PullEvent \/ LoseEvent \/ SendError \/ SendDone \/ Settle \/ Hangup
  \/ \E m \in Models : CallService(m)

Serve ==
  \/ Answer /\ life = "serving"
  \/ Listen \/ ReturnFromServe \/ Exit
  \/ \E m \in Models : Preload(m) \/ PreloadEnds(m)

Environment ==
  Signal \/ Connect \/ SendBody \/ Leave \/ \E kind \in Kinds : Send(kind)

\* The service's other callers, which exist once the server does: a preload, which takes no
\* slot, precedes every request.
Embedder(c) ==
  /\ c # Serving
  /\ life \notin {"starting", "loading", "loaded"}
  /\ Proceed(c) \/ Close(c) \/ \E m \in Models : Begin(c, m)
  /\ UNCHANGED serverVars

ServerNext == Serve \/ Environment \/ \E c \in Callers : Embedder(c)

\* The threads run on, and a socket operation ends, by its timeout if nothing else.
\* Nothing makes a client or a signal come.
ServerFairness ==
  /\ WF_allVars(Serve)
  /\ \A c \in Callers \ {Serving} : WF_allVars(Proceed(c) /\ UNCHANGED serverVars)

ServerSpec == ServerInit /\ [][ServerNext]_allVars /\ ServerFairness
--------------------------------------------------------------------------------
\* On a connection, what has been answered is what has been read: at the next request
\* line, and at the end of a connection whose client is still there, every request read
\* has had exactly one whole answer, JSON or a stream closed by [DONE], through refusals,
\* full slots, generation that raises before and after the headers, events that cannot
\* be encoded and bodies that are not waited for (app.py:1028-1138).  The exception is the
\* connection that ends on the body of a request whose length was refused.
AnswersMatchRequests ==
  conn = "open" /\ stage \in {"line", "end"}
    => owed = Heads \/ (stage = "end" /\ request = "unsized")

\* Between connections the serving thread has no unsettled generation: whatever became
\* of the client, the slot is free or another caller's (app.py:1093-1127).
NothingOutlivesAConnection ==
  stage \in {"line", "end", "away"} => phase[Serving] = "out"

\* A signal ends the process with the service closed, once the client that is being
\* served sends no more: shutdown is called beside the serving thread, the connection
\* ends by itself or by its timeout (app.py:1200-1204, cli.py:646-656).
ShutdownCompletes ==
  <>[](wire = <<>>) => (stopAsked ~> life = "exited")
--------------------------------------------------------------------------------
\* app.py:1039 "Closing this HTTP/1.1 connection prevents those unread bytes from being
\* parsed as a spurious next request by BaseHTTPRequestHandler."
UnreadBodyIsNoRequest == stage # "spurious"
================================================================================
