----------------------------- MODULE TokenPath -----------------------------
(***************************************************************************)
(* The way of a generated token to the client, over three processes and    *)
(* five bounded buffers: the engine (cgn-infer's scheduler, module         *)
(* Emission, and its SSE server, or another OpenAI-compatible engine), the *)
(* agent (the HTTP driver openai_http.rs and the pump of grpc.rs), the     *)
(* router (gateway/generate.rs and sse.rs, or the gRPC surface             *)
(* routing/grpc.rs) and the client.  Each process may die, time out, or    *)
(* find its reader gone; an item a task holds while it waits for room      *)
(* counts with the buffer it was taken from.                               *)
(***************************************************************************)
EXTENDS Emission

CONSTANTS Cap,        \* capacity of each buffer (64 in the code)
          MaxFaults   \* bound on engine deaths and timeouts

ASSUME PathConstants == Cap \in Nat \ {0} /\ MaxFaults \in Nat

VARIABLES
    kind,      \* the engine: "native" (cgn-infer) or "other"
    surface,   \* the router's: "http" or "grpc"
    out,       \* events the scheduler thread has yet to send (blocking_send)
    events,    \* the channel to the engine's HTTP server
    body,      \* SSE frames of the HTTP response on their way
    bodyEnd,   \* the response: "open", "head" (begun), ended by "eof" or "reset"
    driver,    \* OpenAiHttpEngine::generate: "post", "read", or its result
    saw,       \* its saw_finish
    pipe,      \* the channel from the driver to the agent's pump
    pump,      \* the pump: "run" or "done"
    tx,        \* the response channel and stream from the agent to the router
    agent,     \* the agent's task: "run" or "ended"
    confirmed, \* it has queued the prompt's digests
    router,    \* "first" (waiting for a first token), "pump", "ended", "failed"
    sse,       \* the channel to the response body
    client,    \* "open", "gone", "done" ([DONE] seen) or "failed" (an error seen)
    got,       \* the text it has received
    fins,      \* the finish reasons it has received
    faults

serving == <<out, events, body, bodyEnd>>
agentSide == <<driver, saw, pipe, pump, tx, agent, confirmed>>
routerSide == <<router, sse, client, got, fins>>
config == <<kind, surface>>
path == <<serving, agentSide, routerSide, config, faults>>
all == <<vars, path>>

Fault == faults < MaxFaults /\ faults' = faults + 1

Room(channel) == Len(channel) < Cap
Event(text, fin) == [text |-> text, fin |-> fin]
Frame(what, ev) == [what |-> what, text |-> ev.text, fin |-> ev.fin]
Blank == Event(<<>>, "none")

PathInit ==
    /\ Init
    /\ kind \in {"native", "other"} /\ surface \in {"http", "grpc"}
    /\ out = <<>> /\ events = <<>> /\ body = <<>> /\ bodyEnd = "open"
    /\ driver = "post" /\ saw = FALSE /\ pipe = <<>> /\ pump = "run"
    /\ tx = <<>> /\ agent = "run" /\ confirmed = FALSE
    /\ router = "first" /\ sse = <<>>
    /\ client = "open" /\ got = <<>> /\ fins = <<>>
    /\ faults = 0

-----------------------------------------------------------------------------
(* The engine.  Its scheduler thread decodes the next token only when the  *)
(* events of the last one are sent.                                        *)
Delta == SubSeq(sent', Len(sent) + 1, Len(sent'))

Emits ==
    out' = (IF Delta = <<>> THEN <<>> ELSE <<Event(Delta, "none")>>)
             \o (IF fate' = "open" THEN <<>>
                   ELSE <<Event(<<>>, IF fate' = "length" THEN "length" ELSE "stop")>>)

Decodes ==
    /\ kind = "native" /\ driver # "post" /\ out = <<>>
    /\ PushEos \/ (\E token \in Tokens : PushToken(token))
    /\ Emits
    /\ UNCHANGED <<events, body, bodyEnd, agentSide, routerSide, config, faults>>

\* The runtime or the tokenizer fails, or the request never got that far.
GenerationFails ==
    /\ kind = "native" /\ driver # "post" /\ out = <<>> /\ fate = "open"
    /\ fate' = "error" /\ out' = <<Event(<<>>, "error")>>
    /\ UNCHANGED <<generated, emitted, sent, events, body, bodyEnd, agentSide, routerSide, config>>
    /\ Fault

\* The agent has dropped the response, and with it the server's receiver.
ResponseDropped == driver \in {"ok", "unavailable", "invalid", "internal"}

\* blocking_send: waits for room; a reader that has gone ends the sequence.
EngineSends ==
    /\ out # <<>>
    /\ \/ /\ Room(events) /\ ~ResponseDropped
          /\ out' = Tail(out) /\ events' = Append(events, Head(out)) /\ fate' = fate
       \/ /\ ResponseDropped
          /\ out' = <<>> /\ events' = events
          /\ fate' = IF fate = "open" THEN "gone" ELSE fate
    /\ UNCHANGED <<generated, emitted, sent, body, bodyEnd, agentSide, routerSide, config, faults>>

\* chat_sse_stream opens with a role-only chunk, completion_sse_stream does not.
ServerOpens ==
    /\ kind = "native" /\ driver = "read" /\ body = <<>> /\ bodyEnd = "open"
    /\ body' \in {<<>>, <<Frame("role", Blank)>>} /\ bodyEnd' = "head"
    /\ UNCHANGED <<vars, out, events, agentSide, routerSide, config, faults>>

\* One chunk per event, and [DONE] after the one with a finish reason.
ServerChunk ==
    /\ bodyEnd = "head" /\ events # <<>> /\ Room(body)
    /\ LET ev == Head(events) IN
          body' = body \o <<Frame("chunk", ev)>>
                       \o (IF ev.fin = "none" THEN <<>> ELSE <<Frame("done", Blank)>>)
    /\ events' = Tail(events)
    /\ UNCHANGED <<vars, out, bodyEnd, agentSide, routerSide, config, faults>>

\* The response ends with the channel.
ServerCloses ==
    /\ bodyEnd = "head" /\ events = <<>> /\ out = <<>> /\ fate # "open"
    /\ bodyEnd' = "eof"
    /\ UNCHANGED <<vars, out, events, body, agentSide, routerSide, config, faults>>

\* Another engine: text, text with the finish reason, a finish reason alone,
\* frames without either, [DONE]; it may close without [DONE].
OtherFrames == {"chunk", "last", "finish", "usage", "junk", "done"}
OtherFrame(what, token) ==
    /\ kind = "other" /\ driver = "read" /\ bodyEnd = "open" /\ Room(body)
    /\ what \in {"chunk", "last"} => fate = "open" /\ token \in Pieces /\ Len(generated) < Budget
    /\ what = "finish" => fate = "open"
    /\ LET text == IF what \in {"chunk", "last"} THEN token ELSE <<>>
           ends == what \in {"last", "finish"}
       IN /\ body' = Append(body, Frame(IF what \in {"last", "finish"} THEN "chunk" ELSE what,
                                        Event(text, IF ends THEN "stop" ELSE "none")))
          /\ sent' = sent \o text
          /\ generated' = IF text = <<>> THEN generated ELSE Append(generated, token)
          /\ emitted' = Len(sent')
          /\ fate' = IF ends \/ (what = "done" /\ fate = "open") THEN "finished" ELSE fate
          /\ bodyEnd' = IF what = "done" THEN "eof" ELSE "open"
    /\ UNCHANGED <<out, events, agentSide, routerSide, config, faults>>

OtherCloses ==
    /\ kind = "other" /\ driver # "post" /\ bodyEnd = "open"
    /\ bodyEnd' = "eof" /\ fate' = IF fate = "open" THEN "gone" ELSE fate
    /\ UNCHANGED <<generated, emitted, sent, out, events, body, agentSide, routerSide, config,
                   faults>>

\* The engine process dies: what it had not yet sent is lost.
EngineDies ==
    /\ driver # "post" /\ bodyEnd \in {"open", "head"} /\ Fault
    /\ bodyEnd' = "reset" /\ events' = <<>> /\ out' = <<>>
    /\ fate' = IF fate = "open" THEN "gone" ELSE fate
    /\ UNCHANGED <<generated, emitted, sent, body, agentSide, routerSide, config>>

Engine ==
    \/ Decodes \/ EngineSends
    \/ ServerOpens \/ ServerChunk \/ ServerCloses

-----------------------------------------------------------------------------
(* The agent: OpenAiHttpEngine::generate, the pump beside it, the task.    *)
Statuses == {"200", "429", "503", "408", "4xx", "5xx", "refused"}
ClassifyEngineStatus(status) ==
    CASE status \in {"429", "503", "refused"} -> "unavailable"
      [] status = "4xx" -> "invalid"
      [] OTHER -> "internal"

\* The POST: an engine that refuses it has no sequence.
Post(status) ==
    /\ driver = "post"
    /\ driver' = IF status = "200" THEN "read" ELSE ClassifyEngineStatus(status)
    /\ fate' = IF status = "200" THEN fate ELSE "gone"
    /\ UNCHANGED <<generated, emitted, sent, serving, saw, pipe, pump, tx, agent, confirmed,
                   routerSide, config, faults>>

\* tx.send of the driver: refused once the pump is gone.
DriverSends(token, next) ==
    \/ pump = "run" /\ Room(pipe) /\ pipe' = Append(pipe, token) /\ driver' = next
    \/ pump = "done" /\ pipe' = pipe /\ driver' = "ok"

TerminalToken == Event(<<>>, IF saw THEN "none" ELSE "stop")

\* One frame of the response.
DriverReads ==
    /\ driver = "read" /\ body # <<>>
    /\ LET f == Head(body) IN
          \/ /\ f.what = "done"
             /\ DriverSends(TerminalToken, "ok") /\ saw' = saw
          \/ /\ f.what \in {"role", "usage", "junk"}
             /\ UNCHANGED <<driver, pipe, saw>>
          \/ /\ f.what = "chunk"
             /\ DriverSends(Event(f.text, f.fin), "read")
             /\ saw' = (saw \/ f.fin # "none")
    /\ body' = Tail(body)
    /\ UNCHANGED <<vars, out, events, bodyEnd, pump, tx, agent, confirmed, routerSide, config,
                   faults>>

\* Mutant: a response that just ends is taken for a complete one.
DriverEndsTrusting ==
    /\ driver = "read" /\ body = <<>> /\ bodyEnd \in {"eof", "reset"}
    /\ IF bodyEnd = "reset" THEN driver' = "internal" /\ pipe' = pipe
                            ELSE DriverSends(TerminalToken, "ok")
    /\ UNCHANGED <<vars, serving, saw, pump, tx, agent, confirmed, routerSide, config, faults>>

\* The response ends: with an error, short of a finish reason, or complete.
DriverEnds ==
    /\ driver = "read" /\ body = <<>> /\ bodyEnd \in {"eof", "reset"}
    /\ IF bodyEnd = "reset" \/ ~saw THEN driver' = "internal" /\ pipe' = pipe
                                    ELSE DriverSends(TerminalToken, "ok")
    /\ UNCHANGED <<vars, serving, saw, pump, tx, agent, confirmed, routerSide, config, faults>>

\* No byte for read_timeout.
ReadTimeout ==
    /\ driver = "read" /\ body = <<>> /\ bodyEnd \in {"open", "head"} /\ Fault
    /\ driver' = "internal"
    /\ UNCHANGED <<vars, serving, saw, pipe, pump, tx, agent, confirmed, routerSide, config>>

\* The router has dropped the stream.
StreamDropped == router \in {"ended", "failed"}

\* Mutant: the pump goes on reading for nobody and never drops its receiver.
PumpHoldsOn ==
    /\ pump = "run"
    /\ \/ /\ pipe # <<>> /\ Room(tx) /\ ~StreamDropped
          /\ tx' = Append(tx, Head(pipe)) /\ pipe' = Tail(pipe) /\ pump' = pump
       \/ /\ pipe # <<>> /\ StreamDropped
          /\ UNCHANGED <<pump, pipe, tx>>
       \/ /\ pipe = <<>> /\ ResponseDropped
          /\ pump' = "done" /\ UNCHANGED <<pipe, tx>>
    /\ UNCHANGED <<vars, serving, driver, saw, agent, confirmed, routerSide, config, faults>>

\* while let Some(t) = e_rx.recv(): forward, until the driver is done or the
\* stream is dropped.
PumpForwards ==
    /\ pump = "run"
    /\ \/ /\ pipe # <<>> /\ Room(tx) /\ ~StreamDropped
          /\ tx' = Append(tx, Head(pipe)) /\ pipe' = Tail(pipe) /\ pump' = pump
       \/ /\ pipe # <<>> /\ StreamDropped
          /\ pump' = "done" /\ pipe' = <<>> /\ tx' = tx
       \/ /\ pipe = <<>> /\ ResponseDropped
          /\ pump' = "done" /\ UNCHANGED <<pipe, tx>>
    /\ UNCHANGED <<vars, serving, driver, saw, agent, confirmed, routerSide, config, faults>>

\* Both sides of the join are done: the digests are queued, or the error is the
\* stream's last item.
TaskEnds ==
    /\ agent = "run" /\ pump = "done" /\ ResponseDropped
    /\ \/ driver = "ok" /\ confirmed' = TRUE /\ tx' = tx
       \/ driver # "ok" /\ StreamDropped /\ UNCHANGED <<confirmed, tx>>
       \/ /\ driver # "ok" /\ ~StreamDropped /\ Room(tx)
          /\ tx' = Append(tx, Event(<<>>, driver)) /\ confirmed' = confirmed
    /\ agent' = "ended"
    /\ UNCHANGED <<vars, serving, driver, saw, pipe, pump, routerSide, config, faults>>

Driver == (\E status \in Statuses : Post(status)) \/ DriverReads \/ DriverEnds
Agent == PumpForwards \/ TaskEnds

-----------------------------------------------------------------------------
(* The router and the client.                                              *)
IsError(item) == item.fin \in {"unavailable", "invalid", "internal"}

Dropped == router' = "failed" /\ tx' = <<>> /\ sse' = sse

\* first_token: an error or the end of the stream goes to another node or to
\* the caller, and so does waiting too long.  The gRPC surface has no such step.
FirstToken ==
    /\ router = "first" /\ surface = "http"
    /\ \/ tx # <<>> /\ IsError(Head(tx)) /\ Dropped
       \/ tx # <<>> /\ ~IsError(Head(tx)) /\ router' = "pump" /\ UNCHANGED <<tx, sse>>
       \/ tx = <<>> /\ agent = "ended" /\ Dropped
    /\ UNCHANGED <<vars, serving, driver, saw, pipe, pump, agent, confirmed, client, got, fins,
                   config, faults>>

FirstTokenTimeout ==
    /\ router = "first" /\ surface = "http" /\ tx = <<>> /\ Fault
    /\ Dropped
    /\ UNCHANGED <<vars, serving, driver, saw, pipe, pump, agent, confirmed, client, got, fins,
                   config>>

ForwardBegins ==
    /\ router = "first" /\ surface = "grpc"
    /\ router' = "pump"
    /\ UNCHANGED <<vars, serving, agentSide, sse, client, got, fins, config, faults>>

\* pump (http) and forward (grpc): one item.  The http one drops a token that
\* only carries usage; both stop at an error and when the client is gone.
RouterForwards ==
    /\ router = "pump" /\ tx # <<>>
    /\ LET item == Head(tx) IN
          \/ /\ surface = "http" /\ item = Blank
             /\ tx' = Tail(tx) /\ UNCHANGED <<sse, router>>
          \/ /\ item # Blank \/ surface = "grpc"
             /\ client = "open" /\ Room(sse)
             /\ sse' = Append(sse, item)
             /\ IF IsError(item) THEN router' = "failed" /\ tx' = <<>>
                                 ELSE router' = router /\ tx' = Tail(tx)
          \/ /\ item # Blank \/ surface = "grpc"
             /\ client # "open"
             /\ router' = "ended" /\ tx' = <<>> /\ sse' = sse
    /\ UNCHANGED <<vars, serving, driver, saw, pipe, pump, agent, confirmed, client, got, fins,
                   config, faults>>

RouterEnds ==
    /\ router = "pump" /\ tx = <<>> /\ agent = "ended"
    /\ router' = "ended"
    /\ UNCHANGED <<vars, serving, agentSide, sse, client, got, fins, config, faults>>

\* encode: data frames; an error frame ends the body; a channel that closes
\* without one gives [DONE].  A request that failed before it streamed gets an
\* error answer.
ClientReads ==
    /\ client = "open"
    /\ \/ /\ sse # <<>>
          /\ sse' = Tail(sse)
          /\ client' = IF IsError(Head(sse)) THEN "failed" ELSE client
          /\ got' = got \o Head(sse).text
          /\ fins' = IF Head(sse).fin = "none" \/ IsError(Head(sse)) THEN fins
                     ELSE Append(fins, Head(sse).fin)
       \/ /\ sse = <<>> /\ StreamDropped
          /\ client' = IF router = "failed" THEN "failed" ELSE "done"
          /\ UNCHANGED <<sse, got, fins>>
    /\ UNCHANGED <<vars, serving, agentSide, router, config, faults>>

ClientLeaves ==
    /\ client = "open"
    /\ client' = "gone" /\ sse' = <<>>
    /\ UNCHANGED <<vars, serving, agentSide, router, got, fins, config, faults>>

Router == FirstToken \/ ForwardBegins \/ RouterForwards \/ RouterEnds

-----------------------------------------------------------------------------
Rest ==
    /\ client # "open" /\ agent = "ended" /\ fate # "open" /\ StreamDropped
    /\ UNCHANGED all

PathNext ==
    \/ Engine \/ GenerationFails \/ EngineDies
    \/ \E what \in OtherFrames, token \in Pieces : OtherFrame(what, token)
    \/ OtherCloses
    \/ Driver \/ ReadTimeout
    \/ Agent
    \/ Router \/ FirstTokenTimeout
    \/ ClientReads \/ ClientLeaves
    \/ Rest

PathSpec == PathInit /\ [][PathNext]_all

\* Every task runs; an engine that is neither answering nor closing runs into
\* the read timeout or is seen dead; a client reads, or its connection breaks.
PathLiveSpec ==
    /\ PathSpec
    /\ WF_all(Engine \/ OtherCloses) /\ WF_all(Driver) /\ WF_all(Agent) /\ WF_all(Router)
    /\ WF_all(ClientReads \/ ClientLeaves)

-----------------------------------------------------------------------------
\* End to end the client receives the engine's text in order, each piece once,
\* whatever buffer fills, process dies or reader leaves on the way; and [DONE] (a
\* clean end on the gRPC surface) is never seen on a truncated answer: the client
\* then has all the text of an engine that finished, and one finish reason.
DoneIsWhole ==
    /\ StartsWith(sent, got)
    /\ client = "done" => got = sent /\ Len(fins) = 1 /\ fate \notin {"open", "gone"}

\* Every task of the path ends, and the client with it.  In particular a client
\* that leaves frees the engine: the disconnect travels back through every full
\* buffer to the scheduler thread.
StreamEnds ==
    <>[](client # "open" /\ agent = "ended" /\ StreamDropped /\ fate # "open" /\ out = <<>>)

=============================================================================
