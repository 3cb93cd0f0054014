--------------------------------- MODULE Mcp ---------------------------------
(* The client of one external tool server (Mcp.ts): the handshake, the list  *)
(* of tools and the calls of a turn, some beside each other, each one POST   *)
(* whose reply is read from an event stream as its chunks arrive.            *)
(*                                                                           *)
(* A message is <<id, op>>: the reply the server made to the request op,     *)
(* which carried that id.                                                    *)
EXTENDS Sse

CONSTANTS
  Calls,         \* the tool calls of the turn
  Streams(_),    \* per request, the events a server may stream for it: how many
                 \* lines hold its reply, the reply due to a request beside it,
                 \* data that is no JSON, or a comment
  MaxRedirects,  \* MAX_REDIRECT_HOPS
  MaxCut         \* bound: characters missing when a stream breaks off

Handshake == {"initialize", "initialized", "list"}
Ops == Handshake \cup Calls

Shapes == [of : {"due", "beside", "text", "comment"}, n : Nat \ {0}]

ASSUME McpAssumption ==
  /\ {MaxRedirects, MaxCut} \subseteq Nat
  /\ \A o \in Ops : Streams(o) \subseteq Seq(Shapes)

VARIABLES
  counter,  \* the last id used
  ops       \* per request, its exchange with the server

mcpVars == <<counter, ops>>

\* An exchange: of "text", the server's stream of "events" on lines that end
\* in "eol", the client has read "read" characters and keeps "buffer"; the
\* server may keep the stream open behind it.
Fresh == [pc |-> "idle", id |-> 0, hops |-> MaxRedirects, events |-> <<>>, eol |-> <<nl>>,
          text |-> <<>>, open |-> TRUE, read |-> 0, buffer |-> <<>>, reply |-> <<>>]

McpInit == counter = 0 /\ ops = [o \in Ops |-> Fresh]

Due(o) == <<ops[o].id, o>>

-----------------------------------------------------------------------------
(* The exchanges.                                                            *)

InFlight(o) == ops[o].pc \in {"posting", "reading"}
Done(o) == ops[o].pc = "done"

\* An exchange ends: nothing of it is kept but how, and its reply.
Ends(o, pc, reply) ==
  ops' = [ops EXCEPT ![o] = [Fresh EXCEPT !.pc = pc, !.id = ops[o].id, !.reply = reply]]

\* connect runs the handshake in its order; listTools and callTool follow.
MayBegin(o) ==
  CASE o = "initialize" -> TRUE
    [] o = "initialized" -> Done("initialize")
    [] o = "list" -> Done("initialized")
    [] OTHER -> Done("list")

\* Mutant: an id that does not count.
NextIdFixed(o) == 1

\* The notification has no id.
NextId(o) == IF o = "initialized" THEN 0 ELSE counter + 1

Begin(o) ==
  /\ ops[o].pc = "idle" /\ MayBegin(o)
  /\ ops' = [ops EXCEPT ![o] = [@ EXCEPT !.pc = "posting", !.id = NextId(o)]]
  /\ counter' = IF o = "initialized" THEN counter ELSE counter + 1

\* ensureAllowed: a scheme or host that is not permitted, before any request.
Reject ==
  /\ ops["initialize"].pc = "idle"
  /\ Ends("initialize", "failed", <<>>)
  /\ UNCHANGED counter

\* A redirect is followed by hand, each host checked first, five times at most.
Redirect(o) ==
  /\ ops[o].pc = "posting"
  /\ \/ ops[o].hops > 0 /\ ops' = [ops EXCEPT ![o].hops = @ - 1]
     \/ Ends(o, "failed", <<>>)
  /\ UNCHANGED counter

\* The network, a status that is not 2xx, or a body that cannot be read.
Fails(o) ==
  /\ InFlight(o)
  /\ Ends(o, "failed", <<>>)
  /\ UNCHANGED counter

\* A message has come: its result, unless it is an error or, in the handshake,
\* not of the shape it should be.
Settles(o, reply) == Ends(o, "done", reply) \/ Ends(o, "failed", <<>>)

\* The notification is taken, its body discarded; a plain JSON body is the
\* reply whatever its id.
RespondAtOnce(o) ==
  /\ ops[o].pc = "posting"
  /\ Settles(o, IF o = "initialized" THEN <<>> ELSE Due(o))
  /\ UNCHANGED counter

\* A reply to a call beside o that is on its way, or none.
Beside(o) == {<<>>} \cup {Due(p) : p \in {p \in Calls \ {o} : InFlight(p)}}

Streamed(o, shapes, beside) ==
  [k \in DOMAIN shapes |->
     [of |-> CASE shapes[k].of = "due" -> Due(o)
               [] shapes[k].of = "beside" -> beside
               [] OTHER -> <<>>,
      start |-> IF shapes[k].of = "comment" THEN other ELSE data,
      n |-> shapes[k].n]]

\* The server streams; it may break off, or hold the channel open.
RespondStreamed(o) ==
  /\ ops[o].pc = "posting" /\ o # "initialized"
  /\ \E shapes \in Streams(o), beside \in Beside(o), eol \in {<<nl>>, <<cr, nl>>},
        open \in BOOLEAN, cut \in 0..MaxCut :
       LET events == Streamed(o, shapes, beside)
           full == Encoded(events, eol)
       IN /\ beside = <<>> <=> \A k \in DOMAIN shapes : shapes[k].of # "beside"
          /\ cut <= Len(full) /\ (open => cut = 0)
          /\ ops' = [ops EXCEPT ![o] =
                       [@ EXCEPT !.pc = "reading", !.events = events, !.eol = eol, !.open = open,
                                 !.text = SubSeq(full, 1, Len(full) - cut)]]
  /\ UNCHANGED counter

\* The next chunk, of any size: the first match ends the reading.
ReadSseChunk(o) ==
  /\ ops[o].pc = "reading"
  /\ \E upto \in (ops[o].read + 1)..Len(ops[o].text) :
       LET parsed == ParseSseFrames(ops[o].buffer \o SubSeq(ops[o].text, ops[o].read + 1, upto))
           matched == MatchFrameById(parsed.frames, ops[o].id)
       IN IF matched # <<>> THEN Settles(o, matched)
          ELSE ops' = [ops EXCEPT ![o] = [@ EXCEPT !.read = upto, !.buffer = parsed.rest]]
  /\ UNCHANGED counter

\* The stream ends; an event without its blank line still counts.
StreamEnds(o) ==
  /\ ops[o].pc = "reading" /\ ~ops[o].open /\ ops[o].read = Len(ops[o].text)
  /\ LET matched == MatchFrameById(<<FlushSseFrame(ops[o].buffer)>>, ops[o].id)
     IN IF matched # <<>> THEN Settles(o, matched) ELSE ops' = [ops EXCEPT ![o].pc = "unanswered"]
  /\ UNCHANGED counter

\* Ten seconds for the whole exchange, redirects and reading included; the
\* five seconds of a discovery come before them.
Timeout(o) ==
  /\ InFlight(o)
  /\ Ends(o, "failed", <<>>)
  /\ UNCHANGED counter

McpNext ==
  \/ Reject
  \/ \E o \in Ops : \/ Begin(o) \/ Redirect(o) \/ Fails(o) \/ Timeout(o)
                    \/ RespondAtOnce(o) \/ RespondStreamed(o)
                    \/ ReadSseChunk(o) \/ StreamEnds(o)

McpSpec == McpInit /\ [][McpNext]_mcpVars

-----------------------------------------------------------------------------
(* Properties.                                                               *)

\* Requests beside each other get their own replies, although a server may put
\* the reply of one on the stream of the other.
AnswersItsRequest ==
  \A o \in Ops \ {"initialized"} : Done(o) => ops[o].reply = Due(o)

\* The events, of what the server streamed, that hold the reply.
Replies(o) == {k \in DOMAIN ops[o].events : ops[o].events[k].of = Due(o)}

\* A reply is taken as soon as its event is complete, wherever the chunks were
\* cut, so that a server may keep the stream open; and at the end of the
\* stream, a reply whose lines are all there was not missed.
ReplyIsTaken ==
  \A o \in Ops : \A k \in Replies(o) :
    LET end == Bounds(ops[o].events, ops[o].eol)[k] IN
    /\ ops[o].pc = "reading" => ops[o].read < end
    /\ ops[o].pc = "unanswered" => Len(ops[o].text) < end - 2 * Len(ops[o].eol)
=============================================================================
