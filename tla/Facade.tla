-------------------------------- MODULE Facade --------------------------------
(* The three drivers that answer within their request: the prompt handler    *)
(* (handlers.ts, PromptTurn.ts), and the collected and the streamed turn of  *)
(* the OpenAI facade (OpenAiHandlers.ts, OpenAiTurn.ts), beside each other   *)
(* in one session whose rules a human may change meanwhile.  A piece of text *)
(* is named by its request, its hop and its place in the hop.                *)
EXTENDS Toolkit

CONSTANTS
  Requests,      \* the requests clients make
  Starts,        \* where it begins: the configuration the session stores, and
                 \* per request its kind ("none" for one that is not made)
  Flips,         \* the <<tool, rule>> a human may set
  Caps,          \* the budgets a human may set, 0 for none
  Called,        \* the local tools the model calls
  Offers,        \* what a server may answer with: sequences of definitions
  Costs,         \* the tokens a hop may use
  MaxHops,       \* MAX_TOOL_HOPS
  QueueSize,     \* the bound of the queue of chunks (64)
  MaxDeltas,     \* bound: text deltas of a hop
  MaxCalls,      \* bound: tool calls of a request
  MaxFlips,      \* bound: changes of the configuration
  MaxFaults      \* bound: failures and departures

ASSUME FacadeAssumption ==
  /\ IsFiniteSet(Requests)
  /\ \A s \in Starts : /\ DOMAIN s.stored = {"rules", "cap", "servers"} /\ s.stored.cap \in Nat
                       /\ \A t \in DOMAIN s.stored.rules : s.stored.rules[t] \in Rules
                       /\ s.stored.servers \in Seq(ToSet(s.stored.servers))
                       /\ s.kinds \in [Requests -> {"none", "prompt", "collect", "stream"}]
  /\ Called \subseteq LocalTools /\ \A flip \in Flips : flip[2] \in Rules
  /\ \A offer \in Offers : offer \in Seq(ToSet(offer))
  /\ \E c \in Costs : \A d \in Costs : d <= c
  /\ Caps \cup Costs \subseteq Nat /\ {MaxHops, QueueSize} \subseteq Nat \ {0}
  /\ {MaxDeltas, MaxCalls, MaxFlips, MaxFaults} \subseteq Nat

VARIABLES
  stored,     \* the configuration overrides of the session
  req,        \* per request, its handler
  journal,    \* per request, the rows of its turn
  usage,      \* what all the usage rows of the session add up to (usageTotals)
  client,     \* per request, what its client has received
  effects,    \* the calls that changed something
  flips, faults

vars == <<stored, req, journal, usage, client, effects, flips, faults>>

Idle(kind) ==
  [pc |-> "idle", kind |-> kind,
   cfg |-> ResolveConfig([rules |-> <<>>, cap |-> 0, servers |-> <<>>]), mcp |-> NoMcpTools,
   prior |-> 0, running |-> 0, hop |-> 0, calls |-> 0,
   text |-> <<>>, cost |-> 0, finish |-> "none", queue |-> <<>>]

\* The chunk that says the answer is complete, where others hold a piece.
Stop == <<>>

NoRows == [open |-> FALSE, text |-> {}, spend |-> 0, ends |-> {}]

Init ==
  /\ \E s \in Starts : /\ stored = s.stored
                       /\ req = [r \in Requests |-> Idle(s.kinds[r])]
  /\ journal = [r \in Requests |-> NoRows]
  /\ client = [r \in Requests |-> [text |-> {}, end |-> "none"]]
  /\ usage = 0 /\ effects = {} /\ flips = 0 /\ faults = 0

\* budgetExceeded; a cap of 0 stands for null.
BudgetExceeded(spent, cap) == cap # 0 /\ spent >= cap

At(r, pc) == req[r].pc = pc
Go(r, pc) == req' = [req EXCEPT ![r].pc = pc]

\* The handler returns: what it held is gone, but for what it had read first.
Return(r) ==
  req' = [req EXCEPT ![r] =
            [Idle(@.kind) EXCEPT !.pc = "ended", !.cfg = req[r].cfg, !.prior = req[r].prior]]

\* What the rules of a request are at the tools: the facade coerces them.
RulesOf(r) ==
  IF req[r].kind = "prompt" THEN req[r].cfg.rules ELSE AutoApproveRules(req[r].cfg.rules)

-----------------------------------------------------------------------------
(* Up to the turn.                                                           *)

\* loadResolvedConfig: everything the turn goes by, read once.
ReadConfig(r) ==
  /\ At(r, "idle") /\ req[r].kind # "none"
  /\ req' = [req EXCEPT ![r] = [@ EXCEPT !.pc = "config", !.cfg = ResolveConfig(stored)]]
  /\ UNCHANGED <<stored, journal, usage, client, effects, flips, faults>>

\* usageTotals, and 402 when the session has nothing left.
ReadSpend(r) ==
  /\ At(r, "config")
  /\ IF BudgetExceeded(usage, req[r].cfg.cap)
       THEN /\ Return(r)
            /\ client' = [client EXCEPT ![r].end = "402"]
       ELSE /\ req' = [req EXCEPT ![r] = [@ EXCEPT !.pc = "admitted", !.prior = usage,
                                                   !.running = usage]]
            /\ UNCHANGED client
  /\ UNCHANGED <<stored, journal, usage, effects, flips, faults>>

\* buildSessionToolkit: each server answers within its five seconds, or adds
\* nothing.
BuildToolkit(r) ==
  /\ At(r, "admitted")
  /\ \E answers \in [ToSet(DedupeServers(req[r].cfg.servers)) -> Offers] :
       req' = [req EXCEPT ![r] =
                 [@ EXCEPT !.pc = "built",
                           !.mcp = BuildMcpTools(req[r].cfg.servers, answers)]]
  /\ UNCHANGED <<stored, journal, usage, client, effects, flips, faults>>

\* loadOverlay and the check for a user message may refuse the request before
\* its turn exists.
Refuse(r) ==
  /\ At(r, "built") /\ faults < MaxFaults
  /\ faults' = faults + 1
  /\ Return(r)
  /\ client' = [client EXCEPT ![r].end = "refused"]
  /\ UNCHANGED <<stored, journal, usage, effects, flips>>

\* openTurn; the role chunk a streaming driver then offers carries no text.
OpenTurn(r) ==
  /\ At(r, "built")
  /\ journal' = [journal EXCEPT ![r].open = TRUE]
  /\ Go(r, "loop")
  /\ UNCHANGED <<stored, usage, client, effects, flips, faults>>

-----------------------------------------------------------------------------
(* The hops.                                                                 *)

MayHop(r) == req[r].hop < MaxHops /\ ~BudgetExceeded(req[r].running, req[r].cfg.cap)

\* The model is called with the prompt so far.  A collected turn keeps only
\* the text of its last hop.
StartHop(r) ==
  /\ At(r, "loop") /\ MayHop(r)
  /\ req' = [req EXCEPT ![r] = [@ EXCEPT !.pc = "hop", !.text = <<>>, !.cost = 0, !.finish = "none"]]
  /\ UNCHANGED <<stored, journal, usage, client, effects, flips, faults>>

\* The cap on hops or the budget ends the loop without a terminal row.
StopLoop(r) ==
  /\ At(r, "loop") /\ ~MayHop(r)
  /\ Go(r, "closing")
  /\ UNCHANGED <<stored, journal, usage, client, effects, flips, faults>>

HasRoom(r) == req[r].kind # "stream" \/ Len(req[r].queue) < QueueSize

\* A text delta: a streamed turn offers it to the client at once and waits
\* while the queue is full.
TextDelta(r) ==
  /\ At(r, "hop") /\ Len(req[r].text) < MaxDeltas /\ HasRoom(r)
  /\ LET piece == <<r, req[r].hop, Len(req[r].text) + 1>>
     IN req' = [req EXCEPT ![r] =
                  [@ EXCEPT !.text = Append(req[r].text, piece),
                            !.queue = IF req[r].kind = "stream" THEN Append(req[r].queue, piece)
                                      ELSE req[r].queue]]
  /\ UNCHANGED <<stored, journal, usage, client, effects, flips, faults>>

\* The tools on offer: the local ones and those the servers answered with.
Offered(r) == Called \cup DOMAIN req[r].mcp.handlers

Outcomes(r, tool) ==
  IF tool \in DOMAIN req[r].mcp.handlers THEN McpHandler(RulesOf(r), tool)
  ELSE LocalHandler(RulesOf(r), tool)

\* The definition the model was shown under a name.
Advertised(r, tool) == {t.of : t \in {t \in ToSet(req[r].mcp.tools) : t.name = tool}}

Effect(r, tool, answer) ==
  [by |-> r, tool |-> tool, effect |-> answer.effect,
   at |-> IF tool \in DOMAIN req[r].mcp.handlers THEN {req[r].mcp.handlers[tool]} ELSE {},
   advertised |-> Advertised(r, tool)]

\* A call the rules let through, during the hop.
CallTool(r, tool) ==
  /\ At(r, "hop") /\ req[r].calls < MaxCalls /\ tool \in Offered(r)
  /\ ~NeedsApproval(RulesOf(r), tool)
  /\ \E answer \in Outcomes(r, tool) :
       effects' = effects \cup (IF answer.effect = "none" THEN {} ELSE {Effect(r, tool, answer)})
  /\ req' = [req EXCEPT ![r].calls = @ + 1]
  /\ UNCHANGED <<stored, journal, usage, client, flips, faults>>

\* A call that needs approval is not run: the hop ends with the request for
\* it, and the prompt driver parks the turn.
AskApproval(r, tool) ==
  /\ At(r, "hop") /\ req[r].calls < MaxCalls /\ tool \in Offered(r)
  /\ NeedsApproval(RulesOf(r), tool)
  /\ \E c \in Costs :
       req' = [req EXCEPT ![r] = [@ EXCEPT !.pc = "batch", !.calls = req[r].calls + 1, !.finish = "approval",
                                           !.cost = c]]
  /\ UNCHANGED <<stored, journal, usage, client, effects, flips, faults>>

\* The model finishes: it is done, or it waits for the results of its tools,
\* or (streamed) the parts end without a finish and without usage.
HopEnds(r) ==
  /\ At(r, "hop")
  /\ \/ \E f \in {"stop", "tool-calls"}, c \in Costs :
          req' = [req EXCEPT ![r] = [@ EXCEPT !.pc = "batch", !.finish = f, !.cost = c]]
     \/ /\ req[r].kind = "stream"
        /\ req' = [req EXCEPT ![r] = [@ EXCEPT !.pc = "batch", !.finish = "none", !.cost = 0]]
  /\ UNCHANGED <<stored, journal, usage, client, effects, flips, faults>>

Terminal(r) == req[r].finish # "tool-calls"

\* The terminal rows of a hop: done for a finish; a facade turn that was asked
\* for approval is an error, a prompt parks on a row that is not terminal.
EndsOf(r) ==
  CASE req[r].finish = "stop" -> {"done"}
    [] req[r].finish = "approval" -> IF req[r].kind = "prompt" THEN {"parked"} ELSE {"error"}
    [] OTHER -> {}

\* journalHopBatch: text, usage and, at the end, done, in one append (the row
\* of an approval goes just before, in its own).
JournalHop(r) ==
  /\ journal' = [journal EXCEPT ![r] =
                   [@ EXCEPT !.text = journal[r].text \cup ToSet(req[r].text),
                             !.spend = journal[r].spend + req[r].cost,
                             !.ends = journal[r].ends \cup EndsOf(r)]]
  /\ usage' = usage + req[r].cost

\* Mutant: the running total stays what it was at the start.
BatchWithoutSpend(r) ==
  /\ At(r, "batch")
  /\ JournalHop(r)
  /\ req' = [req EXCEPT ![r] = [@ EXCEPT !.pc = IF Terminal(r) THEN "closing" ELSE "loop",
                                         !.hop = req[r].hop + 1]]
  /\ UNCHANGED <<stored, client, effects, flips, faults>>

\* The hop is journaled and its spend added to the running total.
JournalBatch(r) ==
  /\ At(r, "batch")
  /\ JournalHop(r)
  /\ req' = [req EXCEPT ![r] = [@ EXCEPT !.pc = IF Terminal(r) THEN "closing" ELSE "loop",
                                         !.hop = req[r].hop + 1,
                                         !.running = req[r].running + req[r].cost]]
  /\ UNCHANGED <<stored, client, effects, flips, faults>>

\* Mutant: the failure of a streamed turn falls through to its stop chunk.
FailToStop(r) ==
  /\ req[r].pc \in {"hop", "batch"} /\ faults < MaxFaults
  /\ faults' = faults + 1
  /\ \E row \in {{"error"}, {}} : journal' = [journal EXCEPT ![r].ends = @ \cup row]
  /\ Go(r, IF req[r].kind = "stream" THEN "closing" ELSE "failed")
  /\ UNCHANGED <<stored, usage, client, effects, flips>>

\* The model, the hop timeout or the append of the batch fails: the cause is
\* journaled if that append does not fail too.  The queue of a streamed turn
\* is ended first, so its client sees the end of the stream and no more.
Fail(r) ==
  /\ req[r].pc \in {"hop", "batch"} /\ faults < MaxFaults
  /\ faults' = faults + 1
  /\ \E row \in {{"error"}, {}} : journal' = [journal EXCEPT ![r].ends = @ \cup row]
  /\ Go(r, "failed")
  /\ UNCHANGED <<stored, usage, client, effects, flips>>

-----------------------------------------------------------------------------
(* The answer.                                                               *)

\* The collected text of the last hop, in one response ...
Respond(r) ==
  /\ At(r, "closing") /\ req[r].kind # "stream"
  /\ Return(r)
  /\ client' = [client EXCEPT ![r] = [text |-> ToSet(req[r].text), end |-> "stop"]]
  /\ UNCHANGED <<stored, journal, usage, effects, flips, faults>>

\* ... an error ...
RespondError(r) ==
  /\ At(r, "failed") /\ req[r].kind # "stream"
  /\ Return(r)
  /\ client' = [client EXCEPT ![r].end = "error"]
  /\ UNCHANGED <<stored, journal, usage, effects, flips, faults>>

\* ... or the stop chunk behind the deltas.
OfferStop(r) ==
  /\ At(r, "closing") /\ req[r].kind = "stream" /\ HasRoom(r)
  /\ req' = [req EXCEPT ![r] = [@ EXCEPT !.pc = "drain", !.queue = Append(req[r].queue, Stop)]]
  /\ UNCHANGED <<stored, journal, usage, client, effects, flips, faults>>

\* The client reads the next chunk.
ReadChunk(r) ==
  /\ req[r].queue # <<>>
  /\ LET chunk == Head(req[r].queue)
     IN client' = [client EXCEPT ![r] =
                     IF chunk = Stop THEN [@ EXCEPT !.end = "stop"]
                     ELSE [@ EXCEPT !.text = client[r].text \cup {chunk}]]
  /\ req' = [req EXCEPT ![r].queue = Tail(@)]
  /\ UNCHANGED <<stored, journal, usage, effects, flips, faults>>

\* [DONE], once the queue has been ended and read.
StreamDone(r) ==
  /\ req[r].pc \in {"drain", "failed"} /\ req[r].kind = "stream" /\ req[r].queue = <<>>
  /\ Return(r)
  /\ client' = [client EXCEPT ![r].end = IF @ = "none" THEN "cut" ELSE @]
  /\ UNCHANGED <<stored, journal, usage, effects, flips, faults>>

\* The client goes away: the driver, forked into the scope of the response,
\* is interrupted wherever it is, and may or may not journal an error.
Leave(r) ==
  /\ req[r].pc \in {"loop", "hop", "batch", "closing", "drain"} /\ req[r].kind = "stream"
  /\ faults < MaxFaults
  /\ faults' = faults + 1
  /\ \E row \in {{"error"}, {}} :
       journal' = [journal EXCEPT ![r].ends = @ \cup (IF At(r, "drain") THEN {} ELSE row)]
  /\ Return(r)
  /\ client' = [client EXCEPT ![r].end = IF @ = "none" THEN "left" ELSE @]
  /\ UNCHANGED <<stored, usage, effects, flips>>

\* setToolRule, by a human, at any time.
SetToolRule(tool, rule) ==
  /\ flips < MaxFlips
  /\ flips' = flips + 1
  /\ stored' = MergeToolRule(stored, tool, rule)
  /\ UNCHANGED <<req, journal, usage, client, effects, faults>>

\* setBudget, likewise; the rules stay.
SetBudget(cap) ==
  /\ flips < MaxFlips
  /\ flips' = flips + 1
  /\ stored' = MergeBudget(stored, cap)
  /\ UNCHANGED <<req, journal, usage, client, effects, faults>>

Tools == Called \cup {Namespaced(v, d) : v \in UNION {ToSet(s.stored.servers) : s \in Starts},
                                         d \in UNION {ToSet(o) : o \in Offers}}

Next ==
  \/ \E r \in Requests :
       \/ ReadConfig(r) \/ ReadSpend(r) \/ BuildToolkit(r) \/ Refuse(r) \/ OpenTurn(r)
       \/ StartHop(r) \/ StopLoop(r) \/ TextDelta(r)
       \/ \E tool \in Tools : CallTool(r, tool) \/ AskApproval(r, tool)
       \/ HopEnds(r) \/ JournalBatch(r) \/ Fail(r)
       \/ Respond(r) \/ RespondError(r) \/ OfferStop(r) \/ ReadChunk(r) \/ StreamDone(r)
       \/ Leave(r)
  \/ \E flip \in Flips : SetToolRule(flip[1], flip[2])
  \/ \E cap \in Caps : SetBudget(cap)

Spec == Init /\ [][Next]_vars

-----------------------------------------------------------------------------
(* Properties.                                                               *)

Pieces == Requests \X Nat \X Nat

\* The rows, the clients, what the handlers count and their queues of pieces.
TypeOK ==
  /\ DOMAIN stored = {"rules", "cap", "servers"} /\ stored.cap \in Nat
  /\ \A t \in DOMAIN stored.rules : stored.rules[t] \in Rules
  /\ journal \in [Requests -> [open: BOOLEAN, text: SUBSET Pieces, spend: Nat,
                              ends: SUBSET {"done", "parked", "error"}]]
  /\ usage \in Nat
  /\ client \in [Requests -> [text: SUBSET Pieces,
                             end: {"none", "402", "refused", "stop", "error", "cut", "left"}]]
  /\ \A r \in Requests :
       /\ req[r].kind \in {"none", "prompt", "collect", "stream"}
       /\ {req[r].prior, req[r].running, req[r].hop, req[r].cost, req[r].cfg.cap} \subseteq Nat
       /\ req[r].text \in Seq(Pieces) /\ req[r].queue \in Seq(Pieces \cup {Stop})

\* An answer is not taken back: when a client has been given a finished answer
\* (the response, or the stop chunk), every piece of text it was shown is in
\* the journal, whatever failed or was cut on the way.
StopMeansJournaled ==
  \A r \in Requests : client[r].end = "stop" => client[r].text \subseteq journal[r].text

\* A fact reaches the memory every session shares only from a request that
\* began when a human had allowed that tool outright: neither a default, nor
\* the coercion of the facade, nor a rule changed since, is consent.
DurableNeedsConsent ==
  \A e \in effects : e.effect = "memory" =>
    LET rules == req[e.by].cfg.rules IN e.tool \in DOMAIN rules /\ rules[e.tool] = "allow"

\* A call of an external tool goes to the server and the definition the model
\* was shown under that name, although servers may share a name, offer the
\* same tool twice, or have names that become equal once sanitized.
AdvertisedIsCalled ==
  \A e \in effects : e.effect = "server" => e.at = e.advertised

\* A request overruns the budget by less than one hop: what the session had
\* spent when it was admitted and what its own turn has journaled stay below
\* the cap and the cost of the hop that crosses it.
OverrunIsOneHop ==
  \A r \in Requests :
    req[r].cfg.cap # 0 /\ journal[r].open
      => req[r].prior + journal[r].spend < req[r].cfg.cap + (CHOOSE c \in Costs : \A d \in Costs : d <= c)
=============================================================================
