----------------------------- MODULE FacadeProofs -----------------------------
(***************************************************************************)
(* That a finished answer is journaled, that only a rule set to "allow"    *)
(* lets a fact into the shared memory, that a budget is overrun by less    *)
(* than a hop, and that an external tool is the one that was advertised,   *)
(* for every number of requests, hops, texts, servers, tools and faults.   *)
(*                                                                         *)
(* And, of the client such a tool is called by (Mcp), that a call gets its *)
(* own reply, and gets it as soon as it is complete, for every number of   *)
(* calls, every stream of events and every way to cut it into chunks.      *)
(***************************************************************************)
EXTENDS Facade, Mcp, TLAPS, SequenceTheorems, WellFoundedInduction

Fields == {"pc", "kind", "cfg", "mcp", "prior", "running", "hop", "calls",
           "text", "cost", "finish", "queue"}

Shaped == DOMAIN req = Requests /\ \A r \in Requests : DOMAIN req[r] = Fields

Early == {"idle", "config", "admitted", "built"}

-----------------------------------------------------------------------------
(* Consent.                                                                  *)

\* A request that has read its configuration has a rule for each tool that
\* must fail closed.
RulesAreRead(r) ==
  /\ \A t \in DOMAIN req[r].cfg.rules : req[r].cfg.rules[t] \in Rules
  /\ req[r].pc # "idle" => FailClosed \subseteq DOMAIN req[r].cfg.rules

\* A fact came from a request that has read, and keeps, the rule it went by.
FactsAreAllowed ==
  \A e \in effects : e.effect = "memory" =>
    LET rules == req[e.by].cfg.rules
    IN  /\ e.by \in Requests /\ req[e.by].pc # "idle"
        /\ e.tool \in DOMAIN rules /\ rules[e.tool] = "allow"

-----------------------------------------------------------------------------
(* The answer.                                                               *)

\* What a client was or will be shown is journaled, or is the text of the hop.
ShownIsKept(r) ==
  LET q == req[r] IN
  q.pc # "ended" => client[r].text \cup (ToSet(q.queue) \ {Stop})
    \subseteq journal[r].text \cup (IF q.pc \in {"hop", "batch", "failed"} THEN ToSet(q.text) ELSE {})

Answering(r) ==
  LET q == req[r] IN
  /\ q.pc \in Early => q.text = <<>>
  /\ q.pc \in {"loop", "closing"} => ToSet(q.text) \subseteq journal[r].text
  /\ q.pc \notin {"drain", "ended"} => client[r].end # "stop" /\ Stop \notin ToSet(q.queue)
  /\ q.pc = "ended" => q.queue = <<>>
  /\ ShownIsKept(r)
  /\ client[r].end = "stop" => client[r].text \subseteq journal[r].text

-----------------------------------------------------------------------------
(* The budget.                                                               *)

Most == CHOOSE c \in Costs : \A d \in Costs : d <= c

\* The running total is what was there before and what the turn has spent,
\* and a hop begins below the cap.
Spending(r) ==
  LET q == req[r]
      spent == q.prior + journal[r].spend IN
  /\ q.cost <= Most
  /\ q.pc \in Early => journal[r].spend = 0 /\ ~journal[r].open
  /\ q.pc \in {"admitted", "built", "loop", "hop", "batch"} => q.running = spent
  /\ q.cfg.cap # 0 /\ q.pc \in {"admitted", "built", "hop", "batch"} => spent < q.cfg.cap
  /\ q.cfg.cap # 0 /\ journal[r].open => spent < q.cfg.cap + Most

FacadeInv ==
  /\ TypeOK /\ Shaped /\ FactsAreAllowed
  /\ \A r \in Requests : RulesAreRead(r) /\ Answering(r) /\ Spending(r)

-----------------------------------------------------------------------------
(* What each step does.                                                      *)

\* The handler of the request has a new state, the fields not named stay, and
\* so do the other requests.
Turns(r, fields) ==
  /\ DOMAIN req' = Requests /\ DOMAIN req'[r] = Fields
  /\ \A f \in Fields \ fields : req'[r][f] = req[r][f]
  /\ \A k \in Requests \ {r} : req'[k] = req[k]

Alone(r) ==
  \A k \in Requests \ {r} :
    req'[k] = req[k] /\ journal'[k] = journal[k] /\ client'[k] = client[k]

LEMMA IdleShape ==
  ASSUME NEW kind
  PROVE  /\ DOMAIN Idle(kind) = Fields /\ Idle(kind).pc = "idle" /\ Idle(kind).kind = kind
         /\ Idle(kind).prior = 0 /\ Idle(kind).running = 0 /\ Idle(kind).hop = 0 /\ Idle(kind).cost = 0
         /\ Idle(kind).text = <<>> /\ Idle(kind).queue = <<>>
         /\ Idle(kind).cfg = ResolveConfig([rules |-> <<>>, cap |-> 0, servers |-> <<>>])
  BY DEF Idle, Fields

LEMMA ReturnDoes ==
  ASSUME Shaped, NEW r \in Requests, Return(r)
  PROVE  /\ Turns(r, Fields \ {"kind", "cfg", "prior"})
         /\ req'[r].pc = "ended" /\ req'[r].text = <<>> /\ req'[r].queue = <<>>
         /\ req'[r].running = 0 /\ req'[r].hop = 0 /\ req'[r].cost = 0
         /\ req'[r].kind = req[r].kind /\ req'[r].cfg = req[r].cfg /\ req'[r].prior = req[r].prior
<1> DEFINE idle == Idle(req[r].kind)
           cfg == req[r].cfg
           prior == req[r].prior
           new == [idle EXCEPT !.pc = "ended", !.cfg = cfg, !.prior = prior]
<1>1. req' = [req EXCEPT ![r] = new]
  BY DEF Return, Shaped
<1>2. /\ DOMAIN idle = Fields /\ idle.kind = req[r].kind
      /\ idle.running = 0 /\ idle.hop = 0 /\ idle.cost = 0
      /\ idle.text = <<>> /\ idle.queue = <<>>
  BY IdleShape
<1> HIDE DEF idle, cfg, prior
<1>3. /\ DOMAIN new = Fields /\ new.kind = req[r].kind /\ new.cfg = cfg /\ new.prior = prior
      /\ new.pc = "ended" /\ new.running = 0 /\ new.hop = 0 /\ new.cost = 0
      /\ new.text = <<>> /\ new.queue = <<>>
  BY <1>2 DEF Fields
<1> HIDE DEF new
<1>4. req'[r] = new /\ DOMAIN req' = Requests /\ \A k \in Requests \ {r} : req'[k] = req[k]
  BY <1>1 DEF Shaped
<1>5. \A f \in Fields \ (Fields \ {"kind", "cfg", "prior"}) : f \in {"kind", "cfg", "prior"}
  OBVIOUS
<1> QED
  BY <1>3, <1>4, <1>5 DEF Turns, cfg, prior

\* The steps up to the turn.
LEMMA EarlyDoes ==
  ASSUME Shaped, NEW r \in Requests
  PROVE  /\ ReadConfig(r) =>
              /\ Turns(r, {"pc", "cfg"}) /\ req[r].pc = "idle" /\ req'[r].pc = "config"
              /\ req'[r].cfg = ResolveConfig(stored)
         /\ BuildToolkit(r) =>
              Turns(r, {"pc", "mcp"}) /\ req[r].pc = "admitted" /\ req'[r].pc = "built"
         /\ OpenTurn(r) =>
              Turns(r, {"pc"}) /\ req[r].pc = "built" /\ req'[r].pc = "loop"
<1>1. ASSUME ReadConfig(r)
      PROVE  /\ Turns(r, {"pc", "cfg"}) /\ req[r].pc = "idle" /\ req'[r].pc = "config"
             /\ req'[r].cfg = ResolveConfig(stored)
  BY <1>1 DEF ReadConfig, At, Shaped, Turns, Fields
<1>2. ASSUME BuildToolkit(r)
      PROVE  Turns(r, {"pc", "mcp"}) /\ req[r].pc = "admitted" /\ req'[r].pc = "built"
  BY <1>2 DEF BuildToolkit, At, Shaped, Turns, Fields
<1>3. ASSUME OpenTurn(r)
      PROVE  Turns(r, {"pc"}) /\ req[r].pc = "built" /\ req'[r].pc = "loop"
  BY <1>3 DEF OpenTurn, At, Go, Shaped, Turns, Fields
<1> QED
  BY <1>1, <1>2, <1>3

LEMMA ReadSpendDoes ==
  ASSUME Shaped, NEW r \in Requests, ReadSpend(r)
  PROVE  /\ req[r].pc = "config"
         /\ \/ Return(r) /\ client' = [client EXCEPT ![r].end = "402"]
            \/ /\ Turns(r, {"pc", "prior", "running"}) /\ req'[r].pc = "admitted"
               /\ req'[r].prior = usage /\ req'[r].running = usage
               /\ ~BudgetExceeded(usage, req[r].cfg.cap) /\ client' = client
<1>1. CASE BudgetExceeded(usage, req[r].cfg.cap)
  BY <1>1 DEF ReadSpend, At
<1>2. CASE ~BudgetExceeded(usage, req[r].cfg.cap)
  <2>1. /\ req[r].pc = "config" /\ client' = client
        /\ req' = [req EXCEPT ![r] = [req[r] EXCEPT !.pc = "admitted", !.prior = usage,
                                                   !.running = usage]]
    BY <1>2 DEF ReadSpend, At
  <2> DEFINE new == [req[r] EXCEPT !.pc = "admitted", !.prior = usage, !.running = usage]
  <2>2. DOMAIN req = Requests /\ DOMAIN req[r] = Fields
    BY DEF Shaped
  <2>3. req' = [req EXCEPT ![r] = new]
    BY <2>1
  <2>4. /\ DOMAIN new = Fields
        /\ new.pc = "admitted" /\ new.prior = usage /\ new.running = usage
        /\ \A f \in Fields \ {"pc", "prior", "running"} : new[f] = req[r][f]
    BY <2>2 DEF Fields
  <2> HIDE DEF new
  <2>5. req'[r] = new /\ DOMAIN req' = Requests /\ \A k \in Requests \ {r} : req'[k] = req[k]
    BY <2>2, <2>3
  <2>6. Turns(r, {"pc", "prior", "running"})
    BY <2>4, <2>5 DEF Turns
  <2> QED
    BY <1>2, <2>1, <2>4, <2>5, <2>6
<1> QED
  BY <1>1, <1>2

\* The steps of a hop.
LEMMA HopDoes ==
  ASSUME Shaped, NEW r \in Requests
  PROVE  /\ StartHop(r) =>
              /\ Turns(r, {"pc", "text", "cost", "finish"}) /\ req[r].pc = "loop" /\ req'[r].pc = "hop"
              /\ req'[r].text = <<>> /\ req'[r].cost = 0 /\ MayHop(r)
         /\ StopLoop(r) =>
              Turns(r, {"pc"}) /\ req[r].pc = "loop" /\ req'[r].pc = "closing"
         /\ \A tool : CallTool(r, tool) => Turns(r, {"calls"}) /\ req[r].pc = "hop"
         /\ \A tool : AskApproval(r, tool) =>
              /\ Turns(r, {"pc", "calls", "finish", "cost"}) /\ req[r].pc = "hop" /\ req'[r].pc = "batch"
              /\ req'[r].cost \in Costs
         /\ HopEnds(r) =>
              /\ Turns(r, {"pc", "finish", "cost"}) /\ req[r].pc = "hop" /\ req'[r].pc = "batch"
              /\ req'[r].cost \in Costs \cup {0}
         /\ JournalBatch(r) =>
              /\ Turns(r, {"pc", "hop", "running"}) /\ req[r].pc = "batch"
              /\ req'[r].pc \in {"loop", "closing"}
              /\ req'[r].hop = req[r].hop + 1 /\ req'[r].running = req[r].running + req[r].cost
         /\ Fail(r) =>
              /\ Turns(r, {"pc"}) /\ req[r].pc \in {"hop", "batch"} /\ req'[r].pc = "failed"
<1>1. ASSUME StartHop(r)
      PROVE  /\ Turns(r, {"pc", "text", "cost", "finish"}) /\ req[r].pc = "loop" /\ req'[r].pc = "hop"
             /\ req'[r].text = <<>> /\ req'[r].cost = 0 /\ MayHop(r)
  BY <1>1 DEF StartHop, At, Shaped, Turns, Fields
<1>2. ASSUME StopLoop(r)
      PROVE  Turns(r, {"pc"}) /\ req[r].pc = "loop" /\ req'[r].pc = "closing"
  BY <1>2 DEF StopLoop, At, Go, Shaped, Turns, Fields
<1>3. ASSUME NEW tool, CallTool(r, tool) PROVE Turns(r, {"calls"}) /\ req[r].pc = "hop"
  BY <1>3 DEF CallTool, At, Shaped, Turns, Fields
<1>4. ASSUME NEW tool, AskApproval(r, tool)
      PROVE  /\ Turns(r, {"pc", "calls", "finish", "cost"}) /\ req[r].pc = "hop" /\ req'[r].pc = "batch"
             /\ req'[r].cost \in Costs
  BY <1>4 DEF AskApproval, At, Shaped, Turns, Fields
<1>5. ASSUME HopEnds(r)
      PROVE  /\ Turns(r, {"pc", "finish", "cost"}) /\ req[r].pc = "hop" /\ req'[r].pc = "batch"
             /\ req'[r].cost \in Costs \cup {0}
  BY <1>5 DEF HopEnds, At, Shaped, Turns, Fields
<1>6. ASSUME JournalBatch(r)
      PROVE  /\ Turns(r, {"pc", "hop", "running"}) /\ req[r].pc = "batch"
             /\ req'[r].pc \in {"loop", "closing"}
             /\ req'[r].hop = req[r].hop + 1 /\ req'[r].running = req[r].running + req[r].cost
  <2> DEFINE q == req[r]
             pc == IF Terminal(r) THEN "closing" ELSE "loop"
             hop == q.hop + 1
             running == q.running + q.cost
             new == [q EXCEPT !.pc = pc, !.hop = hop, !.running = running]
  <2>1. req' = [req EXCEPT ![r] = new] /\ req[r].pc = "batch"
    BY <1>6 DEF JournalBatch, At
  <2>2. pc \in {"loop", "closing"} /\ DOMAIN q = Fields
    BY DEF Shaped
  <2> HIDE DEF pc, hop, running, q
  <2>3. /\ DOMAIN new = Fields /\ new.pc = pc /\ new.hop = hop /\ new.running = running
        /\ \A f \in Fields \ {"pc", "hop", "running"} : new[f] = q[f]
    BY <2>2 DEF Fields
  <2> HIDE DEF new
  <2>4. /\ DOMAIN req' = Requests /\ req'[r] = new
        /\ \A k \in Requests \ {r} : req'[k] = req[k]
    BY <2>1 DEF Shaped
  <2> QED
    BY <2>1, <2>2, <2>3, <2>4 DEF Turns, hop, running, q
<1>7. ASSUME Fail(r)
      PROVE  Turns(r, {"pc"}) /\ req[r].pc \in {"hop", "batch"} /\ req'[r].pc = "failed"
  BY <1>7 DEF Fail, Go, Shaped, Turns, Fields
<1> QED
  BY <1>1, <1>2, <1>3, <1>4, <1>5, <1>6, <1>7

\* The steps of the queue.
LEMMA QueueDoes ==
  ASSUME Shaped, NEW r \in Requests
  PROVE  /\ TextDelta(r) =>
              LET piece == <<r, req[r].hop, Len(req[r].text) + 1>> IN
              /\ Turns(r, {"text", "queue"}) /\ req[r].pc = "hop"
              /\ req'[r].text = Append(req[r].text, piece)
              /\ req'[r].queue \in {req[r].queue, Append(req[r].queue, piece)}
         /\ OfferStop(r) =>
              /\ Turns(r, {"pc", "queue"}) /\ req[r].pc = "closing" /\ req'[r].pc = "drain"
              /\ req'[r].queue = Append(req[r].queue, Stop)
         /\ ReadChunk(r) =>
              /\ Turns(r, {"queue"}) /\ req[r].queue # <<>> /\ req'[r].queue = Tail(req[r].queue)
<1>1. ASSUME TextDelta(r)
      PROVE  LET piece == <<r, req[r].hop, Len(req[r].text) + 1>> IN
             /\ Turns(r, {"text", "queue"}) /\ req[r].pc = "hop"
             /\ req'[r].text = Append(req[r].text, piece)
             /\ req'[r].queue \in {req[r].queue, Append(req[r].queue, piece)}
  <2> DEFINE piece == <<r, req[r].hop, Len(req[r].text) + 1>>
             text == Append(req[r].text, piece)
             queue == IF req[r].kind = "stream" THEN Append(req[r].queue, piece) ELSE req[r].queue
  <2>1. req' = [req EXCEPT ![r] = [req[r] EXCEPT !.text = text, !.queue = queue]] /\ req[r].pc = "hop"
    BY <1>1 DEF TextDelta, At
  <2>2. queue \in {req[r].queue, Append(req[r].queue, piece)}
    OBVIOUS
  <2> HIDE DEF text, queue
  <2>3. /\ Turns(r, {"text", "queue"}) /\ req'[r].text = text /\ req'[r].queue = queue
    BY <2>1 DEF Shaped, Turns, Fields
  <2> QED
    BY <2>1, <2>2, <2>3 DEF text
<1>2. ASSUME OfferStop(r)
      PROVE  /\ Turns(r, {"pc", "queue"}) /\ req[r].pc = "closing" /\ req'[r].pc = "drain"
             /\ req'[r].queue = Append(req[r].queue, Stop)
  <2> DEFINE queue == Append(req[r].queue, Stop)
  <2>1. req' = [req EXCEPT ![r] = [req[r] EXCEPT !.pc = "drain", !.queue = queue]] /\ req[r].pc = "closing"
    BY <1>2 DEF OfferStop, At
  <2> HIDE DEF queue
  <2>2. /\ Turns(r, {"pc", "queue"}) /\ req'[r].pc = "drain" /\ req'[r].queue = queue
    BY <2>1 DEF Shaped, Turns, Fields
  <2> QED
    BY <2>1, <2>2 DEF queue
<1>3. ASSUME ReadChunk(r)
      PROVE  /\ Turns(r, {"queue"}) /\ req[r].queue # <<>> /\ req'[r].queue = Tail(req[r].queue)
  BY <1>3 DEF ReadChunk, Shaped, Turns, Fields
<1> QED
  BY <1>1, <1>2, <1>3

\* What each step does to the rows and to the client, of its request alone.
Quiet == journal' = journal /\ client' = client /\ usage' = usage

LEMMA QuietSteps ==
  ASSUME NEW r \in Requests,
         \/ ReadConfig(r) \/ BuildToolkit(r) \/ StartHop(r) \/ StopLoop(r) \/ TextDelta(r)
         \/ \E tool : CallTool(r, tool) \/ AskApproval(r, tool)
         \/ HopEnds(r) \/ OfferStop(r)
  PROVE  Quiet /\ stored' = stored
<1>1. ASSUME NEW tool, CallTool(r, tool) \/ AskApproval(r, tool) PROVE Quiet /\ stored' = stored
  BY <1>1 DEF CallTool, AskApproval, Quiet
<1>2. ASSUME HopEnds(r) PROVE Quiet /\ stored' = stored
  BY <1>2 DEF HopEnds, Quiet
<1>3. ASSUME ReadConfig(r) \/ BuildToolkit(r) \/ StartHop(r) PROVE Quiet /\ stored' = stored
  BY <1>3 DEF ReadConfig, BuildToolkit, StartHop, Quiet
<1>4. ASSUME StopLoop(r) \/ TextDelta(r) \/ OfferStop(r) PROVE Quiet /\ stored' = stored
  BY <1>4 DEF StopLoop, TextDelta, OfferStop, Quiet
<1> QED
  BY <1>1, <1>2, <1>3, <1>4

\* The rows of the request have a new value, that of the others stays.
RowsBecome(r, open, text, spend) ==
  /\ journal'[r].open = open /\ journal'[r].text = text /\ journal'[r].spend = spend
  /\ \A k \in Requests \ {r} : journal'[k] = journal[k]

ClientBecomes(r, text, end) ==
  /\ client'[r].text = text /\ client'[r].end = end
  /\ \A k \in Requests \ {r} : client'[k] = client[k]

Rows == [open: BOOLEAN, text: SUBSET Pieces, spend: Nat, ends: SUBSET {"done", "parked", "error"}]
Clients == [text: SUBSET Pieces, end: {"none", "402", "refused", "stop", "error", "cut", "left"}]

LEMMA EndsAreRows ==
  ASSUME NEW r \in Requests PROVE EndsOf(r) \subseteq {"done", "parked", "error"}
  BY DEF EndsOf

LEMMA OpenTurnRows ==
  ASSUME TypeOK, NEW r \in Requests, OpenTurn(r)
  PROVE  /\ RowsBecome(r, TRUE, journal[r].text, journal[r].spend) /\ journal' \in [Requests -> Rows]
         /\ client' = client /\ usage' = usage
<1>1. journal' = [journal EXCEPT ![r].open = TRUE] /\ client' = client /\ usage' = usage
  BY DEF OpenTurn
<1>2. journal \in [Requests -> Rows]
  BY DEF TypeOK, Rows
<1> QED
  BY <1>1, <1>2 DEF RowsBecome, Rows

LEMMA JournalHopRows ==
  ASSUME TypeOK, NEW r \in Requests, JournalHop(r), ToSet(req[r].text) \subseteq Pieces
  PROVE  /\ RowsBecome(r, journal[r].open, journal[r].text \cup ToSet(req[r].text),
                       journal[r].spend + req[r].cost)
         /\ journal' \in [Requests -> Rows]
         /\ usage' = usage + req[r].cost
<1> DEFINE text == journal[r].text \cup ToSet(req[r].text)
           spend == journal[r].spend + req[r].cost
           ends == journal[r].ends \cup EndsOf(r)
           new == [journal[r] EXCEPT !.text = text, !.spend = spend, !.ends = ends]
<1>1. journal' = [journal EXCEPT ![r] = new] /\ usage' = usage + req[r].cost
  BY DEF JournalHop
<1>2. journal \in [Requests -> Rows] /\ req[r].cost \in Nat
  BY DEF TypeOK, Rows
<1>3. text \in SUBSET Pieces /\ spend \in Nat /\ ends \in SUBSET {"done", "parked", "error"}
  BY <1>2, EndsAreRows DEF Rows
<1> HIDE DEF text, spend, ends
<1>4. new \in Rows /\ new.open = journal[r].open /\ new.text = text /\ new.spend = spend
  BY <1>2, <1>3 DEF Rows
<1> HIDE DEF new
<1> QED
  BY <1>1, <1>2, <1>4 DEF RowsBecome, text, spend

\* An error row, or none, when a turn fails or its client leaves.
LEMMA EndedRows ==
  ASSUME TypeOK, NEW r \in Requests, NEW more \in SUBSET {"done", "parked", "error"},
         journal' = [journal EXCEPT ![r].ends = @ \cup more]
  PROVE  RowsBecome(r, journal[r].open, journal[r].text, journal[r].spend) /\ journal' \in [Requests -> Rows]
<1>1. journal \in [Requests -> Rows]
  BY DEF TypeOK, Rows
<1> QED
  BY <1>1 DEF RowsBecome, Rows

LEMMA FailRows ==
  ASSUME TypeOK, NEW r \in Requests, Fail(r)
  PROVE  /\ RowsBecome(r, journal[r].open, journal[r].text, journal[r].spend) /\ journal' \in [Requests -> Rows]
         /\ client' = client /\ usage' = usage
<1>1. PICK row \in {{"error"}, {}} : journal' = [journal EXCEPT ![r].ends = @ \cup row]
  BY DEF Fail
<1> QED
  BY <1>1, EndedRows DEF Fail

\* A client is told how it ended, or is shown a piece.
LEMMA EndClient ==
  ASSUME TypeOK, NEW r \in Requests,
         NEW end \in {"none", "402", "refused", "stop", "error", "cut", "left"},
         client' = [client EXCEPT ![r].end = end]
  PROVE  ClientBecomes(r, client[r].text, end) /\ client' \in [Requests -> Clients]
<1>1. client \in [Requests -> Clients]
  BY DEF TypeOK, Clients
<1> QED
  BY <1>1 DEF ClientBecomes, Clients

LEMMA EndedClient ==
  ASSUME TypeOK, NEW r \in Requests, NEW end \in {"cut", "left"},
         client' = [client EXCEPT ![r].end = IF @ = "none" THEN end ELSE @]
  PROVE  \E e \in {end, client[r].end} :
            ClientBecomes(r, client[r].text, e) /\ client' \in [Requests -> Clients]
<1>1. client \in [Requests -> Clients]
  BY DEF TypeOK, Clients
<1>2. client[r].end \in {"none", "402", "refused", "stop", "error", "cut", "left"}
  BY <1>1 DEF Clients
<1>3. CASE client[r].end = "none"
  <2>1. client' = [client EXCEPT ![r].end = end]
    BY <1>1, <1>3 DEF Clients
  <2> QED
    BY <2>1, EndClient
<1>4. CASE client[r].end # "none"
  <2>1. client' = [client EXCEPT ![r].end = client[r].end]
    BY <1>1, <1>4 DEF Clients
  <2> QED
    BY <1>2, <2>1, EndClient
<1> QED
  BY <1>3, <1>4

LEMMA RefuseRows ==
  ASSUME TypeOK, NEW r \in Requests, Refuse(r)
  PROVE  /\ req[r].pc = "built" /\ Return(r) /\ journal' = journal /\ usage' = usage
         /\ ClientBecomes(r, client[r].text, "refused") /\ client' \in [Requests -> Clients]
<1>1. client' = [client EXCEPT ![r].end = "refused"]
  BY DEF Refuse
<1> QED
  BY <1>1, EndClient DEF Refuse, At

LEMMA RespondRows ==
  ASSUME TypeOK, NEW r \in Requests, Respond(r), ToSet(req[r].text) \subseteq Pieces
  PROVE  /\ req[r].pc = "closing" /\ Return(r) /\ journal' = journal /\ usage' = usage
         /\ ClientBecomes(r, ToSet(req[r].text), "stop") /\ client' \in [Requests -> Clients]
<1>1. client' = [client EXCEPT ![r] = [text |-> ToSet(req[r].text), end |-> "stop"]]
  BY DEF Respond
<1>2. client \in [Requests -> Clients]
  BY DEF TypeOK, Clients
<1>3. req[r].pc = "closing" /\ Return(r) /\ journal' = journal /\ usage' = usage
  BY DEF Respond, At
<1> QED
  BY <1>1, <1>2, <1>3 DEF ClientBecomes, Clients

LEMMA RespondErrorRows ==
  ASSUME TypeOK, NEW r \in Requests, RespondError(r)
  PROVE  /\ req[r].pc = "failed" /\ Return(r) /\ journal' = journal /\ usage' = usage
         /\ ClientBecomes(r, client[r].text, "error") /\ client' \in [Requests -> Clients]
<1>1. client' = [client EXCEPT ![r].end = "error"]
  BY DEF RespondError
<1> QED
  BY <1>1, EndClient DEF RespondError, At

LEMMA ReadChunkRows ==
  ASSUME TypeOK, NEW r \in Requests, ReadChunk(r)
  PROVE  LET chunk == Head(req[r].queue) IN
         /\ journal' = journal /\ usage' = usage /\ client' \in [Requests -> Clients]
         /\ \/ chunk = Stop /\ ClientBecomes(r, client[r].text, "stop")
            \/ chunk # Stop /\ ClientBecomes(r, client[r].text \cup {chunk}, client[r].end)
<1> DEFINE chunk == Head(req[r].queue)
<1>1. client' = [client EXCEPT ![r] =
                   IF chunk = Stop THEN [client[r] EXCEPT !.end = "stop"]
                   ELSE [client[r] EXCEPT !.text = client[r].text \cup {chunk}]]
  BY DEF ReadChunk
<1>2. journal' = journal /\ usage' = usage
  BY DEF ReadChunk
<1>3. client \in [Requests -> Clients]
  BY DEF TypeOK, Clients
<1>4. chunk \in Pieces \cup {Stop}
  BY HeadTailProperties DEF TypeOK, ReadChunk
<1> HIDE DEF chunk
<1>5. CASE chunk = Stop
  BY <1>1, <1>2, <1>3, <1>5 DEF ClientBecomes, Clients, chunk
<1>6. CASE chunk # Stop
  <2> DEFINE text == client[r].text \cup {chunk}
             new == [client[r] EXCEPT !.text = text]
  <2>1. text \in SUBSET Pieces
    BY <1>3, <1>4, <1>6 DEF Clients
  <2>2. client' = [client EXCEPT ![r] = new]
    BY <1>1, <1>6
  <2> HIDE DEF text
  <2>3. new \in Clients /\ new.text = text /\ new.end = client[r].end
    BY <1>3, <2>1 DEF Clients
  <2> HIDE DEF new
  <2>4. ClientBecomes(r, text, client[r].end) /\ client' \in [Requests -> Clients]
    BY <1>3, <2>2, <2>3 DEF ClientBecomes
  <2> QED
    BY <1>2, <1>6, <2>4 DEF text, chunk
<1> QED
  BY <1>5, <1>6

LEMMA StreamDoneRows ==
  ASSUME TypeOK, NEW r \in Requests, StreamDone(r)
  PROVE  /\ req[r].pc \in {"drain", "failed"} /\ Return(r) /\ journal' = journal /\ usage' = usage
         /\ req[r].queue = <<>>
         /\ \E e \in {"cut", client[r].end} :
              ClientBecomes(r, client[r].text, e) /\ client' \in [Requests -> Clients]
<1>1. client' = [client EXCEPT ![r].end = IF @ = "none" THEN "cut" ELSE @]
  BY DEF StreamDone
<1> QED
  BY <1>1, EndedClient DEF StreamDone

LEMMA LeaveRows ==
  ASSUME TypeOK, NEW r \in Requests, Leave(r)
  PROVE  /\ req[r].pc \in {"loop", "hop", "batch", "closing", "drain"} /\ Return(r) /\ usage' = usage
         /\ RowsBecome(r, journal[r].open, journal[r].text, journal[r].spend)
         /\ journal' \in [Requests -> Rows]
         /\ \E e \in {"left", client[r].end} :
              ClientBecomes(r, client[r].text, e) /\ client' \in [Requests -> Clients]
<1>1. client' = [client EXCEPT ![r].end = IF @ = "none" THEN "left" ELSE @]
  BY DEF Leave
<1>2. PICK row \in {{"error"}, {}} :
        journal' = [journal EXCEPT ![r].ends = @ \cup (IF At(r, "drain") THEN {} ELSE row)]
  BY DEF Leave
<1> DEFINE more == IF At(r, "drain") THEN {} ELSE row
<1>3. more \in SUBSET {"done", "parked", "error"} /\ journal' = [journal EXCEPT ![r].ends = @ \cup more]
  BY <1>2
<1> HIDE DEF more
<1>4. /\ RowsBecome(r, journal[r].open, journal[r].text, journal[r].spend)
      /\ journal' \in [Requests -> Rows]
  BY <1>3, EndedRows
<1> QED
  BY <1>1, <1>4, EndedClient DEF Leave

-----------------------------------------------------------------------------
(* What the others and the configuration keep.                               *)

Typed(q) ==
  /\ q.kind \in {"none", "prompt", "collect", "stream"}
  /\ {q.prior, q.running, q.hop, q.cost, q.cfg.cap} \subseteq Nat
  /\ q.text \in Seq(Pieces) /\ q.queue \in Seq(Pieces \cup {Stop})

LEMMA Resolved ==
  ASSUME NEW s, DOMAIN s = {"rules", "cap", "servers"}, s.cap \in Nat,
         \A t \in DOMAIN s.rules : s.rules[t] \in Rules
  PROVE  LET cfg == ResolveConfig(s) IN
         /\ cfg.cap = s.cap
         /\ \A t \in DOMAIN cfg.rules : cfg.rules[t] \in Rules
         /\ FailClosed \subseteq DOMAIN cfg.rules
<1> DEFINE d == DefaultToolRules
<1>1. FailClosed \subseteq DOMAIN d /\ \A t \in DOMAIN d : d[t] \in Rules
  BY DEF DefaultToolRules, FailClosed, Rules
<1> HIDE DEF d
<1>2. ResolveConfig(s).rules = Over(s.rules, d) /\ ResolveConfig(s).cap = s.cap
  BY DEF ResolveConfig, d
<1>3. /\ FailClosed \subseteq DOMAIN Over(s.rules, d)
      /\ \A t \in DOMAIN Over(s.rules, d) : Over(s.rules, d)[t] \in Rules
  BY <1>1 DEF Over
<1> QED
  BY <1>2, <1>3

\* A step of one request keeps the invariant if it keeps what is said of that
\* request, and leaves the others alone.
LEMMA StepKeeps ==
  ASSUME FacadeInv, NEW r \in Requests, NEW fields, Turns(r, fields), Typed(req'[r]),
         journal' \in [Requests -> Rows], client' \in [Requests -> Clients], usage' \in Nat,
         \A k \in Requests \ {r} : journal'[k] = journal[k] /\ client'[k] = client[k],
         stored' = stored, FactsAreAllowed', RulesAreRead(r)', Answering(r)', Spending(r)'
  PROVE  FacadeInv'
<1>1. \A k \in Requests \ {r} :
        req'[k] = req[k] /\ journal'[k] = journal[k] /\ client'[k] = client[k]
  BY DEF Turns
<1>2. \A k \in Requests : RulesAreRead(k)'
  <2> SUFFICES ASSUME NEW k \in Requests \ {r} PROVE RulesAreRead(k)'
    OBVIOUS
  <2> QED
    BY <1>1 DEF RulesAreRead, FacadeInv
<1>3. \A k \in Requests : Answering(k)'
  <2> SUFFICES ASSUME NEW k \in Requests \ {r} PROVE Answering(k)'
    OBVIOUS
  <2>1. Answering(k)
    BY DEF FacadeInv
  <2> QED
    BY <1>1, <2>1 DEF Answering, ShownIsKept
<1>4. \A k \in Requests : Spending(k)'
  <2> SUFFICES ASSUME NEW k \in Requests \ {r} PROVE Spending(k)'
    OBVIOUS
  <2>1. Spending(k)
    BY DEF FacadeInv
  <2> QED
    BY <1>1, <2>1 DEF Spending
<1>5. Shaped'
  BY <1>1 DEF Shaped, Turns, FacadeInv
<1>6. \A k \in Requests : Typed(req'[k])
  <2>1. \A k \in Requests : Typed(req[k])
    BY DEF FacadeInv, TypeOK, Typed
  <2> QED
    BY <1>1, <2>1
<1>7. TypeOK'
  <2>1. /\ DOMAIN stored' = {"rules", "cap", "servers"} /\ stored'.cap \in Nat
        /\ \A t \in DOMAIN stored'.rules : stored'.rules[t] \in Rules
    BY DEF FacadeInv, TypeOK
  <2> QED
    BY <1>6, <2>1 DEF TypeOK, Typed, Rows, Clients
<1> QED
  BY <1>2, <1>3, <1>4, <1>5, <1>7 DEF FacadeInv

\* Most steps call no tool and keep the configuration they read.
LEMMA RulesStay ==
  ASSUME FacadeInv, NEW r \in Requests, effects' = effects, req'[r].cfg = req[r].cfg,
         req[r].pc # "idle", req'[r].pc # "idle",
         \A k \in Requests \ {r} : req'[k] = req[k]
  PROVE  FactsAreAllowed' /\ RulesAreRead(r)'
<1>1. RulesAreRead(r)'
  BY DEF FacadeInv, RulesAreRead
<1>2. \A k \in Requests : req'[k].cfg = req[k].cfg /\ (req[k].pc # "idle" => req'[k].pc # "idle")
  OBVIOUS
<1>3. FactsAreAllowed'
  BY <1>2 DEF FacadeInv, FactsAreAllowed
<1> QED
  BY <1>1, <1>3

\* The lists of pieces.
LEMMA Appended ==
  ASSUME NEW S, NEW s \in Seq(S), NEW e \in S
  PROVE  Append(s, e) \in Seq(S) /\ ToSet(Append(s, e)) = ToSet(s) \cup {e}
<1>1. /\ Append(s, e) \in Seq(S) /\ Len(Append(s, e)) = Len(s) + 1
      /\ \A i \in 1 .. Len(s) : Append(s, e)[i] = s[i]
      /\ Append(s, e)[Len(s) + 1] = e
  BY AppendProperties
<1>2. DOMAIN Append(s, e) = 1 .. Len(s) + 1 /\ DOMAIN s = 1 .. Len(s) /\ Len(s) \in Nat
  BY <1>1, LenProperties
<1> QED
  BY <1>1, <1>2 DEF ToSet

LEMMA Shortened ==
  ASSUME NEW S, NEW s \in Seq(S), s # <<>>
  PROVE  Head(s) \in S /\ Tail(s) \in Seq(S) /\ ToSet(s) = ToSet(Tail(s)) \cup {Head(s)}
<1>1. /\ Head(s) \in S /\ Tail(s) \in Seq(S) /\ Len(Tail(s)) = Len(s) - 1
      /\ \A i \in 1 .. Len(Tail(s)) : Tail(s)[i] = s[i + 1]
      /\ Head(s) = s[1]
  BY HeadTailProperties
<1>2. /\ Len(s) \in Nat /\ Len(s) # 0 /\ DOMAIN s = 1 .. Len(s) /\ DOMAIN Tail(s) = 1 .. Len(s) - 1
  BY <1>1, LenProperties, EmptySeq
<1>3. \A i \in 1 .. Len(s) : i = 1 \/ (i - 1 \in 1 .. Len(s) - 1 /\ s[i] = Tail(s)[i - 1])
  BY <1>1, <1>2
<1>4. ASSUME NEW x \in ToSet(s) PROVE x \in ToSet(Tail(s)) \cup {Head(s)}
  <2>1. PICK i \in 1 .. Len(s) : x = s[i]
    BY <1>2 DEF ToSet
  <2>2. CASE i = 1
    BY <1>1, <2>1, <2>2
  <2>3. CASE i # 1
    BY <1>2, <1>3, <2>1, <2>3 DEF ToSet
  <2> QED
    BY <2>2, <2>3
<1>5. ASSUME NEW x \in ToSet(Tail(s)) \cup {Head(s)} PROVE x \in ToSet(s)
  <2>1. CASE x = Head(s)
    BY <1>1, <1>2, <2>1 DEF ToSet
  <2>2. CASE x \in ToSet(Tail(s))
    <3>1. PICK i \in 1 .. Len(s) - 1 : x = Tail(s)[i]
      BY <1>2, <2>2 DEF ToSet
    <3>2. i + 1 \in 1 .. Len(s) /\ x = s[i + 1]
      BY <1>1, <1>2, <3>1
    <3> QED
      BY <1>2, <3>2 DEF ToSet
  <2> QED
    BY <2>1, <2>2
<1> QED
  BY <1>1, <1>4, <1>5

LEMMA ListedIn ==
  ASSUME NEW S, NEW s \in Seq(S) PROVE ToSet(s) \subseteq S
  BY LenProperties, ElementOfSeq DEF ToSet

LEMMA Nothing == <<>> \in Seq(Pieces) /\ <<>> \in Seq(Pieces \cup {Stop}) /\ ToSet(<<>>) = {}
  BY EmptySeq DEF ToSet

LEMMA MostIsMost ==
  Most \in Nat /\ \A c \in Costs : c \in Nat /\ c <= Most
  BY FacadeAssumption DEF Most

-----------------------------------------------------------------------------
(* The steps up to the turn.                                                 *)

\* For a step that changes no row, no client and no configuration.
LEMMA QuietKeeps ==
  ASSUME FacadeInv, NEW r \in Requests, NEW fields, Turns(r, fields), Quiet, stored' = stored,
         effects' = effects, "cfg" \in Fields \ fields, req[r].pc # "idle", req'[r].pc # "idle",
         Typed(req'[r]), Answering(r)', Spending(r)'
  PROVE  FacadeInv'
<1>1. /\ journal' \in [Requests -> Rows] /\ client' \in [Requests -> Clients] /\ usage' \in Nat
      /\ \A k \in Requests \ {r} : journal'[k] = journal[k] /\ client'[k] = client[k]
  BY DEF Quiet, FacadeInv, TypeOK, Rows, Clients
<1>2. FactsAreAllowed' /\ RulesAreRead(r)'
  BY RulesStay DEF Turns
<1> QED
  BY <1>1, <1>2, StepKeeps

LEMMA ReadConfigKeeps ==
  ASSUME FacadeInv, NEW r \in Requests, ReadConfig(r) PROVE FacadeInv'
<1> DEFINE cfg == ResolveConfig(stored)
<1>1. /\ cfg.cap \in Nat /\ FailClosed \subseteq DOMAIN cfg.rules
      /\ \A t \in DOMAIN cfg.rules : cfg.rules[t] \in Rules
  BY Resolved DEF FacadeInv, TypeOK
<1>2. /\ Turns(r, {"pc", "cfg"}) /\ req[r].pc = "idle" /\ req'[r].pc = "config" /\ req'[r].cfg = cfg
  BY EarlyDoes DEF FacadeInv
<1> HIDE DEF cfg
<1>3. /\ req'[r].kind = req[r].kind /\ req'[r].prior = req[r].prior /\ req'[r].running = req[r].running
      /\ req'[r].hop = req[r].hop /\ req'[r].cost = req[r].cost /\ req'[r].text = req[r].text
      /\ req'[r].queue = req[r].queue
  BY <1>2 DEF Turns, Fields
<1>4. Quiet /\ stored' = stored /\ effects' = effects
  BY QuietSteps DEF ReadConfig
<1>5. Typed(req'[r])
  BY <1>1, <1>2, <1>3 DEF FacadeInv, TypeOK, Typed
<1>6. RulesAreRead(r)'
  BY <1>1, <1>2 DEF RulesAreRead
<1>7. FactsAreAllowed'
  <2>1. \A k \in Requests \ {r} : req'[k] = req[k]
    BY <1>2 DEF Turns
  <2> QED
    BY <1>2, <1>4, <2>1 DEF FacadeInv, FactsAreAllowed
<1>8. Answering(r)'
  BY <1>2, <1>3, <1>4 DEF FacadeInv, Answering, ShownIsKept, Early, Quiet
<1>9. Spending(r)'
  BY <1>2, <1>3, <1>4 DEF FacadeInv, Spending, Early, Quiet
<1>10. /\ journal' \in [Requests -> Rows] /\ client' \in [Requests -> Clients] /\ usage' \in Nat
       /\ \A k \in Requests \ {r} : journal'[k] = journal[k] /\ client'[k] = client[k]
  BY <1>4 DEF Quiet, FacadeInv, TypeOK, Rows, Clients
<1> QED
  BY <1>2, <1>4, <1>5, <1>6, <1>7, <1>8, <1>9, <1>10, StepKeeps

\* When a handler returns, what is said of its answer and its spend is about
\* the rows alone.
LEMMA ReturnKeeps ==
  ASSUME FacadeInv, NEW r \in Requests, Return(r), req[r].pc # "idle",
         RowsBecome(r, journal[r].open, journal[r].text, journal[r].spend),
         journal' \in [Requests -> Rows],
         NEW text, NEW end, ClientBecomes(r, text, end), client' \in [Requests -> Clients],
         end = "stop" => text \subseteq journal[r].text,
         usage' = usage, stored' = stored, effects' = effects
  PROVE  FacadeInv'
<1>1. /\ Turns(r, Fields \ {"kind", "cfg", "prior"})
      /\ req'[r].pc = "ended" /\ req'[r].text = <<>> /\ req'[r].queue = <<>>
      /\ req'[r].running = 0 /\ req'[r].hop = 0 /\ req'[r].cost = 0
      /\ req'[r].kind = req[r].kind /\ req'[r].cfg = req[r].cfg /\ req'[r].prior = req[r].prior
  BY ReturnDoes DEF FacadeInv
<1>2. Typed(req'[r])
  BY <1>1, Nothing DEF FacadeInv, TypeOK, Typed
<1>3. FactsAreAllowed' /\ RulesAreRead(r)'
  BY <1>1, RulesStay DEF Turns
<1>4. Answering(r)'
  BY <1>1, Nothing DEF RowsBecome, ClientBecomes, Answering, ShownIsKept, Early
<1>5. Spending(r)'
  BY <1>1, MostIsMost DEF FacadeInv, RowsBecome, Spending, Early
<1>6. usage' \in Nat /\ \A k \in Requests \ {r} : journal'[k] = journal[k] /\ client'[k] = client[k]
  BY DEF FacadeInv, TypeOK, RowsBecome, ClientBecomes
<1> QED
  BY <1>1, <1>2, <1>3, <1>4, <1>5, <1>6, StepKeeps

LEMMA SameRows ==
  ASSUME TypeOK, NEW r \in Requests, journal' = journal
  PROVE  RowsBecome(r, journal[r].open, journal[r].text, journal[r].spend) /\ journal' \in [Requests -> Rows]
  BY DEF TypeOK, Rows, RowsBecome

LEMMA ReadSpendKeeps ==
  ASSUME FacadeInv, NEW r \in Requests, ReadSpend(r) PROVE FacadeInv'
<1>1. journal' = journal /\ usage' = usage /\ stored' = stored /\ effects' = effects
  BY DEF ReadSpend
<1>2. /\ req[r].pc = "config"
      /\ \/ Return(r) /\ client' = [client EXCEPT ![r].end = "402"]
         \/ /\ Turns(r, {"pc", "prior", "running"}) /\ req'[r].pc = "admitted"
            /\ req'[r].prior = usage /\ req'[r].running = usage
            /\ ~BudgetExceeded(usage, req[r].cfg.cap) /\ client' = client
  BY ReadSpendDoes DEF FacadeInv
<1>3. CASE Return(r) /\ client' = [client EXCEPT ![r].end = "402"]
  <2>1. ClientBecomes(r, client[r].text, "402") /\ client' \in [Requests -> Clients]
    BY <1>3, EndClient DEF FacadeInv
  <2> QED
    BY <1>1, <1>2, <1>3, <2>1, SameRows, ReturnKeeps DEF FacadeInv
<1>4. CASE /\ Turns(r, {"pc", "prior", "running"}) /\ req'[r].pc = "admitted"
           /\ req'[r].prior = usage /\ req'[r].running = usage
           /\ ~BudgetExceeded(usage, req[r].cfg.cap) /\ client' = client
  <2>1. /\ req'[r].kind = req[r].kind /\ req'[r].cfg = req[r].cfg
        /\ req'[r].hop = req[r].hop /\ req'[r].cost = req[r].cost /\ req'[r].text = req[r].text
        /\ req'[r].queue = req[r].queue
    BY <1>4 DEF Turns, Fields
  <2>2. usage \in Nat /\ req[r].cfg.cap \in Nat
    BY DEF FacadeInv, TypeOK
  <2>3. Typed(req'[r])
    BY <1>4, <2>1, <2>2 DEF FacadeInv, TypeOK, Typed
  <2>4. Answering(r)'
    BY <1>1, <1>2, <1>4, <2>1 DEF FacadeInv, Answering, ShownIsKept, Early
  <2>5. Spending(r)'
    BY <1>1, <1>2, <1>4, <2>1, <2>2 DEF FacadeInv, Spending, Early, BudgetExceeded
  <2> QED
    BY <1>1, <1>2, <1>4, <2>3, <2>4, <2>5, QuietKeeps DEF Quiet, Fields
<1> QED
  BY <1>2, <1>3, <1>4

LEMMA BuildToolkitKeeps ==
  ASSUME FacadeInv, NEW r \in Requests, BuildToolkit(r) PROVE FacadeInv'
<1>1. Quiet /\ stored' = stored /\ effects' = effects
  BY QuietSteps DEF BuildToolkit
<1>2. Turns(r, {"pc", "mcp"}) /\ req[r].pc = "admitted" /\ req'[r].pc = "built"
  BY EarlyDoes DEF FacadeInv
<1>3. /\ req'[r].kind = req[r].kind /\ req'[r].cfg = req[r].cfg /\ req'[r].prior = req[r].prior
      /\ req'[r].running = req[r].running /\ req'[r].hop = req[r].hop /\ req'[r].cost = req[r].cost
      /\ req'[r].text = req[r].text /\ req'[r].queue = req[r].queue
  BY <1>2 DEF Turns, Fields
<1>4. Typed(req'[r])
  BY <1>3 DEF FacadeInv, TypeOK, Typed
<1>5. Answering(r)'
  BY <1>1, <1>2, <1>3 DEF FacadeInv, Answering, ShownIsKept, Early, Quiet
<1>6. Spending(r)'
  BY <1>1, <1>2, <1>3 DEF FacadeInv, Spending, Early, Quiet
<1> QED
  BY <1>1, <1>2, <1>4, <1>5, <1>6, QuietKeeps DEF Fields

LEMMA RefuseKeeps ==
  ASSUME FacadeInv, NEW r \in Requests, Refuse(r) PROVE FacadeInv'
<1>1. stored' = stored /\ effects' = effects
  BY DEF Refuse
<1>2. /\ req[r].pc = "built" /\ Return(r) /\ journal' = journal /\ usage' = usage
      /\ ClientBecomes(r, client[r].text, "refused") /\ client' \in [Requests -> Clients]
  BY RefuseRows DEF FacadeInv
<1> QED
  BY <1>1, <1>2, SameRows, ReturnKeeps DEF FacadeInv

LEMMA OpenTurnKeeps ==
  ASSUME FacadeInv, NEW r \in Requests, OpenTurn(r) PROVE FacadeInv'
<1>1. Turns(r, {"pc"}) /\ req[r].pc = "built" /\ req'[r].pc = "loop"
  BY EarlyDoes DEF FacadeInv
<1>2. /\ RowsBecome(r, TRUE, journal[r].text, journal[r].spend) /\ journal' \in [Requests -> Rows]
      /\ client' = client /\ usage' = usage /\ stored' = stored /\ effects' = effects
  BY OpenTurnRows DEF FacadeInv, OpenTurn
<1>3. /\ req'[r].kind = req[r].kind /\ req'[r].cfg = req[r].cfg /\ req'[r].prior = req[r].prior
      /\ req'[r].running = req[r].running /\ req'[r].hop = req[r].hop /\ req'[r].cost = req[r].cost
      /\ req'[r].text = req[r].text /\ req'[r].queue = req[r].queue
  BY <1>1 DEF Turns, Fields
<1>4. Typed(req'[r])
  BY <1>3 DEF FacadeInv, TypeOK, Typed
<1>5. Answering(r)'
  BY <1>1, <1>2, <1>3, Nothing DEF FacadeInv, Answering, ShownIsKept, Early, RowsBecome
<1>6. Spending(r)'
  <2>1. journal[r].spend \in Nat /\ req[r].prior \in Nat /\ req[r].cfg.cap \in Nat
    BY DEF FacadeInv, TypeOK
  <2> QED
    BY <1>1, <1>2, <1>3, <2>1, MostIsMost DEF FacadeInv, Spending, Early, RowsBecome
<1>7. FactsAreAllowed' /\ RulesAreRead(r)'
  BY <1>1, <1>2, <1>3, RulesStay DEF Turns
<1>8. /\ client' \in [Requests -> Clients] /\ usage' \in Nat
      /\ \A k \in Requests \ {r} : journal'[k] = journal[k] /\ client'[k] = client[k]
  BY <1>2 DEF FacadeInv, TypeOK, Clients, RowsBecome
<1> QED
  BY <1>1, <1>2, <1>4, <1>5, <1>6, <1>7, <1>8, StepKeeps

-----------------------------------------------------------------------------
(* The hops.                                                                 *)

\* A delta is a piece of text, and not the chunk that ends a stream.
LEMMA DeltaIsPiece ==
  ASSUME FacadeInv, NEW r \in Requests
  PROVE  LET piece == <<r, req[r].hop, Len(req[r].text) + 1>> IN piece \in Pieces /\ piece # Stop
<1>1. req[r].hop \in Nat /\ Len(req[r].text) + 1 \in Nat
  BY LenProperties DEF FacadeInv, TypeOK
<1>2. <<r, req[r].hop, Len(req[r].text) + 1>> \in Pieces
  BY <1>1 DEF Pieces
<1>3. <<r, req[r].hop, Len(req[r].text) + 1>> # Stop
  BY DEF Stop
<1> QED
  BY <1>2, <1>3

LEMMA StartHopKeeps ==
  ASSUME FacadeInv, NEW r \in Requests, StartHop(r) PROVE FacadeInv'
<1>1. Quiet /\ stored' = stored /\ effects' = effects
  BY QuietSteps DEF StartHop
<1>2. /\ Turns(r, {"pc", "text", "cost", "finish"}) /\ req[r].pc = "loop" /\ req'[r].pc = "hop"
      /\ req'[r].text = <<>> /\ req'[r].cost = 0 /\ MayHop(r)
  BY HopDoes DEF FacadeInv
<1>3. /\ req'[r].kind = req[r].kind /\ req'[r].cfg = req[r].cfg /\ req'[r].prior = req[r].prior
      /\ req'[r].running = req[r].running /\ req'[r].hop = req[r].hop /\ req'[r].queue = req[r].queue
  BY <1>2 DEF Turns, Fields
<1>4. Typed(req'[r])
  BY <1>2, <1>3, Nothing DEF FacadeInv, TypeOK, Typed
<1>5. Answering(r)'
  BY <1>1, <1>2, <1>3, Nothing DEF FacadeInv, Answering, ShownIsKept, Early, Quiet
<1>6. Spending(r)'
  <2>1. journal[r].spend \in Nat /\ req[r].prior \in Nat /\ req[r].cfg.cap \in Nat
    BY DEF FacadeInv, TypeOK
  <2> QED
    BY <1>1, <1>2, <1>3, <2>1, MostIsMost, SMTT(30)
    DEF FacadeInv, Spending, Early, Quiet, MayHop, BudgetExceeded
<1> QED
  BY <1>1, <1>2, <1>4, <1>5, <1>6, QuietKeeps DEF Fields

LEMMA StopLoopKeeps ==
  ASSUME FacadeInv, NEW r \in Requests, StopLoop(r) PROVE FacadeInv'
<1>1. Quiet /\ stored' = stored /\ effects' = effects
  BY QuietSteps DEF StopLoop
<1>2. Turns(r, {"pc"}) /\ req[r].pc = "loop" /\ req'[r].pc = "closing"
  BY HopDoes DEF FacadeInv
<1>3. /\ req'[r].kind = req[r].kind /\ req'[r].cfg = req[r].cfg /\ req'[r].prior = req[r].prior
      /\ req'[r].running = req[r].running /\ req'[r].hop = req[r].hop /\ req'[r].cost = req[r].cost
      /\ req'[r].text = req[r].text /\ req'[r].queue = req[r].queue
  BY <1>2 DEF Turns, Fields
<1>4. Typed(req'[r])
  BY <1>3 DEF FacadeInv, TypeOK, Typed
<1>5. Answering(r)'
  BY <1>1, <1>2, <1>3 DEF FacadeInv, Answering, ShownIsKept, Early, Quiet
<1>6. Spending(r)'
  BY <1>1, <1>2, <1>3 DEF FacadeInv, Spending, Early, Quiet
<1> QED
  BY <1>1, <1>2, <1>4, <1>5, <1>6, QuietKeeps DEF Fields

LEMMA TextDeltaKeeps ==
  ASSUME FacadeInv, NEW r \in Requests, TextDelta(r) PROVE FacadeInv'
<1> DEFINE piece == <<r, req[r].hop, Len(req[r].text) + 1>>
<1>1. Quiet /\ stored' = stored /\ effects' = effects
  BY QuietSteps DEF TextDelta
<1>2. /\ Turns(r, {"text", "queue"}) /\ req[r].pc = "hop" /\ req'[r].text = Append(req[r].text, piece)
      /\ req'[r].queue \in {req[r].queue, Append(req[r].queue, piece)}
  BY QueueDoes DEF FacadeInv
<1>3. piece \in Pieces /\ piece # Stop
  BY DeltaIsPiece
<1> HIDE DEF piece
<1>4. /\ req'[r].kind = req[r].kind /\ req'[r].cfg = req[r].cfg /\ req'[r].prior = req[r].prior
      /\ req'[r].running = req[r].running /\ req'[r].hop = req[r].hop /\ req'[r].cost = req[r].cost
      /\ req'[r].pc = "hop"
  BY <1>2 DEF Turns, Fields
<1>5. /\ req[r].text \in Seq(Pieces) /\ req[r].queue \in Seq(Pieces \cup {Stop})
  BY DEF FacadeInv, TypeOK
<1>6. req'[r].text \in Seq(Pieces) /\ ToSet(req'[r].text) = ToSet(req[r].text) \cup {piece}
  BY <1>2, <1>3, <1>5, Appended
<1>7. /\ req'[r].queue \in Seq(Pieces \cup {Stop})
      /\ ToSet(req'[r].queue) \subseteq ToSet(req[r].queue) \cup {piece}
  <2>1. /\ Append(req[r].queue, piece) \in Seq(Pieces \cup {Stop})
        /\ ToSet(Append(req[r].queue, piece)) = ToSet(req[r].queue) \cup {piece}
    BY <1>3, <1>5, Appended
  <2> QED
    BY <1>2, <1>5, <2>1
<1>8. Typed(req'[r])
  BY <1>4, <1>6, <1>7 DEF FacadeInv, TypeOK, Typed
<1>9. Answering(r)'
  BY <1>1, <1>2, <1>3, <1>4, <1>6, <1>7 DEF FacadeInv, Answering, ShownIsKept, Early, Quiet
<1>10. Spending(r)'
  BY <1>1, <1>2, <1>4 DEF FacadeInv, Spending, Early, Quiet
<1> QED
  BY <1>1, <1>2, <1>4, <1>8, <1>9, <1>10, QuietKeeps DEF Fields

LEMMA HopIsOver ==
  ASSUME FacadeInv, NEW r \in Requests, NEW fields, Turns(r, fields),
         fields \subseteq {"pc", "calls", "finish", "cost"},
         Quiet, stored' = stored, effects' = effects,
         req[r].pc = "hop", req'[r].pc = "batch", req'[r].cost \in Costs \cup {0}
  PROVE  FacadeInv'
<1>1. /\ req'[r].kind = req[r].kind /\ req'[r].cfg = req[r].cfg /\ req'[r].prior = req[r].prior
      /\ req'[r].running = req[r].running /\ req'[r].hop = req[r].hop
      /\ req'[r].text = req[r].text /\ req'[r].queue = req[r].queue
  BY DEF Turns, Fields
<1>2. req'[r].cost \in Nat /\ req'[r].cost <= Most
  BY MostIsMost
<1>3. Typed(req'[r])
  BY <1>1, <1>2 DEF FacadeInv, TypeOK, Typed
<1>4. Answering(r)'
  BY <1>1 DEF FacadeInv, Answering, ShownIsKept, Early, Quiet
<1>5. Spending(r)'
  BY <1>1, <1>2 DEF FacadeInv, Spending, Early, Quiet
<1> QED
  BY <1>3, <1>4, <1>5, QuietKeeps DEF Fields

LEMMA AskApprovalKeeps ==
  ASSUME FacadeInv, NEW r \in Requests, NEW tool, AskApproval(r, tool) PROVE FacadeInv'
<1>1. Quiet /\ stored' = stored /\ effects' = effects
  BY QuietSteps DEF AskApproval
<1>2. /\ Turns(r, {"pc", "calls", "finish", "cost"}) /\ req[r].pc = "hop" /\ req'[r].pc = "batch"
      /\ req'[r].cost \in Costs
  BY HopDoes DEF FacadeInv
<1> QED
  BY <1>1, <1>2, HopIsOver

LEMMA HopEndsKeeps ==
  ASSUME FacadeInv, NEW r \in Requests, HopEnds(r) PROVE FacadeInv'
<1>1. Quiet /\ stored' = stored /\ effects' = effects
  BY QuietSteps DEF HopEnds
<1>2. /\ Turns(r, {"pc", "finish", "cost"}) /\ req[r].pc = "hop" /\ req'[r].pc = "batch"
      /\ req'[r].cost \in Costs \cup {0}
  BY HopDoes DEF FacadeInv
<1> QED
  BY <1>1, <1>2, HopIsOver, SMTT(30)

LEMMA JournalBatchKeeps ==
  ASSUME FacadeInv, NEW r \in Requests, JournalBatch(r) PROVE FacadeInv'
<1>1. JournalHop(r) /\ stored' = stored /\ effects' = effects /\ client' = client
  BY DEF JournalBatch
<1>2. /\ Turns(r, {"pc", "hop", "running"}) /\ req[r].pc = "batch" /\ req'[r].pc \in {"loop", "closing"}
      /\ req'[r].hop = req[r].hop + 1 /\ req'[r].running = req[r].running + req[r].cost
  BY HopDoes DEF FacadeInv
<1>3. ToSet(req[r].text) \subseteq Pieces
  BY ListedIn DEF FacadeInv, TypeOK
<1>4. /\ RowsBecome(r, journal[r].open, journal[r].text \cup ToSet(req[r].text),
                    journal[r].spend + req[r].cost)
      /\ journal' \in [Requests -> Rows]
      /\ usage' = usage + req[r].cost
  BY <1>1, <1>3, JournalHopRows DEF FacadeInv
<1>5. /\ req'[r].kind = req[r].kind /\ req'[r].cfg = req[r].cfg /\ req'[r].prior = req[r].prior
      /\ req'[r].cost = req[r].cost /\ req'[r].text = req[r].text /\ req'[r].queue = req[r].queue
  BY <1>2 DEF Turns, Fields
<1>6. /\ req[r].hop \in Nat /\ req[r].running \in Nat /\ req[r].cost \in Nat /\ usage \in Nat
      /\ req[r].prior \in Nat /\ req[r].cfg.cap \in Nat /\ journal[r].spend \in Nat
  BY DEF FacadeInv, TypeOK
<1>7. Typed(req'[r])
  BY <1>2, <1>5, <1>6, SMTT(30) DEF FacadeInv, TypeOK, Typed
<1>8. Answering(r)'
  BY <1>1, <1>2, <1>4, <1>5 DEF FacadeInv, Answering, ShownIsKept, Early, RowsBecome
<1>9. Spending(r)'
  <2>1. /\ req[r].cost <= Most /\ req[r].running = req[r].prior + journal[r].spend
        /\ req[r].cfg.cap # 0 => req[r].prior + journal[r].spend < req[r].cfg.cap
    BY <1>2 DEF FacadeInv, Spending
  <2>2. /\ req'[r].running = req'[r].prior + journal'[r].spend
        /\ req'[r].cfg.cap # 0 => req'[r].prior + journal'[r].spend < req'[r].cfg.cap + Most
    BY <1>2, <1>4, <1>5, <1>6, <2>1, MostIsMost DEF RowsBecome
  <2> QED
    BY <1>2, <1>5, <2>1, <2>2 DEF Spending, Early
<1>10. FactsAreAllowed' /\ RulesAreRead(r)'
  BY <1>1, <1>2, <1>5, RulesStay DEF Turns
<1>11. /\ client' \in [Requests -> Clients] /\ usage' \in Nat
       /\ \A k \in Requests \ {r} : journal'[k] = journal[k] /\ client'[k] = client[k]
  BY <1>1, <1>4, <1>6, SMTT(30) DEF FacadeInv, TypeOK, Clients, RowsBecome
<1> QED
  BY <1>1, <1>2, <1>4, <1>7, <1>8, <1>9, <1>10, <1>11, StepKeeps

LEMMA FailKeeps ==
  ASSUME FacadeInv, NEW r \in Requests, Fail(r) PROVE FacadeInv'
<1>1. Turns(r, {"pc"}) /\ req[r].pc \in {"hop", "batch"} /\ req'[r].pc = "failed"
  BY HopDoes DEF FacadeInv
<1>2. /\ RowsBecome(r, journal[r].open, journal[r].text, journal[r].spend)
      /\ journal' \in [Requests -> Rows] /\ client' = client /\ usage' = usage
      /\ stored' = stored /\ effects' = effects
  BY FailRows DEF FacadeInv, Fail
<1>3. /\ req'[r].kind = req[r].kind /\ req'[r].cfg = req[r].cfg /\ req'[r].prior = req[r].prior
      /\ req'[r].running = req[r].running /\ req'[r].hop = req[r].hop /\ req'[r].cost = req[r].cost
      /\ req'[r].text = req[r].text /\ req'[r].queue = req[r].queue
  BY <1>1 DEF Turns, Fields
<1>4. Typed(req'[r])
  BY <1>3 DEF FacadeInv, TypeOK, Typed
<1>5. Answering(r)'
  BY <1>1, <1>2, <1>3 DEF FacadeInv, Answering, ShownIsKept, Early, RowsBecome
<1>6. Spending(r)'
  BY <1>1, <1>2, <1>3 DEF FacadeInv, Spending, Early, RowsBecome
<1>7. FactsAreAllowed' /\ RulesAreRead(r)'
  BY <1>1, <1>2, <1>3, RulesStay DEF Turns
<1>8. /\ client' \in [Requests -> Clients] /\ usage' \in Nat
      /\ \A k \in Requests \ {r} : journal'[k] = journal[k] /\ client'[k] = client[k]
  BY <1>2 DEF FacadeInv, TypeOK, Clients, RowsBecome
<1> QED
  BY <1>1, <1>2, <1>4, <1>5, <1>6, <1>7, <1>8, StepKeeps

-----------------------------------------------------------------------------
(* The tools.                                                                *)

\* Only the two memory tools change the memory, and not when denied.
LEMMA OnlyMemory ==
  ASSUME NEW rules, NEW tool, NEW answer \in LocalHandler(rules, tool), answer.effect = "memory"
  PROVE  tool \in FailClosed /\ ResolveRule(rules, tool) # "deny"
<1>1. ExecHandler(rules, tool) \subseteq {Refused} \cup Either("workspace")
  BY DEF ExecHandler
<1>2. LookupHandler(rules, tool) \subseteq {Refused} \cup Either("none")
  BY DEF LookupHandler
<1>3. TodoWriteHandler(rules) \subseteq {Refused, Answer("ok", "todos")}
  BY DEF TodoWriteHandler
<1>4. \A a \in {Refused, Answer("ok", "todos"), Answer("ok", "job")}
              \cup Either("workspace") \cup Either("none") : a.effect # "memory"
  BY DEF Refused, Answer, Either
<1>5. \A a \in ExecHandler(rules, tool) \cup SizedExecHandler(rules, tool) \cup LookupHandler(rules, tool)
              \cup TodoWriteHandler(rules) \cup JobHandler \cup AnswerHandler : a.effect # "memory"
  BY <1>1, <1>2, <1>3, <1>4 DEF SizedExecHandler, JobHandler, AnswerHandler
<1>6. tool \in FailClosed /\ answer \in MemoryHandler(rules, tool)
  BY <1>5 DEF LocalHandler
<1>7. CASE ResolveRule(rules, tool) = "deny"
  BY <1>4, <1>6, <1>7 DEF MemoryHandler
<1> QED
  BY <1>6, <1>7

LEMMA ServersOnly ==
  ASSUME NEW rules, NEW tool, NEW answer \in McpHandler(rules, tool) PROVE answer.effect # "memory"
  BY DEF McpHandler, Refused, Answer, Either

\* What the rules let through and neither ask for nor deny was allowed; the
\* coercion of the facade turns no question about the memory into consent.
LEMMA LetThrough ==
  ASSUME NEW r \in Requests, RulesAreRead(r), req[r].pc # "idle", NEW tool \in FailClosed,
         ~NeedsApproval(RulesOf(r), tool), ResolveRule(RulesOf(r), tool) # "deny"
  PROVE  tool \in DOMAIN req[r].cfg.rules /\ req[r].cfg.rules[tool] = "allow"
<1> DEFINE rules == req[r].cfg.rules
<1>1. tool \in DOMAIN rules /\ rules[tool] \in {"allow", "ask", "deny"} /\ tool \notin NeverAsk
  BY DEF RulesAreRead, Rules, FailClosed, NeverAsk
<1>2. RulesOf(r) = rules \/ RulesOf(r) = AutoApproveRules(rules)
  BY DEF RulesOf
<1> HIDE DEF rules
<1>3. /\ DOMAIN AutoApproveRules(rules) = DOMAIN rules
      /\ rules[tool] = "ask" => AutoApproveRules(rules)[tool] = "deny"
      /\ rules[tool] # "ask" => AutoApproveRules(rules)[tool] = rules[tool]
  BY <1>1 DEF AutoApproveRules
<1>4. /\ tool \in DOMAIN RulesOf(r) /\ ResolveRule(RulesOf(r), tool) = RulesOf(r)[tool]
      /\ RulesOf(r)[tool] # "ask" /\ RulesOf(r)[tool] # "deny"
  BY <1>1, <1>2, <1>3 DEF ResolveRule, NeedsApproval
<1>5. rules[tool] = "allow"
  BY <1>1, <1>2, <1>3, <1>4
<1> QED
  BY <1>1, <1>5 DEF rules

LEMMA CallToolKeeps ==
  ASSUME FacadeInv, NEW r \in Requests, NEW tool, CallTool(r, tool) PROVE FacadeInv'
<1>1. Quiet /\ stored' = stored
  BY QuietSteps
<1>2. Turns(r, {"calls"}) /\ req[r].pc = "hop"
  BY HopDoes DEF FacadeInv
<1>3. /\ req'[r].kind = req[r].kind /\ req'[r].cfg = req[r].cfg /\ req'[r].prior = req[r].prior
      /\ req'[r].running = req[r].running /\ req'[r].hop = req[r].hop /\ req'[r].cost = req[r].cost
      /\ req'[r].text = req[r].text /\ req'[r].queue = req[r].queue /\ req'[r].pc = req[r].pc
  BY <1>2 DEF Turns, Fields
<1>4. Typed(req'[r])
  BY <1>3 DEF FacadeInv, TypeOK, Typed
<1>5. Answering(r)'
  BY <1>1, <1>2, <1>3 DEF FacadeInv, Answering, ShownIsKept, Early, Quiet
<1>6. Spending(r)'
  BY <1>1, <1>2, <1>3 DEF FacadeInv, Spending, Early, Quiet
<1>7. RulesAreRead(r)'
  BY <1>2, <1>3 DEF FacadeInv, RulesAreRead
<1>8. PICK answer \in Outcomes(r, tool) :
        effects' = effects \cup (IF answer.effect = "none" THEN {} ELSE {Effect(r, tool, answer)})
  BY DEF CallTool
<1>9. answer.effect = "memory" => tool \in DOMAIN req[r].cfg.rules /\ req[r].cfg.rules[tool] = "allow"
  <2> SUFFICES ASSUME answer.effect = "memory"
               PROVE  tool \in DOMAIN req[r].cfg.rules /\ req[r].cfg.rules[tool] = "allow"
    OBVIOUS
  <2>1. answer \in LocalHandler(RulesOf(r), tool)
    BY ServersOnly DEF Outcomes
  <2>2. tool \in FailClosed /\ ResolveRule(RulesOf(r), tool) # "deny"
    BY <2>1, OnlyMemory
  <2> QED
    BY <1>2, <2>2, LetThrough DEF CallTool, FacadeInv
<1>10. FactsAreAllowed'
  <2>1. /\ Effect(r, tool, answer).by = r /\ Effect(r, tool, answer).tool = tool
        /\ Effect(r, tool, answer).effect = answer.effect
    BY DEF Effect
  <2>2. \A k \in Requests : req'[k].cfg = req[k].cfg /\ req'[k].pc = req[k].pc
    BY <1>2, <1>3 DEF Turns
  <2>3. \A e \in effects' : e \in effects \/ e = Effect(r, tool, answer)
    BY <1>8
  <2> SUFFICES ASSUME NEW e \in effects', e.effect = "memory"
               PROVE  /\ e.by \in Requests /\ req'[e.by].pc # "idle"
                      /\ e.tool \in DOMAIN req'[e.by].cfg.rules
                      /\ req'[e.by].cfg.rules[e.tool] = "allow"
    BY DEF FactsAreAllowed
  <2>4. CASE e \in effects
    BY <2>2, <2>4 DEF FacadeInv, FactsAreAllowed
  <2>5. CASE e = Effect(r, tool, answer)
    BY <1>2, <1>9, <2>1, <2>2, <2>5
  <2> QED
    BY <2>3, <2>4, <2>5
<1>11. /\ journal' \in [Requests -> Rows] /\ client' \in [Requests -> Clients] /\ usage' \in Nat
       /\ \A k \in Requests \ {r} : journal'[k] = journal[k] /\ client'[k] = client[k]
  BY <1>1 DEF Quiet, FacadeInv, TypeOK, Rows, Clients
<1> QED
  BY <1>1, <1>2, <1>4, <1>5, <1>6, <1>7, <1>10, <1>11, StepKeeps

-----------------------------------------------------------------------------
(* The answer.                                                               *)

LEMMA RespondKeeps ==
  ASSUME FacadeInv, NEW r \in Requests, Respond(r) PROVE FacadeInv'
<1>1. stored' = stored /\ effects' = effects
  BY DEF Respond
<1>2. ToSet(req[r].text) \subseteq Pieces
  BY ListedIn DEF FacadeInv, TypeOK
<1>3. /\ req[r].pc = "closing" /\ Return(r) /\ journal' = journal /\ usage' = usage
      /\ ClientBecomes(r, ToSet(req[r].text), "stop") /\ client' \in [Requests -> Clients]
  BY <1>2, RespondRows DEF FacadeInv
<1>4. ToSet(req[r].text) \subseteq journal[r].text
  BY <1>3 DEF FacadeInv, Answering
<1> QED
  BY <1>1, <1>3, <1>4, SameRows, ReturnKeeps DEF FacadeInv

LEMMA RespondErrorKeeps ==
  ASSUME FacadeInv, NEW r \in Requests, RespondError(r) PROVE FacadeInv'
<1>1. stored' = stored /\ effects' = effects
  BY DEF RespondError
<1>2. /\ req[r].pc = "failed" /\ Return(r) /\ journal' = journal /\ usage' = usage
      /\ ClientBecomes(r, client[r].text, "error") /\ client' \in [Requests -> Clients]
  BY RespondErrorRows DEF FacadeInv
<1> QED
  BY <1>1, <1>2, SameRows, ReturnKeeps DEF FacadeInv

LEMMA OfferStopKeeps ==
  ASSUME FacadeInv, NEW r \in Requests, OfferStop(r) PROVE FacadeInv'
<1>1. Quiet /\ stored' = stored /\ effects' = effects
  BY QuietSteps DEF OfferStop
<1>2. /\ Turns(r, {"pc", "queue"}) /\ req[r].pc = "closing" /\ req'[r].pc = "drain"
      /\ req'[r].queue = Append(req[r].queue, Stop)
  BY QueueDoes DEF FacadeInv
<1>3. /\ req'[r].kind = req[r].kind /\ req'[r].cfg = req[r].cfg /\ req'[r].prior = req[r].prior
      /\ req'[r].running = req[r].running /\ req'[r].hop = req[r].hop /\ req'[r].cost = req[r].cost
      /\ req'[r].text = req[r].text
  BY <1>2 DEF Turns, Fields
<1>4. req[r].queue \in Seq(Pieces \cup {Stop})
  BY DEF FacadeInv, TypeOK
<1>5. /\ req'[r].queue \in Seq(Pieces \cup {Stop})
      /\ ToSet(req'[r].queue) = ToSet(req[r].queue) \cup {Stop}
  BY <1>2, <1>4, Appended
<1>6. Typed(req'[r])
  BY <1>3, <1>5 DEF FacadeInv, TypeOK, Typed
<1>7. Answering(r)'
  BY <1>1, <1>2, <1>3, <1>5 DEF FacadeInv, Answering, ShownIsKept, Early, Quiet
<1>8. Spending(r)'
  BY <1>1, <1>2, <1>3 DEF FacadeInv, Spending, Early, Quiet
<1> QED
  BY <1>1, <1>2, <1>6, <1>7, <1>8, QuietKeeps DEF Fields

LEMMA ReadChunkKeeps ==
  ASSUME FacadeInv, NEW r \in Requests, ReadChunk(r) PROVE FacadeInv'
<1> DEFINE chunk == Head(req[r].queue)
<1>1. stored' = stored /\ effects' = effects
  BY DEF ReadChunk
<1>2. Turns(r, {"queue"}) /\ req[r].queue # <<>> /\ req'[r].queue = Tail(req[r].queue)
  BY QueueDoes DEF FacadeInv
<1>3. /\ journal' = journal /\ usage' = usage /\ client' \in [Requests -> Clients]
      /\ \/ chunk = Stop /\ ClientBecomes(r, client[r].text, "stop")
         \/ chunk # Stop /\ ClientBecomes(r, client[r].text \cup {chunk}, client[r].end)
  BY ReadChunkRows DEF FacadeInv
<1>4. /\ req'[r].kind = req[r].kind /\ req'[r].cfg = req[r].cfg /\ req'[r].prior = req[r].prior
      /\ req'[r].running = req[r].running /\ req'[r].hop = req[r].hop /\ req'[r].cost = req[r].cost
      /\ req'[r].text = req[r].text /\ req'[r].pc = req[r].pc
  BY <1>2 DEF Turns, Fields
<1>5. /\ req'[r].queue \in Seq(Pieces \cup {Stop})
      /\ ToSet(req[r].queue) = ToSet(req'[r].queue) \cup {chunk}
  BY <1>2, Shortened DEF FacadeInv, TypeOK
<1> HIDE DEF chunk
<1>6. Typed(req'[r])
  BY <1>4, <1>5 DEF FacadeInv, TypeOK, Typed
<1>7. req[r].pc # "ended" /\ Answering(r)
  BY <1>2 DEF FacadeInv, Answering
<1>8. ShownIsKept(r)'
  BY <1>3, <1>4, <1>5, <1>7 DEF Answering, ShownIsKept, ClientBecomes
<1>9. Answering(r)'
  <2>1. CASE chunk = Stop
    BY <1>3, <1>4, <1>5, <1>7, <1>8, <2>1 DEF Answering, ShownIsKept, Early, ClientBecomes
  <2>2. CASE chunk # Stop
    BY <1>3, <1>4, <1>5, <1>7, <1>8, <2>2 DEF Answering, ShownIsKept, Early, ClientBecomes
  <2> QED
    BY <2>1, <2>2
<1>10. Spending(r)'
  BY <1>3, <1>4 DEF FacadeInv, Spending, Early
<1>11. FactsAreAllowed' /\ RulesAreRead(r)'
  <2>1. \A k \in Requests : req'[k].cfg = req[k].cfg /\ req'[k].pc = req[k].pc
    BY <1>2, <1>4 DEF Turns
  <2> QED
    BY <1>1, <2>1 DEF FacadeInv, FactsAreAllowed, RulesAreRead
<1>12. /\ journal' \in [Requests -> Rows] /\ usage' \in Nat
       /\ \A k \in Requests \ {r} : journal'[k] = journal[k] /\ client'[k] = client[k]
  BY <1>3 DEF FacadeInv, TypeOK, Rows, ClientBecomes
<1> QED
  BY <1>1, <1>2, <1>3, <1>6, <1>9, <1>10, <1>11, <1>12, StepKeeps

LEMMA StreamDoneKeeps ==
  ASSUME FacadeInv, NEW r \in Requests, StreamDone(r) PROVE FacadeInv'
<1>1. stored' = stored /\ effects' = effects
  BY DEF StreamDone
<1>2. /\ req[r].pc \in {"drain", "failed"} /\ Return(r) /\ journal' = journal /\ usage' = usage
      /\ \E e \in {"cut", client[r].end} :
           ClientBecomes(r, client[r].text, e) /\ client' \in [Requests -> Clients]
  BY StreamDoneRows DEF FacadeInv
<1>3. client[r].end = "stop" => client[r].text \subseteq journal[r].text
  BY DEF FacadeInv, Answering
<1> QED
  BY <1>1, <1>2, <1>3, SameRows, ReturnKeeps DEF FacadeInv

LEMMA LeaveKeeps ==
  ASSUME FacadeInv, NEW r \in Requests, Leave(r) PROVE FacadeInv'
<1>1. stored' = stored /\ effects' = effects
  BY DEF Leave
<1>2. /\ req[r].pc \in {"loop", "hop", "batch", "closing", "drain"} /\ Return(r) /\ usage' = usage
      /\ RowsBecome(r, journal[r].open, journal[r].text, journal[r].spend)
      /\ journal' \in [Requests -> Rows]
      /\ \E e \in {"left", client[r].end} :
           ClientBecomes(r, client[r].text, e) /\ client' \in [Requests -> Clients]
  BY LeaveRows DEF FacadeInv
<1>3. client[r].end = "stop" => client[r].text \subseteq journal[r].text
  BY DEF FacadeInv, Answering
<1> QED
  BY <1>1, <1>2, <1>3, ReturnKeeps

-----------------------------------------------------------------------------
(* The configuration.                                                        *)

\* A step that changes only the stored configuration.
LEMMA ConfigKeeps ==
  ASSUME FacadeInv, DOMAIN stored' = {"rules", "cap", "servers"}, stored'.cap \in Nat,
         \A t \in DOMAIN stored'.rules : stored'.rules[t] \in Rules,
         UNCHANGED <<req, journal, usage, client, effects>>
  PROVE  FacadeInv'
<1>1. TypeOK'
  BY DEF FacadeInv, TypeOK
<1>2. Shaped' /\ FactsAreAllowed'
  BY DEF FacadeInv, Shaped, FactsAreAllowed
<1>3. \A r \in Requests : RulesAreRead(r)' /\ Answering(r)' /\ Spending(r)'
  BY DEF FacadeInv, RulesAreRead, Answering, ShownIsKept, Spending
<1> QED
  BY <1>1, <1>2, <1>3 DEF FacadeInv

LEMMA SettingsKeep ==
  ASSUME FacadeInv
  PROVE  /\ \A flip \in Flips : SetToolRule(flip[1], flip[2]) => FacadeInv'
         /\ \A cap \in Caps : SetBudget(cap) => FacadeInv'
<1>1. ASSUME NEW flip \in Flips, SetToolRule(flip[1], flip[2]) PROVE FacadeInv'
  <2> DEFINE rules == Over(Entry(flip[1], flip[2]), stored.rules)
  <2>1. \A t \in DOMAIN rules : rules[t] \in Rules
    BY FacadeAssumption DEF FacadeInv, TypeOK, Over, Entry
  <2>2. stored' = [stored EXCEPT !.rules = rules] /\ UNCHANGED <<req, journal, usage, client, effects>>
    BY <1>1 DEF SetToolRule, MergeToolRule
  <2> HIDE DEF rules
  <2>3. DOMAIN stored' = {"rules", "cap", "servers"} /\ stored'.cap \in Nat /\ stored'.rules = rules
    BY <2>2 DEF FacadeInv, TypeOK
  <2> QED
    BY <2>1, <2>2, <2>3, ConfigKeeps
<1>2. ASSUME NEW cap \in Caps, SetBudget(cap) PROVE FacadeInv'
  <2>1. /\ DOMAIN stored' = {"rules", "cap", "servers"} /\ stored'.cap \in Nat
        /\ stored'.rules = stored.rules
    BY <1>2, FacadeAssumption DEF SetBudget, MergeBudget, FacadeInv, TypeOK
  <2>2. \A t \in DOMAIN stored'.rules : stored'.rules[t] \in Rules
    BY <2>1 DEF FacadeInv, TypeOK
  <2> QED
    BY <1>2, <2>1, <2>2, ConfigKeeps DEF SetBudget
<1> QED
  BY <1>1, <1>2

-----------------------------------------------------------------------------
(* The invariant.                                                            *)

LEMMA InitHolds == Init => FacadeInv
<1> SUFFICES ASSUME Init PROVE FacadeInv
  OBVIOUS
<1>1. PICK s \in Starts : stored = s.stored /\ req = [r \in Requests |-> Idle(s.kinds[r])]
  BY DEF Init
<1>2. /\ journal = [r \in Requests |-> NoRows]
      /\ client = [r \in Requests |-> [text |-> {}, end |-> "none"]]
      /\ usage = 0 /\ effects = {}
  BY DEF Init
<1>3. /\ DOMAIN stored = {"rules", "cap", "servers"} /\ stored.cap \in Nat
      /\ \A t \in DOMAIN stored.rules : stored.rules[t] \in Rules
      /\ s.kinds \in [Requests -> {"none", "prompt", "collect", "stream"}]
  BY <1>1, FacadeAssumption
<1> DEFINE cfg == ResolveConfig([rules |-> <<>>, cap |-> 0, servers |-> <<>>])
<1>4. cfg.cap = 0 /\ \A t \in DOMAIN cfg.rules : cfg.rules[t] \in Rules
  <2> DEFINE none == [rules |-> <<>>, cap |-> 0, servers |-> <<>>]
  <2>1. /\ DOMAIN none = {"rules", "cap", "servers"} /\ none.cap = 0
        /\ \A t \in DOMAIN none.rules : none.rules[t] \in Rules
    OBVIOUS
  <2> HIDE DEF none
  <2>2. ResolveConfig(none).cap = 0
        /\ \A t \in DOMAIN ResolveConfig(none).rules : ResolveConfig(none).rules[t] \in Rules
    BY <2>1, Resolved
  <2> QED
    BY <2>2 DEF none
<1> HIDE DEF cfg
<1>5. ASSUME NEW r \in Requests
      PROVE  /\ DOMAIN req[r] = Fields /\ req[r].pc = "idle" /\ req[r].cfg = cfg
             /\ req[r].kind \in {"none", "prompt", "collect", "stream"}
             /\ req[r].prior = 0 /\ req[r].running = 0 /\ req[r].hop = 0 /\ req[r].cost = 0
             /\ req[r].text = <<>> /\ req[r].queue = <<>>
             /\ journal[r] = NoRows /\ client[r].text = {} /\ client[r].end = "none"
  <2>1. req[r] = Idle(s.kinds[r]) /\ s.kinds[r] \in {"none", "prompt", "collect", "stream"}
    BY <1>1, <1>3
  <2> QED
    BY <1>2, <2>1, IdleShape DEF cfg
<1>6. Shaped
  BY <1>1, <1>5 DEF Shaped
<1>7. FactsAreAllowed
  BY <1>2 DEF FactsAreAllowed
<1>8. NoRows \in Rows /\ NoRows.spend = 0 /\ NoRows.open = FALSE
  BY DEF NoRows, Rows
<1>9. TypeOK
  <2>1. journal \in [Requests -> Rows] /\ client \in [Requests -> Clients]
    BY <1>2, <1>8 DEF Clients
  <2>2. ASSUME NEW r \in Requests PROVE Typed(req[r])
    <3>1. req[r].text \in Seq(Pieces) /\ req[r].queue \in Seq(Pieces \cup {Stop})
      BY <1>5, Nothing
    <3>2. {req[r].prior, req[r].running, req[r].hop, req[r].cost, req[r].cfg.cap} \subseteq Nat
      BY <1>4, <1>5
    <3> QED
      BY <1>5, <3>1, <3>2 DEF Typed
  <2> QED
    BY <1>2, <1>3, <2>1, <2>2 DEF TypeOK, Typed, Rows, Clients
<1>10. \A r \in Requests : RulesAreRead(r)
  BY <1>4, <1>5 DEF RulesAreRead
<1>11. \A r \in Requests : Answering(r)
  BY <1>5, Nothing DEF Answering, ShownIsKept, Early
<1>12. \A r \in Requests : Spending(r)
  BY <1>5, <1>8, MostIsMost DEF Spending, Early
<1> QED
  BY <1>6, <1>7, <1>9, <1>10, <1>11, <1>12 DEF FacadeInv

LEMMA NextKeeps == FacadeInv /\ [Next]_vars => FacadeInv'
<1> SUFFICES ASSUME FacadeInv, [Next]_vars PROVE FacadeInv'
  OBVIOUS
<1>1. ASSUME NEW r \in Requests,
             \/ ReadConfig(r) \/ ReadSpend(r) \/ BuildToolkit(r) \/ Refuse(r) \/ OpenTurn(r)
      PROVE  FacadeInv'
  BY <1>1, ReadConfigKeeps, ReadSpendKeeps, BuildToolkitKeeps, RefuseKeeps, OpenTurnKeeps
<1>2. ASSUME NEW r \in Requests,
             \/ StartHop(r) \/ StopLoop(r) \/ TextDelta(r) \/ HopEnds(r) \/ JournalBatch(r) \/ Fail(r)
      PROVE  FacadeInv'
  BY <1>2, StartHopKeeps, StopLoopKeeps, TextDeltaKeeps, HopEndsKeeps, JournalBatchKeeps, FailKeeps
<1>3. ASSUME NEW r \in Requests, NEW tool, CallTool(r, tool) \/ AskApproval(r, tool)
      PROVE  FacadeInv'
  BY <1>3, CallToolKeeps, AskApprovalKeeps
<1>4. ASSUME NEW r \in Requests,
             \/ Respond(r) \/ RespondError(r) \/ OfferStop(r) \/ ReadChunk(r) \/ StreamDone(r) \/ Leave(r)
      PROVE  FacadeInv'
  BY <1>4, RespondKeeps, RespondErrorKeeps, OfferStopKeeps, ReadChunkKeeps, StreamDoneKeeps, LeaveKeeps
<1>5. CASE UNCHANGED vars
  <2>1. stored' = stored /\ UNCHANGED <<req, journal, usage, client, effects>>
    BY <1>5 DEF vars
  <2> QED
    BY <2>1, ConfigKeeps DEF FacadeInv, TypeOK
<1> QED
  BY <1>1, <1>2, <1>3, <1>4, <1>5, SettingsKeep DEF Next

LEMMA FacadeHolds == Spec => []FacadeInv
  BY InitHolds, NextKeeps, PTL DEF Spec

\* The rows, the clients and the handlers stay of their types.
THEOREM TypesAreKept == Spec => []TypeOK
<1>1. FacadeInv => TypeOK
  BY DEF FacadeInv
<1> QED
  BY <1>1, FacadeHolds, PTL

\* A client that has been given a finished answer was shown only text that is
\* in the journal (journalHopBatch runs before the response or the stop chunk),
\* whatever failed, was cut or left on the way, for any queue and any hops.
THEOREM FinishedAnswersAreJournaled == Spec => []StopMeansJournaled
<1>1. FacadeInv => StopMeansJournaled
  BY DEF FacadeInv, Answering, StopMeansJournaled
<1> QED
  BY <1>1, FacadeHolds, PTL

\* A memory tool that changed something ran under a rule a human had set to
\* "allow" when the request read its configuration (autoApproveRules coerces
\* no "ask" of these tools, and no later change of the rules counts).
THEOREM OnlyConsentIsDurable == Spec => []DurableNeedsConsent
<1>1. FacadeInv => DurableNeedsConsent
  BY DEF FacadeInv, FactsAreAllowed, DurableNeedsConsent
<1> QED
  BY <1>1, FacadeHolds, PTL

\* Admission and the check before each hop (budgetExceeded) let a request
\* overrun its cap by less than the largest hop.
THEOREM OverrunIsLessThanAHop == Spec => []OverrunIsOneHop
<1>1. FacadeInv => OverrunIsOneHop
  BY DEF FacadeInv, Spending, OverrunIsOneHop, Most
<1> QED
  BY <1>1, FacadeHolds, PTL

-----------------------------------------------------------------------------
(* Folds.  A fold over a sequence is a recursive function over the sets of   *)
(* its places, by their largest member; that there is one, and that it keeps *)
(* what its steps keep, is shown by induction on the length.                 *)

\* Induction up to n, over a set in place of a predicate.
LEMMA UpTo ==
  ASSUME NEW n \in Nat, NEW T, 0 \in T, \A k \in 0..(n - 1) : k \in T => k + 1 \in T
  PROVE  \A k \in 0..n : k \in T
<1>. DEFINE Missing == {k \in 0..n : k \notin T}
           R == OpToRel(<, Nat)
<1>1. SUFFICES ASSUME Missing # {} PROVE FALSE
  OBVIOUS
<1>2. IsWellFoundedOn(R, Nat)
  BY NatLessThanWellFounded
<1>3. \A x, y \in Nat : y < x => <<y, x>> \in R
  BY DEF OpToRel
<1>. HIDE DEF R
<1>4. Missing \subseteq Nat
  OBVIOUS
<1>. HIDE DEF Missing
<1>5. PICK m \in Missing : \A y \in Missing : ~(<<y, m>> \in R)
  BY <1>1, <1>2, <1>4, WFMin
<1>6. m \in 0..n /\ m \notin T /\ m # 0
  BY DEF Missing
<1>7. m - 1 \notin Missing
  <2>1. m - 1 \in Nat /\ m \in Nat /\ m - 1 < m
    BY <1>6
  <2>. QED
    BY <1>3, <1>5, <2>1
<1>8. m - 1 \in T
  BY <1>6, <1>7 DEF Missing
<1>. QED
  BY <1>6, <1>8

\* A set of places in a sequence has a last one, and Max is it.
LEMMA MaxOfPlaces ==
  ASSUME NEW n \in Nat, NEW s \in SUBSET (1..n), s # {}
  PROVE  Max(s) \in s /\ \A i \in s : i <= Max(s)
<1>. DEFINE T == {k \in 0..n : \A t \in SUBSET (1..k) : t # {} => \E m \in t : \A i \in t : i <= m}
<1>1. 0 \in T
  <2>1. \A t \in SUBSET (1..0) : t = {}
    OBVIOUS
  <2>. QED
    BY <2>1, 0 \in 0..n
<1>2. ASSUME NEW k \in 0..(n - 1), k \in T PROVE k + 1 \in T
  <2>1. SUFFICES ASSUME NEW t \in SUBSET (1..(k + 1)), t # {}
                 PROVE  \E m \in t : \A i \in t : i <= m
    OBVIOUS
  <2>2. CASE k + 1 \in t
    BY <2>2
  <2>3. CASE k + 1 \notin t
    <3>1. t \in SUBSET (1..k)
      BY <2>3
    <3>. QED
      BY <1>2, <2>1, <3>1
  <2>. QED
    BY <2>2, <2>3
<1>3. n \in T
  <2>. HIDE DEF T
  <2>. QED
    BY <1>1, <1>2, UpTo
<1>. QED
  BY <1>3 DEF Max

\* g is the fold, from base on, of the steps F over the places 1..n.
Folds(g, n, base, F, T) ==
  /\ g \in [SUBSET (1..n) -> T] /\ g[{}] = base
  /\ \A s \in SUBSET (1..n) : s # {} => g[s] = F[<<g[s \ {Max(s)}], Max(s)>>]

\* A fold over the places 1..n of a sequence exists, and its value is in every
\* set that holds the start and is closed under the step F.
LEMMA FoldExists ==
  ASSUME NEW n \in Nat, NEW T, NEW base \in T, NEW F,
         \A b \in T, i \in 1..n : F[<<b, i>>] \in T
  PROVE  \E g : Folds(g, n, base, F, T)
<1>. DEFINE U == {k \in 0..n : \E g : Folds(g, k, base, F, T)}
<1>1. 0 \in U
  <2>1. Folds([s \in SUBSET (1..0) |-> base], 0, base, F, T)
    <3>1. \A s \in SUBSET (1..0) : s = {}
      OBVIOUS
    <3>. QED
      BY <3>1 DEF Folds
  <2>. QED
    BY <2>1
<1>2. ASSUME NEW k \in 0..(n - 1), k \in U PROVE k + 1 \in U
  <2>1. PICK g : Folds(g, k, base, F, T)
    BY <1>2
  <2>. DEFINE h == [s \in SUBSET (1..(k + 1)) |->
                      IF k + 1 \in s THEN F[<<g[s \ {k + 1}], k + 1>>] ELSE g[s]]
  <2>2. \A s \in SUBSET (1..(k + 1)) : s \ {k + 1} \in SUBSET (1..k)
    OBVIOUS
  <2>3. h \in [SUBSET (1..(k + 1)) -> T]
    <3>1. ASSUME NEW s \in SUBSET (1..(k + 1)) PROVE h[s] \in T
      <4>1. CASE k + 1 \in s
        <5>1. g[s \ {k + 1}] \in T
          BY <2>1, <2>2 DEF Folds
        <5>. QED
          BY <4>1, <5>1
      <4>2. CASE k + 1 \notin s
        <5>1. s \in SUBSET (1..k)
          BY <4>2
        <5>. QED
          BY <2>1, <4>2, <5>1 DEF Folds
      <4>. QED
        BY <4>1, <4>2
    <3>. QED
      BY <3>1
  <2>4. ASSUME NEW s \in SUBSET (1..(k + 1)), s # {}
        PROVE  h[s] = F[<<h[s \ {Max(s)}], Max(s)>>]
    <3>1. CASE k + 1 \in s
      <4>1. Max(s) = k + 1
        <5>1. Max(s) \in s /\ \A i \in s : i <= Max(s)
          BY <3>1, MaxOfPlaces
        <5>2. Max(s) \in 1..(k + 1)
          BY <5>1
        <5>3. k + 1 <= Max(s)
          BY <3>1, <5>1
        <5>. HIDE DEF h, U
        <5>. QED
          BY <5>2, <5>3
      <4>2. h[s \ {k + 1}] = g[s \ {k + 1}]
        OBVIOUS
      <4>. QED
        BY <3>1, <4>1, <4>2
    <3>2. CASE k + 1 \notin s
      <4>1. s \in SUBSET (1..k) /\ h[s] = g[s]
        BY <3>2
      <4>2. h[s \ {Max(s)}] = g[s \ {Max(s)}]
        BY <3>2
      <4>. QED
        BY <2>1, <2>4, <4>1, <4>2 DEF Folds
    <3>. QED
      BY <3>1, <3>2
  <2>5. h[{}] = base
    <3>1. {} \in SUBSET (1..(k + 1)) /\ k + 1 \notin {} /\ g[{}] = base
      BY <2>1 DEF Folds
    <3>. QED
      BY <3>1
  <2>. HIDE DEF h
  <2>6. Folds(h, k + 1, base, F, T)
    BY <2>3, <2>4, <2>5 DEF Folds
  <2>. QED
    BY <2>6
<1>3. n \in U
  <2>. HIDE DEF U
  <2>1. \A k \in 0..n : k \in U
    BY <1>1, <1>2, UpTo
  <2>. QED
    BY <2>1
<1>. QED
  BY <1>3

\* What holds of the start and is kept by each step holds of the whole fold.
LEMMA FoldedIn ==
  ASSUME NEW n \in Nat, NEW T, NEW g, g[{}] \in T,
         \A s \in SUBSET (1..n) : s # {} /\ g[s \ {Max(s)}] \in T => g[s] \in T
  PROVE  g[1..n] \in T
<1>. DEFINE U == {k \in 0..n : g[1..k] \in T}
<1>1. 0 \in U
  <2>1. 1..0 = {}
    OBVIOUS
  <2>. QED
    BY <2>1
<1>2. ASSUME NEW k \in 0..(n - 1), k \in U PROVE k + 1 \in U
  <2>1. Max(1..(k + 1)) = k + 1
    <3>1. /\ Max(1..(k + 1)) \in 1..(k + 1)
          /\ \A i \in 1..(k + 1) : i <= Max(1..(k + 1))
      <4>1. k + 1 \in Nat /\ 1..(k + 1) \in SUBSET (1..(k + 1)) /\ k + 1 \in 1..(k + 1)
        OBVIOUS
      <4>. HIDE DEF U
      <4>. QED
        BY <4>1, MaxOfPlaces
    <3>. QED
      BY <3>1
  <2>2. (1..(k + 1)) \ {Max(1..(k + 1))} = 1..k
    BY <2>1
  <2>3. 1..(k + 1) \in SUBSET (1..n) /\ 1..(k + 1) # {}
    OBVIOUS
  <2>4. g[1..k] \in T
    BY <1>2
  <2>5. g[1..(k + 1)] \in T
    BY <2>2, <2>3, <2>4
  <2>. QED
    BY <2>5
<1>3. n \in U
  <2>. HIDE DEF U
  <2>1. \A k \in 0..n : k \in U
    BY <1>1, <1>2, UpTo
  <2>. QED
    BY <2>1
<1>. QED
  BY <1>3

-----------------------------------------------------------------------------
(* The tools of external servers.                                            *)

\* The names on show are those that have a handler, and each shows the
\* definition its handler calls.
Paired(built) ==
  /\ \A t \in ToSet(built.tools) : t.name \in DOMAIN built.handlers
  /\ \A name \in DOMAIN built.handlers :
       {t.of : t \in {t \in ToSet(built.tools) : t.name = name}} = {built.handlers[name]}

\* What may be built from definitions with these names and origins.
Builds(names, origins) ==
  {b \in [tools: Seq([name: names, of: origins]),
          handlers: UNION {[D -> origins] : D \in SUBSET names}] : Paired(b)}

LEMMA ToolAdded ==
  ASSUME NEW names, NEW origins, NEW b \in Builds(names, origins),
         NEW s, NEW def, <<s, def>> \in origins, NEW name \in names
  PROVE  AddTool(b, s, def, name) \in Builds(names, origins)
<1>1. CASE name \in DOMAIN b.handlers
  BY <1>1 DEF AddTool
<1>2. CASE name \notin DOMAIN b.handlers
  <2>. DEFINE tool == [name |-> name, of |-> <<s, def>>]
              tools == Append(b.tools, tool)
              handlers == Over(Entry(name, <<s, def>>), b.handlers)
              new == [tools |-> tools, handlers |-> handlers]
  <2>2. AddTool(b, s, def, name) = new
    BY <1>2 DEF AddTool
  <2>3. /\ b.tools \in Seq([name: names, of: origins])
        /\ b.handlers \in UNION {[D -> origins] : D \in SUBSET names}
        /\ Paired(b)
    BY DEF Builds
  <2>4. tool \in [name: names, of: origins]
    OBVIOUS
  <2>. HIDE DEF tool
  <2>5. tools \in Seq([name: names, of: origins]) /\ ToSet(tools) = ToSet(b.tools) \cup {tool}
    <3>1. /\ tools \in Seq([name: names, of: origins]) /\ Len(tools) = Len(b.tools) + 1
          /\ tools[Len(b.tools) + 1] = tool
          /\ \A i \in 1..Len(b.tools) : tools[i] = b.tools[i]
      BY <2>3, <2>4
    <3>2. /\ DOMAIN tools = 1..(Len(b.tools) + 1) /\ DOMAIN b.tools = 1..Len(b.tools)
          /\ Len(b.tools) \in Nat
      BY <2>3, <3>1
    <3>. HIDE DEF tools
    <3>. QED
      BY <3>1, <3>2 DEF ToSet
  <2>6. /\ DOMAIN handlers = DOMAIN b.handlers \cup {name}
        /\ handlers[name] = <<s, def>>
        /\ \A n \in DOMAIN b.handlers : handlers[n] = b.handlers[n]
    BY <1>2 DEF Over, Entry
  <2>7. handlers \in UNION {[D -> origins] : D \in SUBSET names}
    <3>1. PICK D \in SUBSET names : b.handlers \in [D -> origins]
      BY <2>3
    <3>2. handlers \in [D \cup {name} -> origins]
      BY <3>1 DEF Over, Entry
    <3>. QED
      BY <3>2
  <2>. HIDE DEF tools, handlers
  <2>8. Paired(new)
    <3>1. /\ new.tools = tools /\ new.handlers = handlers
          /\ tool.name = name /\ tool.of = <<s, def>>
      BY DEF tool
    <3>2. \A t \in ToSet(tools) : t.name \in DOMAIN handlers
      BY <2>3, <2>5, <2>6, <3>1 DEF Paired
    <3>3. ASSUME NEW n \in DOMAIN handlers
          PROVE  {t.of : t \in {t \in ToSet(tools) : t.name = n}} = {handlers[n]}
      <4>1. CASE n = name
        <5>1. {t \in ToSet(tools) : t.name = n} = {tool}
          BY <1>2, <2>3, <2>5, <3>1, <4>1 DEF Paired
        <5>. QED
          BY <2>6, <3>1, <4>1, <5>1
      <4>2. CASE n # name
        <5>1. {t \in ToSet(tools) : t.name = n} = {t \in ToSet(b.tools) : t.name = n}
          BY <2>5, <3>1, <4>2
        <5>2. n \in DOMAIN b.handlers /\ handlers[n] = b.handlers[n]
          BY <2>6, <4>2
        <5>. QED
          BY <2>3, <5>1, <5>2 DEF Paired
      <4>. QED
        BY <4>1, <4>2
    <3>. QED
      BY <3>1, <3>2, <3>3 DEF Paired
  <2>. QED
    BY <2>2, <2>5, <2>7, <2>8 DEF Builds
<1>. QED
  BY <1>1, <1>2

\* The definitions of one server, one after the other.
Answered(start, s, defs) ==
  FoldLeft(LAMBDA b, def : AddTool(b, s, def, Namespaced(s, def)), start, defs)

LEMMA ToolsAdded ==
  ASSUME NEW names, NEW origins, NEW start \in Builds(names, origins),
         NEW s, NEW defs, defs \in Seq(ToSet(defs)),
         \A d \in ToSet(defs) : <<s, d>> \in origins /\ Namespaced(s, d) \in names
  PROVE  Answered(start, s, defs) \in Builds(names, origins)
<1>. DEFINE n == Len(defs)
            T == Builds(names, origins)
            F == [p \in T \X (1..n) |-> AddTool(p[1], s, defs[p[2]], Namespaced(s, defs[p[2]]))]
            Iterates(g) ==
              g = [t \in SUBSET DOMAIN defs |->
                     IF t = {} THEN start
                     ELSE AddTool(g[t \ {Max(t)}], s, defs[Max(t)], Namespaced(s, defs[Max(t)]))]
            iter == CHOOSE g : Iterates(g)
<1>1. Answered(start, s, defs) = iter[DOMAIN defs]
  BY DEF Answered, FoldLeft, MapThenFoldSet
<1>2. n \in Nat /\ DOMAIN defs = 1..n
  OBVIOUS
<1>3. \A b \in T, i \in 1..n : AddTool(b, s, defs[i], Namespaced(s, defs[i])) \in T
  <2>1. \A i \in 1..n : defs[i] \in ToSet(defs)
    BY <1>2 DEF ToSet
  <2>. QED
    BY <2>1, ToolAdded
<1>. HIDE DEF n, T
<1>4. \A b \in T, i \in 1..n :
        F[<<b, i>>] = AddTool(b, s, defs[i], Namespaced(s, defs[i])) /\ F[<<b, i>>] \in T
  BY <1>3
<1>5. start \in T
  BY DEF T
<1>. HIDE DEF F
<1>6. PICK g : Folds(g, n, start, F, T)
  BY <1>2, <1>4, <1>5, FoldExists
<1>7. Iterates(g)
  <2>1. ASSUME NEW t \in SUBSET (1..n), t # {}
        PROVE  g[t] = AddTool(g[t \ {Max(t)}], s, defs[Max(t)], Namespaced(s, defs[Max(t)]))
    <3>1. Max(t) \in 1..n
      BY <1>2, <2>1, MaxOfPlaces
    <3>2. g[t \ {Max(t)}] \in T
      BY <1>6 DEF Folds
    <3>. QED
      BY <1>4, <1>6, <2>1, <3>1, <3>2 DEF Folds
  <2>2. g \in [SUBSET (1..n) -> T] /\ g[{}] = start
    BY <1>6 DEF Folds
  <2>. QED
    BY <1>2, <2>1, <2>2
<1>. HIDE DEF Iterates
<1>8. Iterates(iter)
  BY <1>7
<1>9. /\ iter[{}] = start
      /\ \A t \in SUBSET (1..n) : t # {} =>
           iter[t] = AddTool(iter[t \ {Max(t)}], s, defs[Max(t)], Namespaced(s, defs[Max(t)]))
  <2>. HIDE DEF iter
  <2>. QED
    BY <1>2, <1>8 DEF Iterates
<1>. HIDE DEF iter
<1>10. ASSUME NEW t \in SUBSET (1..n), t # {}, iter[t \ {Max(t)}] \in T
       PROVE  iter[t] \in T
  <2>1. Max(t) \in 1..n
    BY <1>2, <1>10, MaxOfPlaces
  <2>. QED
    BY <1>3, <1>9, <1>10, <2>1
<1>11. iter[1..n] \in T
  BY <1>2, <1>5, <1>9, <1>10, FoldedIn
<1>. QED
  BY <1>1, <1>2, <1>11 DEF T

\* dedupeServers makes a list of the servers it is given.
LEMMA ServersListed ==
  ASSUME NEW servers, servers \in Seq(ToSet(servers))
  PROVE  Len(DedupeServers(servers)) \in Nat
           /\ DOMAIN DedupeServers(servers) = 1..Len(DedupeServers(servers))
<1>. DEFINE n == Len(servers)
            X == {s.name : s \in ToSet(servers)}
            T == Seq(X)
            Step(ns, s) == IF s.name \in ToSet(ns) THEN ns ELSE Append(ns, s.name)
            F == [p \in T \X (1..n) |-> Step(p[1], servers[p[2]])]
            Iterates(g) ==
              g = [t \in SUBSET DOMAIN servers |->
                     IF t = {} THEN <<>> ELSE Step(g[t \ {Max(t)}], servers[Max(t)])]
            iter == CHOOSE g : Iterates(g)
            Names == FoldLeft(LAMBDA ns, s : IF s.name \in ToSet(ns) THEN ns ELSE Append(ns, s.name),
                              <<>>, servers)
<1>1. Names = iter[DOMAIN servers]
  BY DEF FoldLeft, MapThenFoldSet
<1>2. n \in Nat /\ DOMAIN servers = 1..n
  OBVIOUS
<1>3. \A b \in T, i \in 1..n : Step(b, servers[i]) \in T
  <2>1. \A i \in 1..n : servers[i].name \in X
    BY <1>2 DEF ToSet
  <2>. HIDE DEF X
  <2>. QED
    BY <2>1
<1>5. <<>> \in T
  OBVIOUS
<1>. HIDE DEF n, T, Step
<1>4. \A b \in T, i \in 1..n :
        F[<<b, i>>] = Step(b, servers[i]) /\ F[<<b, i>>] \in T
  BY <1>3
<1>. HIDE DEF F
<1>6. PICK g : Folds(g, n, <<>>, F, T)
  BY <1>2, <1>4, <1>5, FoldExists
<1>7. Iterates(g)
  <2>1. ASSUME NEW t \in SUBSET (1..n), t # {}
        PROVE  g[t] = Step(g[t \ {Max(t)}], servers[Max(t)])
    <3>1. Max(t) \in 1..n
      BY <1>2, <2>1, MaxOfPlaces
    <3>2. g[t \ {Max(t)}] \in T
      BY <1>6 DEF Folds
    <3>. QED
      BY <1>4, <1>6, <2>1, <3>1, <3>2 DEF Folds
  <2>2. g \in [SUBSET (1..n) -> T] /\ g[{}] = <<>>
    BY <1>6 DEF Folds
  <2>. QED
    BY <1>2, <2>1, <2>2
<1>. HIDE DEF Iterates
<1>8. Iterates(iter)
  BY <1>7
<1>9. /\ iter[{}] = <<>>
      /\ \A t \in SUBSET (1..n) : t # {} => iter[t] = Step(iter[t \ {Max(t)}], servers[Max(t)])
  <2>. HIDE DEF iter
  <2>. QED
    BY <1>2, <1>8 DEF Iterates
<1>. HIDE DEF iter
<1>10. ASSUME NEW t \in SUBSET (1..n), t # {}, iter[t \ {Max(t)}] \in T
       PROVE  iter[t] \in T
  <2>1. Max(t) \in 1..n
    BY <1>2, <1>10, MaxOfPlaces
  <2>. QED
    BY <1>3, <1>9, <1>10, <2>1
<1>11. iter[1..n] \in T
  BY <1>2, <1>5, <1>9, <1>10, FoldedIn
<1>12. Names \in Seq(X)
  <2>. HIDE DEF Names
  <2>. QED
    BY <1>1, <1>2, <1>11 DEF T
<1>13. DedupeServers(servers)
         = [i \in DOMAIN Names |-> Last(SelectSeq(servers, LAMBDA s : s.name = Names[i]))]
  BY DEF DedupeServers
<1>. HIDE DEF Names, X
<1>14. Len(Names) \in Nat /\ DOMAIN Names = 1..Len(Names)
  BY <1>12
<1>15. DOMAIN DedupeServers(servers) = 1..Len(Names)
  BY <1>13, <1>14
<1>. QED
  BY <1>14, <1>15

\* buildSessionToolkit pairs names and handlers, whatever the servers are
\* called and however often they offer a tool.
LEMMA ToolsArePaired ==
  ASSUME NEW servers, servers \in Seq(ToSet(servers)),
         NEW answers, \A s \in ToSet(DedupeServers(servers)) : answers[s] \in Seq(ToSet(answers[s]))
  PROVE  Paired(BuildMcpTools(servers, answers))
<1>. DEFINE list == DedupeServers(servers)
            n == Len(list)
            defs == UNION {ToSet(answers[s]) : s \in ToSet(list)}
            origins == ToSet(list) \X defs
            names == {Namespaced(o[1], o[2]) : o \in origins}
            T == Builds(names, origins)
            F == [p \in T \X (1..n) |-> Answered(p[1], list[p[2]], answers[list[p[2]]])]
            Iterates(g) ==
              g = [t \in SUBSET DOMAIN list |->
                     IF t = {} THEN NoMcpTools
                     ELSE Answered(g[t \ {Max(t)}], list[Max(t)], answers[list[Max(t)]])]
            iter == CHOOSE g : Iterates(g)
<1>1. BuildMcpTools(servers, answers) = iter[DOMAIN list]
  BY DEF BuildMcpTools, Answered, FoldLeft, MapThenFoldSet
<1>2. n \in Nat /\ DOMAIN list = 1..n
  BY ServersListed
<1>. HIDE DEF list, n
<1>3. \A b \in T, i \in 1..n : Answered(b, list[i], answers[list[i]]) \in T
  <2>1. ASSUME NEW b \in T, NEW i \in 1..n PROVE Answered(b, list[i], answers[list[i]]) \in T
    <3>1. list[i] \in ToSet(list)
      BY <1>2 DEF ToSet
    <3>2. answers[list[i]] \in Seq(ToSet(answers[list[i]]))
      BY <3>1 DEF list
    <3>3. \A d \in ToSet(answers[list[i]]) : <<list[i], d>> \in origins
      BY <3>1
    <3>4. \A d \in ToSet(answers[list[i]]) : Namespaced(list[i], d) \in names
      <4>1. \A o \in origins : Namespaced(o[1], o[2]) \in names
        OBVIOUS
      <4>. HIDE DEF origins, names
      <4>. QED
        BY <3>3, <4>1
    <3>. HIDE DEF origins, names
    <3>. QED
      BY <3>2, <3>3, <3>4, ToolsAdded
  <2>. QED
    BY <2>1
<1>5. NoMcpTools \in T
  <2>1. /\ NoMcpTools.tools \in Seq([name: names, of: origins]) /\ ToSet(NoMcpTools.tools) = {}
        /\ DOMAIN NoMcpTools.handlers = {}
    BY DEF NoMcpTools, ToSet
  <2>2. NoMcpTools.handlers \in UNION {[D -> origins] : D \in SUBSET names}
    <3>1. NoMcpTools.handlers \in [{} -> origins] /\ {} \in SUBSET names
      BY DEF NoMcpTools
    <3>. QED
      BY <3>1
  <2>3. Paired(NoMcpTools)
    BY <2>1 DEF Paired
  <2>. HIDE DEF names, origins
  <2>. QED
    BY <2>1, <2>2, <2>3 DEF Builds, NoMcpTools
<1>. HIDE DEF T
<1>4. \A b \in T, i \in 1..n :
        F[<<b, i>>] = Answered(b, list[i], answers[list[i]]) /\ F[<<b, i>>] \in T
  BY <1>3
<1>. HIDE DEF F
<1>6. PICK g : Folds(g, n, NoMcpTools, F, T)
  BY <1>2, <1>4, <1>5, FoldExists
<1>7. Iterates(g)
  <2>1. ASSUME NEW t \in SUBSET (1..n), t # {}
        PROVE  g[t] = Answered(g[t \ {Max(t)}], list[Max(t)], answers[list[Max(t)]])
    <3>1. Max(t) \in 1..n
      BY <1>2, <2>1, MaxOfPlaces
    <3>2. g[t \ {Max(t)}] \in T
      BY <1>6 DEF Folds
    <3>. QED
      BY <1>4, <1>6, <2>1, <3>1, <3>2 DEF Folds
  <2>2. g \in [SUBSET (1..n) -> T] /\ g[{}] = NoMcpTools
    BY <1>6 DEF Folds
  <2>. QED
    BY <1>2, <2>1, <2>2
<1>. HIDE DEF Iterates
<1>8. Iterates(iter)
  BY <1>7
<1>9. /\ iter[{}] = NoMcpTools
      /\ \A t \in SUBSET (1..n) : t # {} =>
           iter[t] = Answered(iter[t \ {Max(t)}], list[Max(t)], answers[list[Max(t)]])
  <2>. HIDE DEF iter
  <2>. QED
    BY <1>2, <1>8 DEF Iterates
<1>. HIDE DEF iter
<1>10. ASSUME NEW t \in SUBSET (1..n), t # {}, iter[t \ {Max(t)}] \in T
       PROVE  iter[t] \in T
  <2>1. Max(t) \in 1..n
    BY <1>2, <1>10, MaxOfPlaces
  <2>. QED
    BY <1>3, <1>9, <1>10, <2>1
<1>11. iter[1..n] \in T
  BY <1>2, <1>5, <1>9, <1>10, FoldedIn
<1>. QED
  BY <1>1, <1>2, <1>11 DEF T, Builds

-----------------------------------------------------------------------------
(* What is advertised is what is called.                                     *)

Wired ==
  /\ stored.servers \in Seq(ToSet(stored.servers))
  /\ \A r \in Requests :
       Paired(req[r].mcp) /\ req[r].cfg.servers \in Seq(ToSet(req[r].cfg.servers))
  /\ AdvertisedIsCalled

LEMMA NoToolsPaired == Paired(NoMcpTools)
<1>1. ToSet(NoMcpTools.tools) = {} /\ DOMAIN NoMcpTools.handlers = {}
  BY DEF NoMcpTools, ToSet
<1>. QED
  BY <1>1 DEF Paired

\* Only the configuration, the toolkit and the end of a request touch what it
\* may call.
LEMMA ToolsStay ==
  ASSUME Wired, Shaped, NEW r \in Requests, NEW fields, Turns(r, fields),
         "mcp" \notin fields, "cfg" \notin fields, stored' = stored, effects' = effects
  PROVE  Wired'
<1>1. req'[r].mcp = req[r].mcp /\ req'[r].cfg = req[r].cfg
  BY DEF Turns, Fields
<1>2. \A k \in Requests : req'[k].mcp = req[k].mcp /\ req'[k].cfg = req[k].cfg
  BY <1>1 DEF Turns
<1>. QED
  BY <1>2 DEF Wired, AdvertisedIsCalled

LEMMA ReturnWired ==
  ASSUME Wired, Shaped, NEW r \in Requests, Return(r), stored' = stored, effects' = effects
  PROVE  Wired'
<1>1. Turns(r, Fields \ {"kind", "cfg", "prior"}) /\ req'[r].cfg = req[r].cfg
  BY ReturnDoes
<1>2. req'[r].mcp = NoMcpTools
  <2>. DEFINE idle == Idle(req[r].kind)
              cfg == req[r].cfg
              prior == req[r].prior
              new == [idle EXCEPT !.pc = "ended", !.cfg = cfg, !.prior = prior]
  <2>1. req' = [req EXCEPT ![r] = new]
    BY DEF Return, Shaped
  <2>2. DOMAIN idle = Fields /\ idle.mcp = NoMcpTools
    BY DEF Idle, Fields
  <2>. HIDE DEF idle, cfg, prior
  <2>3. new.mcp = NoMcpTools
    BY <2>2 DEF Fields
  <2>. HIDE DEF new
  <2>. QED
    BY <2>1, <2>3 DEF Shaped
<1>. QED
  BY <1>1, <1>2, NoToolsPaired DEF Turns, Wired, AdvertisedIsCalled

LEMMA ReadConfigWired ==
  ASSUME Wired, Shaped, NEW r \in Requests, ReadConfig(r)
  PROVE  Wired'
<1>1. Turns(r, {"pc", "cfg"}) /\ req'[r].cfg = ResolveConfig(stored)
  BY EarlyDoes
<1>2. req'[r].cfg.servers = stored.servers /\ req'[r].mcp = req[r].mcp
  BY <1>1 DEF ResolveConfig, Turns, Fields
<1>3. stored' = stored /\ effects' = effects
  BY DEF ReadConfig
<1>. QED
  BY <1>1, <1>2, <1>3 DEF Turns, Wired, AdvertisedIsCalled

LEMMA BuildToolkitWired ==
  ASSUME Wired, Shaped, NEW r \in Requests, BuildToolkit(r)
  PROVE  Wired'
<1>1. Turns(r, {"pc", "mcp"})
  BY EarlyDoes
<1>2. stored' = stored /\ effects' = effects
  BY DEF BuildToolkit
<1>3. PICK answers \in [ToSet(DedupeServers(req[r].cfg.servers)) -> Offers] :
        req' = [req EXCEPT ![r] = [req[r] EXCEPT !.pc = "built",
                                     !.mcp = BuildMcpTools(req[r].cfg.servers, answers)]]
  BY DEF BuildToolkit
<1>. DEFINE mcp == BuildMcpTools(req[r].cfg.servers, answers)
<1>4. Paired(mcp)
  <2>1. \A s \in ToSet(DedupeServers(req[r].cfg.servers)) : answers[s] \in Seq(ToSet(answers[s]))
    BY FacadeAssumption
  <2>. QED
    BY <2>1, ToolsArePaired DEF Wired
<1>5. req' = [req EXCEPT ![r] = [req[r] EXCEPT !.pc = "built", !.mcp = mcp]]
  BY <1>3
<1>. HIDE DEF mcp
<1>6. req'[r].mcp = mcp /\ req'[r].cfg = req[r].cfg
  BY <1>5 DEF Shaped, Fields
<1>. QED
  BY <1>1, <1>2, <1>4, <1>6 DEF Turns, Wired, AdvertisedIsCalled

\* No local tool reaches a server.
LEMMA LocalStays ==
  ASSUME NEW rules, NEW tool, NEW answer \in LocalHandler(rules, tool)
  PROVE  answer.effect # "server"
<1>1. ExecHandler(rules, tool) \subseteq {Refused} \cup Either("workspace")
  BY DEF ExecHandler
<1>2. LookupHandler(rules, tool) \subseteq {Refused} \cup Either("none")
  BY DEF LookupHandler
<1>3. TodoWriteHandler(rules) \subseteq {Refused, Answer("ok", "todos")}
  BY DEF TodoWriteHandler
<1>4. MemoryHandler(rules, tool) \subseteq {Refused, Answer("ok", "memory")}
  BY DEF MemoryHandler
<1>5. \A a \in {Refused, Answer("ok", "todos"), Answer("ok", "job"), Answer("ok", "memory")}
              \cup Either("workspace") \cup Either("none") : a.effect # "server"
  BY DEF Refused, Answer, Either
<1>6. LocalHandler(rules, tool)
        \subseteq ExecHandler(rules, tool) \cup SizedExecHandler(rules, tool)
          \cup LookupHandler(rules, tool) \cup TodoWriteHandler(rules)
          \cup MemoryHandler(rules, tool) \cup JobHandler \cup AnswerHandler
  BY DEF LocalHandler
<1>. QED
  BY <1>1, <1>2, <1>3, <1>4, <1>5, <1>6 DEF SizedExecHandler, JobHandler, AnswerHandler

LEMMA CallToolWired ==
  ASSUME Wired, Shaped, NEW r \in Requests, NEW tool, CallTool(r, tool)
  PROVE  Wired'
<1>1. Turns(r, {"calls"})
  BY HopDoes
<1>2. stored' = stored
  BY DEF CallTool
<1>3. PICK answer \in Outcomes(r, tool) :
        effects' = effects \cup (IF answer.effect = "none" THEN {} ELSE {Effect(r, tool, answer)})
  BY DEF CallTool
<1>4. /\ Effect(r, tool, answer).effect = answer.effect
      /\ Effect(r, tool, answer).advertised = Advertised(r, tool)
      /\ tool \in DOMAIN req[r].mcp.handlers =>
           Effect(r, tool, answer).at = {req[r].mcp.handlers[tool]}
  BY DEF Effect
<1>5. ASSUME answer.effect = "server"
      PROVE  Effect(r, tool, answer).at = Effect(r, tool, answer).advertised
  <2>1. tool \in DOMAIN req[r].mcp.handlers
    BY <1>5, LocalStays DEF Outcomes
  <2>2. Advertised(r, tool) = {req[r].mcp.handlers[tool]}
    BY <2>1 DEF Wired, Paired, Advertised
  <2>. QED
    BY <1>4, <2>1, <2>2
<1>6. AdvertisedIsCalled'
  <2>1. \A e \in effects' : e \in effects \/ e = Effect(r, tool, answer)
    BY <1>3
  <2>. SUFFICES ASSUME NEW e \in effects', e.effect = "server" PROVE e.at = e.advertised
    BY DEF AdvertisedIsCalled
  <2>2. CASE e \in effects
    BY <2>2 DEF Wired, AdvertisedIsCalled
  <2>3. CASE e = Effect(r, tool, answer)
    BY <1>4, <1>5, <2>3
  <2>. QED
    BY <2>1, <2>2, <2>3
<1>7. \A k \in Requests : req'[k].mcp = req[k].mcp /\ req'[k].cfg = req[k].cfg
  BY <1>1 DEF Turns, Fields
<1>. QED
  BY <1>2, <1>6, <1>7 DEF Wired

LEMMA WiredSteps == FacadeInv /\ Wired /\ [Next]_vars => Wired'
<1>. SUFFICES ASSUME FacadeInv, Wired, [Next]_vars PROVE Wired'
  OBVIOUS
<1>0. Shaped
  BY DEF FacadeInv
<1>1. ASSUME NEW r \in Requests, ReadConfig(r) \/ BuildToolkit(r)
      PROVE  Wired'
  BY <1>0, <1>1, ReadConfigWired, BuildToolkitWired
<1>2. ASSUME NEW r \in Requests, ReadSpend(r)
      PROVE  Wired'
  <2>1. stored' = stored /\ effects' = effects
    BY <1>2 DEF ReadSpend
  <2>2. Return(r) \/ Turns(r, {"pc", "prior", "running"})
    BY <1>0, <1>2, ReadSpendDoes
  <2>. QED
    BY <1>0, <2>1, <2>2, ReturnWired, ToolsStay
<1>3. ASSUME NEW r \in Requests, Refuse(r) \/ Respond(r) \/ RespondError(r) \/ StreamDone(r) \/ Leave(r)
      PROVE  Wired'
  <2>1. stored' = stored /\ effects' = effects /\ Return(r)
    BY <1>3 DEF Refuse, Respond, RespondError, StreamDone, Leave
  <2>. QED
    BY <1>0, <2>1, ReturnWired
<1>4. ASSUME NEW r \in Requests, OpenTurn(r) \/ StartHop(r) \/ StopLoop(r) \/ HopEnds(r) \/ JournalBatch(r) \/ Fail(r)
      PROVE  Wired'
  <2>1. stored' = stored /\ effects' = effects
    BY <1>4 DEF OpenTurn, StartHop, StopLoop, HopEnds, JournalBatch, Fail
  <2>2. \E fields : Turns(r, fields) /\ "mcp" \notin fields /\ "cfg" \notin fields
    <3>1. \/ Turns(r, {"pc"}) \/ Turns(r, {"pc", "text", "cost", "finish"})
          \/ Turns(r, {"pc", "finish", "cost"}) \/ Turns(r, {"pc", "hop", "running"})
      BY <1>0, <1>4, EarlyDoes, HopDoes
    <3>. QED
      BY <3>1
  <2>. QED
    BY <1>0, <2>1, <2>2, ToolsStay
<1>5. ASSUME NEW r \in Requests, TextDelta(r) \/ OfferStop(r) \/ ReadChunk(r)
      PROVE  Wired'
  <2>1. stored' = stored /\ effects' = effects
    BY <1>5 DEF TextDelta, OfferStop, ReadChunk
  <2>2. Turns(r, {"text", "queue"}) \/ Turns(r, {"pc", "queue"}) \/ Turns(r, {"queue"})
    BY <1>0, <1>5, QueueDoes
  <2>. QED
    BY <1>0, <2>1, <2>2, ToolsStay
<1>6. ASSUME NEW r \in Requests, NEW tool, CallTool(r, tool)
      PROVE  Wired'
  BY <1>0, <1>6, CallToolWired
<1>7. ASSUME NEW r \in Requests, NEW tool, AskApproval(r, tool)
      PROVE  Wired'
  <2>1. stored' = stored /\ effects' = effects
    BY <1>7 DEF AskApproval
  <2>2. Turns(r, {"pc", "calls", "finish", "cost"})
    BY <1>0, <1>7, HopDoes
  <2>. QED
    BY <1>0, <2>1, <2>2, ToolsStay
<1>8. ASSUME stored'.servers = stored.servers, UNCHANGED <<req, effects>>
      PROVE  Wired'
  BY <1>8 DEF Wired, AdvertisedIsCalled
<1>9. ASSUME NEW flip \in Flips, SetToolRule(flip[1], flip[2]) PROVE Wired'
  <2>1. stored'.servers = stored.servers /\ UNCHANGED <<req, effects>>
    BY <1>9 DEF SetToolRule, MergeToolRule, FacadeInv, TypeOK
  <2>. QED
    BY <1>8, <2>1
<1>10. ASSUME NEW cap \in Caps, SetBudget(cap) PROVE Wired'
  <2>1. stored'.servers = stored.servers /\ UNCHANGED <<req, effects>>
    BY <1>10 DEF SetBudget, MergeBudget, FacadeInv, TypeOK
  <2>. QED
    BY <1>8, <2>1
<1>11. CASE UNCHANGED vars
  BY <1>8, <1>11 DEF vars
<1>. QED
  BY <1>1, <1>2, <1>3, <1>4, <1>5, <1>6, <1>7, <1>9, <1>10, <1>11 DEF Next

LEMMA WiredFirst == Init => Wired
<1>. SUFFICES ASSUME Init PROVE Wired
  OBVIOUS
<1>1. PICK s \in Starts : stored = s.stored /\ req = [r \in Requests |-> Idle(s.kinds[r])]
  BY DEF Init
<1>2. stored.servers \in Seq(ToSet(stored.servers))
  BY <1>1, FacadeAssumption
<1>3. ASSUME NEW r \in Requests
      PROVE  req[r].mcp = NoMcpTools /\ req[r].cfg.servers = <<>>
  <2>1. req[r] = Idle(s.kinds[r])
    BY <1>1
  <2>2. req[r].mcp = NoMcpTools
           /\ req[r].cfg = ResolveConfig([rules |-> <<>>, cap |-> 0, servers |-> <<>>])
    BY <2>1 DEF Idle
  <2>. QED
    BY <2>2 DEF ResolveConfig
<1>4. <<>> \in Seq(ToSet(<<>>))
  OBVIOUS
<1>. QED
  BY <1>2, <1>3, <1>4, NoToolsPaired DEF Wired, AdvertisedIsCalled, Init

\* However the servers are named and whatever they offer, the handler of an
\* external tool is of the definition shown under its name: of two with one
\* name the second is left out of both (mcpToolName, buildSessionToolkit).
THEOREM AdvertisedToolsAreCalled == Spec => []AdvertisedIsCalled
<1>1. Wired => AdvertisedIsCalled
  BY DEF Wired
<1>. QED
  BY <1>1, WiredFirst, WiredSteps, FacadeHolds, PTL DEF Spec

-----------------------------------------------------------------------------
(* The client of a tool server (Mcp.ts): its lines.                          *)

LEMMA Characters ==
  /\ nl # cr /\ nl # data /\ nl # other /\ cr # data /\ cr # other /\ data # other
  /\ \A m, k, n : Piece(m, k, n) \notin {nl, cr, data, other}
BY DEF nl, cr, data, other, Piece

LEMMA Pieces4 ==
  \A m, k, n : LET p == Piece(m, k, n) IN
    p[1] = "piece" /\ p[2] = m /\ p[3] = k /\ p[4] = n
BY DEF Piece

LEMMA BehindIs ==
  ASSUME NEW n \in Nat, NEW places \in SUBSET (1..n), NEW i \in Nat, NEW j \in Nat,
         j < i, j = 0 \/ j \in places, \A k \in places : k < i => k <= j
  PROVE  Behind(places, i) = j
<1>. DEFINE S == {0} \cup {k \in places : k < i}
<1>1. j \in S /\ \A k \in S : j >= k
  OBVIOUS
<1>2. \A x \in S : (\A k \in S : x >= k) => x = j
  BY <1>1
<1>. HIDE DEF S
<1>3. Max(S) = j
  BY <1>1, <1>2 DEF Max
<1>. QED
  BY <1>3 DEF Behind, S

LEMMA BehindIn ==
  ASSUME NEW n \in Nat, NEW places \in SUBSET (1..n), NEW i \in Nat \ {0}
  PROVE  /\ Behind(places, i) \in Nat /\ Behind(places, i) < i
         /\ Behind(places, i) = 0 \/ Behind(places, i) \in places
         /\ \A k \in places : k < i => k <= Behind(places, i)
<1>. DEFINE S == {k \in places : k < i}
<1>1. CASE S = {}
  <2>1. i \in Nat /\ 0 \in Nat /\ 0 < i /\ \A k \in places : k < i => k <= 0
    BY <1>1
  <2>2. Behind(places, i) = 0
    BY <2>1, BehindIs
  <2>. QED
    BY <2>1, <2>2
<1>2. CASE S # {}
  <2>1. Max(S) \in S /\ \A k \in S : k <= Max(S)
    BY <1>2, S \in SUBSET (1..n), MaxOfPlaces
  <2>2. PICK m : m = Max(S)
    OBVIOUS
  <2>3. m \in S /\ \A k \in S : k <= m
    BY <2>1, <2>2
  <2>4. m \in places /\ m < i /\ \A k \in places : k < i => k <= m
    BY <2>3
  <2>5. i \in Nat /\ m \in Nat
    BY <2>4
  <2>6. Behind(places, i) = m
    BY <2>4, <2>5, BehindIs
  <2>. QED
    BY <2>4, <2>5, <2>6
<1>. QED
  BY <1>1, <1>2

LEMMA MinIsLeast ==
  ASSUME NEW S \in SUBSET Nat, S # {}
  PROVE  Min(S) \in S /\ \A k \in S : Min(S) <= k
<1>. DEFINE R == OpToRel(<, Nat)
<1>1. IsWellFoundedOn(R, Nat)
  BY NatLessThanWellFounded
<1>2. \A x, y \in Nat : y < x => <<y, x>> \in R
  BY DEF OpToRel
<1>. HIDE DEF R
<1>3. PICK m \in S : \A y \in S : ~(<<y, m>> \in R)
  BY <1>1, WFMin
<1>4. ASSUME NEW y \in S PROVE m <= y
  <2>1. y \in Nat /\ m \in Nat
    OBVIOUS
  <2>2. ~(y < m)
    BY <1>2, <1>3, <2>1
  <2>. QED
    BY <2>1, <2>2
<1>. QED
  BY <1>3, <1>4 DEF Min

\* A line without its carriage return is made of characters of the text.
LEMMA LinesAreOf ==
  ASSUME NEW S, NEW text \in Seq(S), NEW i \in DOMAIN text
  PROVE  LineAt(text, i) \in Seq(S)
<1>. DEFINE j == Behind(Newlines(text), i)
            line == SubSeq(text, j + 1, i - 1)
<1>1. j \in Nat /\ i \in Nat /\ i <= Len(text)
  <2>1. Newlines(text) \in SUBSET (1..Len(text)) /\ Len(text) \in Nat /\ i \in 1..Len(text)
    BY LenProperties DEF Newlines
  <2>2. i \in Nat \ {0} /\ i <= Len(text)
    BY <2>1
  <2>3. j \in Nat
    BY <2>1, <2>2, BehindIn
  <2>. QED
    BY <2>1, <2>2, <2>3
<1>2. line \in Seq(S)
  <2>1. \A k \in (j + 1)..(i - 1) : text[k] \in S
    BY <1>1, ElementOfSeq
  <2>. QED
    BY <1>1, <2>1, SubSeqProperties
<1>. HIDE DEF line
<1>3. ASSUME line # <<>> PROVE SubSeq(line, 1, Len(line) - 1) \in Seq(S)
  <2>1. \A k \in 1..(Len(line) - 1) : line[k] \in S
    BY <1>2, ElementOfSeq
  <2>. QED
    BY <1>2, <2>1, SubSeqProperties
<1>4. StripCr(line) \in Seq(S)
  BY <1>2, <1>3 DEF StripCr
<1>. QED
  BY <1>4 DEF LineAt, line

\* The characters of lines that hold messages of ms.
Chars(ms) == {nl, cr, data, other} \cup {Piece(m, k, n) : m \in ms, k \in Nat, n \in Nat}

\* What a payload parses to is a message whose pieces are in the text.
LEMMA ParsedIsHeld ==
  ASSUME NEW ms, NEW text \in Seq(Chars(ms)), NEW places \in SUBSET (DOMAIN text),
         TryParse(FramePayload(text, places)) # <<>>
  PROVE  TryParse(FramePayload(text, places)) \in ms
<1>. DEFINE P == FramePayload(text, places)
            values == {P[i] : i \in DOMAIN P}
            pieces == {v[1] : v \in {v \in values : Len(v) = 1 /\ v[1][1] = "piece"}}
            whole == {p \in pieces : Whole(P, p[2], p[4])}
<1>1. ASSUME NEW v \in values PROVE v \in Seq(Chars(ms))
  <2>1. PICK i \in DOMAIN P : v = P[i]
    OBVIOUS
  <2>2. i \in places /\ LineAt(text, i) # <<>> /\ v = Tail(LineAt(text, i))
    BY <2>1 DEF FramePayload, DataLineValue
  <2>3. LineAt(text, i) \in Seq(Chars(ms))
    BY <2>2, LinesAreOf
  <2>. QED
    BY <2>2, <2>3, HeadTailProperties
<1>2. ASSUME NEW p \in pieces PROVE p[2] \in ms
  <2>1. PICK v \in values : p = v[1] /\ Len(v) = 1 /\ p[1] = "piece"
    OBVIOUS
  <2>2. p \in Chars(ms)
    <3>1. v \in Seq(Chars(ms)) /\ 1 \in 1..Len(v)
      BY <1>1, <2>1
    <3>. QED
      BY <2>1, <3>1, ElementOfSeq
  <2>3. nl[1] # "piece" /\ cr[1] # "piece" /\ data[1] # "piece" /\ other[1] # "piece"
    BY DEF nl, cr, data, other
  <2>4. \E m \in ms, k \in Nat, n \in Nat : p = Piece(m, k, n)
    BY <2>1, <2>2, <2>3 DEF Chars
  <2>. QED
    BY <2>4, Pieces4
<1>3. TryParse(P) = IF whole = {} THEN <<>> ELSE (CHOOSE p \in whole : TRUE)[2]
  BY DEF TryParse
<1>4. whole # {} /\ TryParse(P) = (CHOOSE p \in whole : TRUE)[2]
  BY <1>3
<1>5. (CHOOSE p \in whole : TRUE) \in pieces
  BY <1>4
<1>. QED
  BY <1>2, <1>4, <1>5

\* The message of a match is one of the text, and has the id.
LEMMA MatchedIsHeld ==
  ASSUME NEW ms, NEW text \in Seq(Chars(ms)), NEW frames, NEW id,
         DOMAIN frames \in SUBSET Nat,
         \A b \in DOMAIN frames :
           \E places \in SUBSET (DOMAIN text) : frames[b] = FramePayload(text, places),
         MatchFrameById(frames, id) # <<>>
  PROVE  MatchFrameById(frames, id) \in ms /\ MatchFrameById(frames, id)[1] = id
<1>. DEFINE hits == {b \in DOMAIN frames : TryParse(frames[b]) # <<>> /\ TryParse(frames[b])[1] = id}
<1>1. hits # {} /\ MatchFrameById(frames, id) = TryParse(frames[Min(hits)])
  BY DEF MatchFrameById
<1>2. Min(hits) \in hits
  BY <1>1, hits \in SUBSET Nat, MinIsLeast
<1>3. PICK b \in hits : MatchFrameById(frames, id) = TryParse(frames[b])
  BY <1>1, <1>2
<1>4. PICK places \in SUBSET (DOMAIN text) : frames[b] = FramePayload(text, places)
  BY <1>3
<1>. QED
  BY <1>3, <1>4, ParsedIsHeld

LEMMA FramesAreOf ==
  ASSUME NEW ms, NEW text \in Seq(Chars(ms))
  PROVE  /\ DOMAIN Frames(text) \in SUBSET Nat
         /\ \A b \in DOMAIN Frames(text) :
              \E places \in SUBSET (DOMAIN text) : Frames(text)[b] = FramePayload(text, places)
<1>1. DOMAIN text \subseteq Nat
  BY LenProperties
<1>2. Newlines(text) \subseteq DOMAIN text
  BY DEF Newlines
<1>3. DOMAIN Frames(text) \subseteq Newlines(text)
  BY DEF Frames, Blanks
<1>4. ASSUME NEW b \in DOMAIN Frames(text)
      PROVE  \E places \in SUBSET (DOMAIN text) : Frames(text)[b] = FramePayload(text, places)
  <2>. DEFINE L == {i \in Newlines(text) : Behind(Blanks(text), b) < i /\ i < b}
  <2>1. Frames(text)[b] = FramePayload(text, L)
    BY DEF Frames
  <2>2. L \in SUBSET (DOMAIN text)
    BY <1>2
  <2>. QED
    BY <2>1, <2>2
<1>. QED
  BY <1>1, <1>2, <1>3, <1>4

-----------------------------------------------------------------------------
(* The client of a tool server: what the server streams.                     *)

EOLs == {<<nl>>, <<cr, nl>>}

Event(ms) ==
  {e \in [of : ms \cup {<<>>}, start : {data, other}, n : Nat \ {0}] :
     e.of # <<>> => e.start = data}

\* A line is two characters and one line end.
LEMMA Widths ==
  ASSUME NEW ms, NEW e \in Event(ms), NEW eol \in EOLs
  PROVE  /\ e.n \in Nat \ {0}
         /\ \/ Len(eol) = 1 /\ eol[1] = nl /\ Width(eol) = 3 /\ EventLength(e, eol) = e.n * 3 + 1
            \/ Len(eol) = 2 /\ eol[1] = cr /\ eol[2] = nl /\ Width(eol) = 4
               /\ EventLength(e, eol) = e.n * 4 + 2
<1>1. e.n \in Nat \ {0}
  BY DEF Event
<1>2. CASE eol = <<nl>>
  <2>1. Len(eol) = 1 /\ eol[1] = nl
    BY <1>2
  <2>2. Width(eol) = 3
    BY <2>1 DEF Width
  <2>. QED
    BY <1>1, <2>1, <2>2 DEF EventLength
<1>3. CASE eol = <<cr, nl>>
  <2>1. Len(eol) = 2 /\ eol[1] = cr /\ eol[2] = nl
    BY <1>3
  <2>2. Width(eol) = 4
    BY <2>1 DEF Width
  <2>. QED
    BY <1>1, <2>1, <2>2 DEF EventLength
<1>. QED
  BY <1>2, <1>3 DEF EOLs

\* The places where events end: each behind the event before it.
LEMMA BoundsAre ==
  ASSUME NEW ms, NEW events \in Seq(Event(ms)), NEW eol \in EOLs
  PROVE  /\ Bounds(events, eol) \in [0..Len(events) -> Nat]
         /\ Bounds(events, eol)[0] = 0
         /\ \A k \in 1..Len(events) :
              /\ Bounds(events, eol)[k] = Bounds(events, eol)[k - 1] + EventLength(events[k], eol)
              /\ Bounds(events, eol)[k - 1] < Bounds(events, eol)[k]
<1>. DEFINE n == Len(events)
            L(k) == EventLength(events[k], eol)
            Is(f, u) == /\ f \in [0..u -> Nat] /\ f[0] = 0
                        /\ \A k \in 1..u : f[k] = f[k - 1] + L(k)
            U == {u \in 0..n : \E f : Is(f, u)}
<1>1. n \in Nat
  BY LenProperties
<1>2. ASSUME NEW k \in 1..n PROVE L(k) \in Nat /\ L(k) > 0
  <2>1. events[k] \in Event(ms)
    BY ElementOfSeq
  <2>2. events[k].n \in Nat \ {0}
    BY <2>1, Widths
  <2>. QED
    BY <2>1, <2>2, Widths, SMTT(30)
<1>. HIDE DEF L
<1>3. 0 \in U
  <2>1. Is([k \in 0..0 |-> 0], 0)
    OBVIOUS
  <2>2. 0 \in 0..n
    BY <1>1
  <2>. HIDE DEF Is
  <2>. QED
    BY <2>1, <2>2
<1>4. ASSUME NEW u \in 0..(n - 1), u \in U PROVE u + 1 \in U
  <2>1. PICK f : Is(f, u)
    BY <1>4
  <2>. DEFINE g == [k \in 0..(u + 1) |-> IF k = u + 1 THEN f[u] + L(u + 1) ELSE f[k]]
  <2>2. L(u + 1) \in Nat /\ f[u] \in Nat /\ u \in Nat
    BY <1>1, <1>2, <2>1
  <2>3. g \in [0..(u + 1) -> Nat] /\ g[0] = 0
    BY <2>1, <2>2
  <2>4. ASSUME NEW k \in 1..(u + 1) PROVE g[k] = g[k - 1] + L(k)
    <3>1. CASE k = u + 1
      BY <2>2, <3>1
    <3>2. CASE k # u + 1
      <4>1. k \in 1..u /\ k - 1 \in 0..u
        BY <2>2, <3>2
      <4>. QED
        BY <2>1, <2>2, <4>1
    <3>. QED
      BY <3>1, <3>2
  <2>. HIDE DEF g
  <2>5. Is(g, u + 1) /\ u + 1 \in 0..n
    BY <1>1, <2>3, <2>4
  <2>. HIDE DEF Is
  <2>. QED
    BY <2>5
<1>5. n \in U
  <2>. HIDE DEF U
  <2>1. \A k \in 0..(n - 1) : k \in U => k + 1 \in U
    BY <1>4
  <2>. HIDE DEF Is
  <2>2. \A k \in 0..n : k \in U
    BY <1>1, <1>3, <2>1, UpTo
  <2>. QED
    BY <1>1, <2>2
<1>6. PICK f : Is(f, n)
  BY <1>5
<1>7. f = [k \in 0..n |-> IF k = 0 THEN 0 ELSE f[k - 1] + L(k)]
  BY <1>1, <1>6
<1>8. Bounds(events, eol) = CHOOSE h : h = [k \in 0..n |-> IF k = 0 THEN 0 ELSE h[k - 1] + L(k)]
  BY DEF Bounds, L
<1>9. PICK h : h = Bounds(events, eol)
  OBVIOUS
<1>10. h = [k \in 0..n |-> IF k = 0 THEN 0 ELSE h[k - 1] + L(k)]
  BY <1>7, <1>8, <1>9
<1>11. h[0] = 0 /\ DOMAIN h = 0..n /\ \A k \in 1..n : h[k] = h[k - 1] + L(k)
  BY <1>1, <1>10
<1>12. \A k \in 0..n : h[k] \in Nat
  <2>. DEFINE T == {k \in 0..n : h[k] \in Nat}
  <2>1. 0 \in T /\ \A k \in 0..(n - 1) : k \in T => k + 1 \in T
    BY <1>1, <1>2, <1>11
  <2>. HIDE DEF T
  <2>2. \A k \in 0..n : k \in T
    BY <1>1, <2>1, UpTo
  <2>. QED
    BY <2>2 DEF T
<1>13. h \in [0..n -> Nat]
  BY <1>10, <1>11, <1>12
<1>. QED
  BY <1>1, <1>2, <1>9, <1>11, <1>12, <1>13 DEF L

LEMMA BoundsGrow ==
  ASSUME NEW ms, NEW events \in Seq(Event(ms)), NEW eol \in EOLs,
         NEW j \in 0..Len(events), NEW k \in 0..Len(events), j <= k
  PROVE  /\ Bounds(events, eol)[j] \in Nat /\ Bounds(events, eol)[k] \in Nat
         /\ Bounds(events, eol)[j] <= Bounds(events, eol)[k]
<1>. DEFINE n == Len(events)
            T == {u \in 0..n : u >= j => Bounds(events, eol)[j] <= Bounds(events, eol)[u]}
<1>1. n \in Nat
  BY LenProperties
<1>2. \A i \in 0..n : Bounds(events, eol)[i] \in Nat
  BY BoundsAre
<1>3. 0 \in T
  BY <1>1, <1>2
<1>4. ASSUME NEW u \in 0..(n - 1), u \in T PROVE u + 1 \in T
  <2>1. Bounds(events, eol)[u] < Bounds(events, eol)[u + 1]
    <3>1. u + 1 \in 1..n /\ (u + 1) - 1 = u
      BY <1>1
    <3>. QED
      BY <3>1, BoundsAre
  <2>. QED
    BY <1>1, <1>2, <1>4, <2>1
<1>. HIDE DEF T
<1>5. \A u \in 0..n : u \in T
  BY <1>1, <1>3, <1>4, UpTo
<1>. QED
  BY <1>1, <1>2, <1>5 DEF T

\* What is before the l-th line of an event, whose last line is the blank one.
Start(eol, l) == (l - 1) * Width(eol)

LEMMA EOLsAre ==
  ASSUME NEW eol \in EOLs
  PROVE  \/ Len(eol) = 1 /\ eol[1] = nl /\ Width(eol) = 3
         \/ Len(eol) = 2 /\ eol[1] = cr /\ eol[2] = nl /\ Width(eol) = 4
<1>1. CASE eol = <<nl>>
  <2>1. Len(eol) = 1 /\ eol[1] = nl
    BY <1>1
  <2>. QED
    BY <2>1 DEF Width
<1>2. CASE eol = <<cr, nl>>
  <2>1. Len(eol) = 2 /\ eol[1] = cr /\ eol[2] = nl
    BY <1>2
  <2>. QED
    BY <2>1 DEF Width
<1>. QED
  BY <1>1, <1>2 DEF EOLs

LEMMA EOLEnds ==
  ASSUME NEW eol \in EOLs
  PROVE  Len(eol) \in Nat \ {0} /\ Width(eol) = Len(eol) + 2 /\ eol[Len(eol)] = nl
<1>1. CASE Len(eol) = 1 /\ eol[1] = nl
  BY <1>1 DEF Width
<1>2. CASE Len(eol) = 2 /\ eol[2] = nl
  BY <1>2 DEF Width
<1>. QED
  BY <1>1, <1>2, EOLsAre

LEMMA StartsAre ==
  ASSUME NEW eol \in EOLs, NEW l \in Nat \ {0}
  PROVE  /\ Start(eol, l) \in Nat
         /\ l = 1 => Start(eol, l) = 0
         /\ Start(eol, l + 1) = Start(eol, l) + Width(eol)
         /\ \A m \in Nat \ {0} : l < m => Start(eol, l) + Width(eol) <= Start(eol, m)
<1>1. CASE Width(eol) = 3
  BY <1>1 DEF Start
<1>2. CASE Width(eol) = 4
  BY <1>2 DEF Start
<1>. QED
  BY <1>1, <1>2, EOLsAre

LEMMA LengthIs ==
  ASSUME NEW ms, NEW e \in Event(ms), NEW eol \in EOLs
  PROVE  /\ e.n \in Nat \ {0}
         /\ EventLength(e, eol) = Start(eol, e.n + 1) + Len(eol)
         /\ EventLength(e, eol) \in Nat
<1>1. e.n \in Nat \ {0}
  BY DEF Event
<1>2. CASE Len(eol) = 1 /\ Width(eol) = 3 /\ EventLength(e, eol) = e.n * 3 + 1
  BY <1>1, <1>2 DEF Start
<1>3. CASE Len(eol) = 2 /\ Width(eol) = 4 /\ EventLength(e, eol) = e.n * 4 + 2
  BY <1>1, <1>3 DEF Start
<1>. QED
  BY <1>2, <1>3, Widths

\* Every place in the text of an event is one in one of its lines.
LEMMA PlacesAre ==
  ASSUME NEW ms, NEW e \in Event(ms), NEW eol \in EOLs, NEW q \in 1..EventLength(e, eol)
  PROVE  \E l \in 1..(e.n + 1), i \in 1..Width(eol) :
           q = Start(eol, l) + i /\ (l = e.n + 1 => i <= Len(eol))
<1>. DEFINE W == Width(eol)
            l == 1 + ((q - 1) \div W)
            i == 1 + ((q - 1) % W)
<1>1. e.n \in Nat \ {0}
  BY Widths
<1>2. CASE W = 3
  <2>1. Len(eol) = 1 /\ EventLength(e, eol) = e.n * 3 + 1
    BY <1>2, Widths
  <2>2. l \in 1..(e.n + 1) /\ i \in 1..3 /\ q = (l - 1) * 3 + i /\ (l = e.n + 1 => i <= 1)
    BY <1>1, <1>2, <2>1
  <2>. HIDE DEF l, i
  <2>. QED
    BY <1>2, <2>1, <2>2 DEF Start
<1>3. CASE W = 4
  <2>1. Len(eol) = 2 /\ EventLength(e, eol) = e.n * 4 + 2
    BY <1>3, Widths
  <2>2. l \in 1..(e.n + 1) /\ i \in 1..4 /\ q = (l - 1) * 4 + i /\ (l = e.n + 1 => i <= 2)
    BY <1>1, <1>3, <2>1
  <2>. HIDE DEF l, i
  <2>. QED
    BY <1>3, <2>1, <2>2 DEF Start
<1>. QED
  BY <1>2, <1>3, EOLsAre

\* The second character of a line.
Second(e, l) == IF e.of = <<>> THEN other ELSE Piece(e.of, l, e.n)

LEMMA EventTextIs ==
  ASSUME NEW ms, NEW e \in Event(ms), NEW eol \in EOLs,
         NEW l \in 1..(e.n + 1), NEW i \in 1..Width(eol), l = e.n + 1 => i <= Len(eol)
  PROVE  /\ Start(eol, l) + i \in 1..EventLength(e, eol)
         /\ EventText(e, eol)[Start(eol, l) + i] =
              IF l = e.n + 1 THEN eol[i]
              ELSE IF i = 1 THEN e.start ELSE IF i = 2 THEN Second(e, l) ELSE eol[i - 2]
<1>. DEFINE p == Start(eol, l) + i
            line == 1 + ((p - 1) \div Width(eol))
            at == 1 + ((p - 1) % Width(eol))
<1>1. e.n \in Nat \ {0}
  BY Widths
<1>2. p \in 1..EventLength(e, eol) /\ line = l /\ at = i
  <2>1. CASE Width(eol) = 3
    <3>1. Len(eol) = 1 /\ EventLength(e, eol) = e.n * 3 + 1 /\ p = (l - 1) * 3 + i
      BY <2>1, Widths DEF Start
    <3>. QED
      BY <1>1, <2>1, <3>1
  <2>2. CASE Width(eol) = 4
    <3>1. Len(eol) = 2 /\ EventLength(e, eol) = e.n * 4 + 2 /\ p = (l - 1) * 4 + i
      BY <2>2, Widths DEF Start
    <3>. QED
      BY <1>1, <2>2, <3>1
  <2>. QED
    BY <2>1, <2>2, EOLsAre
<1>. HIDE DEF p
<1>3. EventText(e, eol)[p] =
        CASE line > e.n -> eol[at]
          [] line <= e.n /\ at = 1 -> e.start
          [] line <= e.n /\ at = 2 -> Second(e, line)
          [] OTHER -> eol[at - 2]
  BY <1>2 DEF EventText, Second
<1>. HIDE DEF line, at
<1>4. line \in Nat /\ at \in Nat /\ (line > e.n <=> l = e.n + 1)
  BY <1>1, <1>2, EOLsAre
<1>5. EventText(e, eol)[p] =
         IF l = e.n + 1 THEN eol[i]
         ELSE IF i = 1 THEN e.start ELSE IF i = 2 THEN Second(e, l) ELSE eol[i - 2]
  BY <1>1, <1>2, <1>3, <1>4
<1>. QED
  BY <1>2, <1>5 DEF p

\* Every place in the stream is in one of its events.
LEMMA EventsCover ==
  ASSUME NEW ms, NEW events \in Seq(Event(ms)), NEW eol \in EOLs,
         NEW p \in 1..Bounds(events, eol)[Len(events)]
  PROVE  /\ Min({k \in DOMAIN events : p <= Bounds(events, eol)[k]}) \in 1..Len(events)
         /\ \A k \in 1..Len(events) :
              (Bounds(events, eol)[k - 1] < p /\ p <= Bounds(events, eol)[k])
                <=> k = Min({j \in DOMAIN events : p <= Bounds(events, eol)[j]})
<1>. DEFINE n == Len(events)
            B == Bounds(events, eol)
            S == {k \in DOMAIN events : p <= B[k]}
<1>1. n \in Nat /\ DOMAIN events = 1..n
  BY LenProperties
<1>2. \A k \in 0..n : B[k] \in Nat
  BY BoundsAre
<1>3. B[0] = 0 /\ p \in Nat /\ p > 0 /\ p <= B[n]
  BY <1>1, <1>2, BoundsAre
<1>4. n \in S
  BY <1>1, <1>2, <1>3
<1>5. PICK m : m = Min(S)
  OBVIOUS
<1>6. m \in S /\ \A k \in S : m <= k
  BY <1>1, <1>4, <1>5, S \in SUBSET Nat, MinIsLeast
<1>7. m \in 1..n /\ p <= B[m]
  BY <1>1, <1>6
<1>8. B[m - 1] < p
  <2>1. CASE m = 1
    BY <1>3, <2>1
  <2>2. CASE m # 1
    <3>1. m - 1 \in 1..n /\ m - 1 \in 0..n
      BY <1>1, <1>7, <2>2
    <3>2. m - 1 \notin S
      BY <1>6, <1>7, <3>1
    <3>. QED
      BY <1>1, <1>2, <1>3, <3>1, <3>2
  <2>. QED
    BY <2>1, <2>2
<1>9. ASSUME NEW k \in 1..n, B[k - 1] < p, p <= B[k] PROVE k = m
  <2>1. k \in S /\ m <= k
    BY <1>1, <1>6, <1>9
  <2>2. SUFFICES ASSUME m < k PROVE FALSE
    BY <1>7, <2>1
  <2>3. m \in 0..n /\ k - 1 \in 0..n /\ m <= k - 1
    BY <1>1, <1>7, <2>2
  <2>4. B[m] <= B[k - 1]
    BY <2>3, BoundsGrow
  <2>. QED
    BY <1>2, <1>3, <1>7, <1>9, <2>3, <2>4
<1>. HIDE DEF S
<1>10. \A k \in 1..n : (B[k - 1] < p /\ p <= B[k]) <=> k = m
  BY <1>7, <1>8, <1>9
<1>11. m = Min({j \in DOMAIN events : p <= Bounds(events, eol)[j]})
  BY <1>5 DEF S
<1>. QED
  BY <1>7, <1>10, <1>11

\* The stream is the texts of its events.
LEMMA EncodedIs ==
  ASSUME NEW ms, NEW events \in Seq(Event(ms)), NEW eol \in EOLs
  PROVE  /\ Len(Encoded(events, eol)) = Bounds(events, eol)[Len(events)]
         /\ DOMAIN Encoded(events, eol) = 1..Bounds(events, eol)[Len(events)]
         /\ \A k \in 1..Len(events) : \A q \in 1..EventLength(events[k], eol) :
              Encoded(events, eol)[Bounds(events, eol)[k - 1] + q] = EventText(events[k], eol)[q]
<1>. DEFINE n == Len(events)
            B == Bounds(events, eol)
            Of(p) == Min({k \in DOMAIN events : p <= B[k]})
<1>1. n \in Nat /\ \A k \in 0..n : B[k] \in Nat
  BY LenProperties, BoundsAre
<1>2. Encoded(events, eol) = [p \in 1..B[n] |-> EventText(events[Of(p)], eol)[p - B[Of(p) - 1]]]
  BY DEF Encoded
<1>3. ASSUME NEW k \in 1..n, NEW q \in 1..EventLength(events[k], eol)
      PROVE  Encoded(events, eol)[B[k - 1] + q] = EventText(events[k], eol)[q]
  <2>. DEFINE p == B[k - 1] + q
  <2>1. events[k] \in Event(ms) /\ EventLength(events[k], eol) \in Nat
    BY ElementOfSeq, LengthIs
  <2>2. k - 1 \in 0..n /\ k \in 0..n /\ n \in 0..n /\ B[k] = B[k - 1] + EventLength(events[k], eol)
    BY <1>1, BoundsAre
  <2>3. B[k] <= B[n]
    BY <1>1, <2>2, BoundsGrow
  <2>4. p \in 1..B[n] /\ B[k - 1] < p /\ p <= B[k] /\ p - B[k - 1] = q
    BY <1>1, <2>1, <2>2, <2>3, SMTT(30)
  <2>. HIDE DEF p
  <2>5. Of(p) = k
    BY <2>4, EventsCover
  <2>6. Encoded(events, eol)[p] = EventText(events[Of(p)], eol)[p - B[Of(p) - 1]]
    BY <1>2, <2>4
  <2>. QED
    BY <2>4, <2>5, <2>6 DEF p
<1>4. Len(Encoded(events, eol)) = B[n] /\ DOMAIN Encoded(events, eol) = 1..B[n]
  BY <1>1, <1>2
<1>. QED
  BY <1>3, <1>4

\* Every place in the stream is one in a line of an event.
LEMMA EveryPlace ==
  ASSUME NEW ms, NEW events \in Seq(Event(ms)), NEW eol \in EOLs,
         NEW p \in 1..Bounds(events, eol)[Len(events)]
  PROVE  \E k \in 1..Len(events) :
           \E l \in 1..(events[k].n + 1), i \in 1..Width(eol) :
             /\ l = events[k].n + 1 => i <= Len(eol)
             /\ p = Bounds(events, eol)[k - 1] + Start(eol, l) + i
             /\ Encoded(events, eol)[p] = EventText(events[k], eol)[Start(eol, l) + i]
<1>. DEFINE n == Len(events)
            B == Bounds(events, eol)
<1>1. n \in Nat /\ \A k \in 0..n : B[k] \in Nat
  BY LenProperties, BoundsAre
<1>2. PICK k \in 1..n : B[k - 1] < p /\ p <= B[k]
  BY EventsCover
<1>3. events[k] \in Event(ms) /\ EventLength(events[k], eol) \in Nat
  BY ElementOfSeq, LengthIs
<1>4. k - 1 \in 0..n /\ k \in 0..n /\ B[k] = B[k - 1] + EventLength(events[k], eol)
  BY <1>1, BoundsAre
<1>. DEFINE q == p - B[k - 1]
<1>5. q \in 1..EventLength(events[k], eol) /\ p = B[k - 1] + q
  BY <1>1, <1>2, <1>3, <1>4
<1>. HIDE DEF q
<1>6. PICK l \in 1..(events[k].n + 1), i \in 1..Width(eol) :
        q = Start(eol, l) + i /\ (l = events[k].n + 1 => i <= Len(eol))
  BY <1>3, <1>5, PlacesAre
<1>7. Encoded(events, eol)[p] = EventText(events[k], eol)[q]
  BY <1>5, EncodedIs
<1>8. events[k].n \in Nat \ {0} /\ l \in Nat \ {0} /\ Start(eol, l) \in Nat
  <2>1. events[k].n \in Nat \ {0}
    BY <1>3, LengthIs
  <2>2. l \in Nat \ {0}
    BY <2>1
  <2>. QED
    BY <2>1, <2>2, StartsAre
<1>9. Width(eol) \in Nat /\ i \in Nat /\ B[k - 1] \in Nat
  BY <1>1, <1>4, EOLsAre
<1>10. p = B[k - 1] + Start(eol, l) + i
  BY <1>5, <1>6, <1>8, <1>9
<1>. QED
  BY <1>6, <1>7, <1>10

LEMMA StreamIsOf ==
  ASSUME NEW ms, NEW events \in Seq(Event(ms)), NEW eol \in EOLs
  PROVE  Encoded(events, eol) \in Seq(Chars(ms))
<1>. DEFINE n == Len(events)
            T == Encoded(events, eol)
            B == Bounds(events, eol)
<1>1. n \in Nat /\ B[n] \in Nat
  BY LenProperties, BoundsAre
<1>2. DOMAIN T = 1..B[n]
  BY EncodedIs
<1>3. ASSUME NEW p \in 1..B[n] PROVE T[p] \in Chars(ms)
  <2>1. PICK k \in 1..n :
          \E l \in 1..(events[k].n + 1), i \in 1..Width(eol) :
             /\ l = events[k].n + 1 => i <= Len(eol)
             /\ p = B[k - 1] + Start(eol, l) + i
             /\ T[p] = EventText(events[k], eol)[Start(eol, l) + i]
    BY EveryPlace
  <2>2. PICK l \in 1..(events[k].n + 1), i \in 1..Width(eol) :
             /\ l = events[k].n + 1 => i <= Len(eol)
             /\ T[p] = EventText(events[k], eol)[Start(eol, l) + i]
    BY <2>1
  <2>3. PICK e : e = events[k]
    OBVIOUS
  <2>4. e \in Event(ms)
    BY <2>3, ElementOfSeq
  <2>5. T[p] = IF l = e.n + 1 THEN eol[i]
               ELSE IF i = 1 THEN e.start ELSE IF i = 2 THEN Second(e, l) ELSE eol[i - 2]
    BY <2>2, <2>3, <2>4, EventTextIs
  <2>6. e.start \in {data, other} /\ e.n \in Nat \ {0} /\ e.of \in ms \cup {<<>>}
    BY <2>4 DEF Event
  <2>7. Second(e, l) \in Chars(ms)
    <3>1. CASE e.of = <<>>
      BY <3>1 DEF Second, Chars
    <3>2. CASE e.of # <<>>
      <4>1. e.of \in ms /\ l \in Nat /\ e.n \in Nat
        BY <2>3, <2>6, <3>2
      <4>. QED
        BY <3>2, <4>1 DEF Second, Chars
    <3>. QED
      BY <3>1, <3>2
  <2>8. l = e.n + 1 => eol[i] \in {nl, cr}
    BY <2>2, <2>3, EOLsAre
  <2>9. i \notin {1, 2} => eol[i - 2] \in {nl, cr}
    BY EOLsAre
  <2>10. {nl, cr, data, other} \subseteq Chars(ms)
    BY DEF Chars
  <2>. QED
    BY <2>5, <2>6, <2>7, <2>8, <2>9, <2>10
<1>4. T = [p \in 1..B[n] |-> T[p]]
  BY <1>2 DEF Encoded
<1>5. T \in [1..B[n] -> Chars(ms)]
  BY <1>3, <1>4
<1>. QED
  BY <1>1, <1>5

LEMMA TwoCharacters ==
  ASSUME NEW S, NEW s \in Seq(S), Len(s) = 2
  PROVE  s = <<s[1], s[2]>>
<1>. DEFINE t == <<s[1], s[2]>>
<1>1. s[1] \in S /\ s[2] \in S
  BY ElementOfSeq
<1>2. t \in Seq(S) /\ Len(t) = 2 /\ t[1] = s[1] /\ t[2] = s[2]
  BY <1>1
<1>. HIDE DEF t
<1>3. \A k \in 1..2 : s[k] = t[k]
  BY <1>2
<1>4. s = t
  BY <1>2, <1>3, SeqEqual
<1>. QED
  BY <1>4 DEF t

LEMMA NotEmpty ==
  ASSUME NEW S, NEW s \in Seq(S), Len(s) > 0
  PROVE  s # <<>>
BY EmptySeq

\* A line of two characters, neither of which ends it.
LEMMA LineIs ==
  ASSUME NEW S, NEW text \in Seq(S), NEW j \in Nat, NEW i \in DOMAIN text,
         j = 0 \/ (j \in DOMAIN text /\ text[j] = nl),
         i = j + 3 \/ (i = j + 4 /\ text[j + 3] = cr), text[i] = nl,
         text[j + 1] # nl, text[j + 2] \notin {nl, cr}
  PROVE  /\ i \in Newlines(text) /\ Behind(Newlines(text), i) = j
         /\ LineAt(text, i) = <<text[j + 1], text[j + 2]>>
<1>. DEFINE line == SubSeq(text, j + 1, i - 1)
<1>1. Len(text) \in Nat /\ DOMAIN text = 1..Len(text)
  BY LenProperties
<1>2. Newlines(text) \in SUBSET (1..Len(text)) /\ i \in Newlines(text) /\ i \in Nat /\ j < i
  BY <1>1 DEF Newlines
<1>3. j = 0 \/ j \in Newlines(text)
  BY DEF Newlines
<1>4. ASSUME NEW k \in Newlines(text), k < i PROVE k <= j
  <2>1. k \in Nat /\ text[k] = nl /\ k <= i - 1
    BY <1>1, <1>2, <1>4 DEF Newlines
  <2>2. k # j + 1 /\ k # j + 2
    BY <2>1
  <2>3. i = j + 4 => k # j + 3
    BY <2>1, Characters
  <2>. QED
    BY <1>2, <2>1, <2>2, <2>3
<1>5. Behind(Newlines(text), i) = j
  BY <1>1, <1>2, <1>3, <1>4, BehindIs
<1>6. line \in Seq(S) /\ Len(line) = i - 1 - j /\ \A k \in 1..(i - 1 - j) : line[k] = text[j + k]
  <2>1. \A k \in (j + 1)..(i - 1) : text[k] \in S
    BY <1>1, <1>2, ElementOfSeq
  <2>2. line \in Seq(S) /\ Len(line) = (i - 1) - (j + 1) + 1
        /\ \A k \in 1..((i - 1) - (j + 1) + 1) : line[k] = text[(j + 1) + k - 1]
    BY <1>2, <2>1, SubSeqProperties
  <2>. QED
    BY <1>2, <2>2, SMTT(30)
<1>. HIDE DEF line
<1>7. CASE i = j + 3
  <2>0. i - 1 - j = 2 /\ 1 \in 1..2 /\ 2 \in 1..2
    BY <1>2, <1>7
  <2>1. Len(line) = 2 /\ line[1] = text[j + 1] /\ line[2] = text[j + 2]
    BY <1>6, <2>0
  <2>2. line[2] # cr
    BY <2>1
  <2>3. StripCr(line) = line
    BY <2>1, <2>2 DEF StripCr
  <2>4. line = <<text[j + 1], text[j + 2]>>
    BY <1>6, <2>1, TwoCharacters
  <2>. QED
    BY <1>2, <1>5, <2>3, <2>4 DEF LineAt, line
<1>8. CASE i = j + 4
  <2>0. i - 1 - j = 3 /\ 1 \in 1..3 /\ 2 \in 1..3 /\ 3 \in 1..3
    BY <1>2, <1>8
  <2>1. Len(line) = 3 /\ line[1] = text[j + 1] /\ line[2] = text[j + 2] /\ line[3] = cr
    BY <1>6, <1>8, <2>0
  <2>4. line # <<>>
    <3>1. line \in Seq(S) /\ Len(line) > 0
      BY <1>6, <2>1
    <3>. QED
      BY <3>1, NotEmpty
  <2>2. StripCr(line) = SubSeq(line, 1, 2)
    BY <2>1, <2>4 DEF StripCr
  <2>3. SubSeq(line, 1, 2) = <<text[j + 1], text[j + 2]>>
    <3>1. \A k \in 1..2 : line[k] \in S
      BY <1>6, <2>1, ElementOfSeq
    <3>2. SubSeq(line, 1, 2) \in Seq(S) /\ Len(SubSeq(line, 1, 2)) = 2
          /\ \A k \in 1..2 : SubSeq(line, 1, 2)[k] = line[1 + k - 1]
      BY <3>1, SubSeqProperties
    <3>3. SubSeq(line, 1, 2)[1] = line[1] /\ SubSeq(line, 1, 2)[2] = line[2]
      BY <3>2
    <3>. QED
      BY <2>1, <3>2, <3>3, TwoCharacters
  <2>. QED
    BY <1>2, <1>5, <2>2, <2>3 DEF LineAt, line
<1>. QED
  BY <1>7, <1>8

\* A line without a character but, perhaps, a carriage return.
LEMMA BlankIs ==
  ASSUME NEW S, NEW text \in Seq(S), NEW j \in Nat, NEW i \in DOMAIN text,
         j = 0 \/ (j \in DOMAIN text /\ text[j] = nl),
         i = j + 1 \/ (i = j + 2 /\ text[j + 1] = cr), text[i] = nl
  PROVE  i \in Newlines(text) /\ Behind(Newlines(text), i) = j /\ LineAt(text, i) = <<>>
<1>. DEFINE line == SubSeq(text, j + 1, i - 1)
<1>1. Len(text) \in Nat /\ DOMAIN text = 1..Len(text)
  BY LenProperties
<1>2. Newlines(text) \in SUBSET (1..Len(text)) /\ i \in Newlines(text) /\ i \in Nat /\ j < i
  BY <1>1 DEF Newlines
<1>3. j = 0 \/ j \in Newlines(text)
  BY DEF Newlines
<1>4. ASSUME NEW k \in Newlines(text), k < i PROVE k <= j
  <2>1. k \in Nat /\ text[k] = nl /\ k <= i - 1
    BY <1>1, <1>2, <1>4 DEF Newlines
  <2>2. i = j + 2 => k # j + 1
    BY <2>1, Characters
  <2>. QED
    BY <1>2, <2>1, <2>2
<1>5. Behind(Newlines(text), i) = j
  BY <1>1, <1>2, <1>3, <1>4, BehindIs
<1>6. CASE i = j + 1
  <2>1. line = <<>>
    BY <1>2, <1>6, SubSeqEmpty
  <2>2. StripCr(line) = <<>>
    BY <2>1 DEF StripCr
  <2>. QED
    BY <1>2, <1>5, <2>2 DEF LineAt
<1>7. CASE i = j + 2
  <2>1. line \in Seq(S) /\ Len(line) = 1 /\ line[1] = cr
    <3>1. \A k \in (j + 1)..(i - 1) : text[k] \in S
      BY <1>1, <1>2, ElementOfSeq
    <3>2. line \in Seq(S) /\ Len(line) = (i - 1) - (j + 1) + 1
          /\ \A k \in 1..((i - 1) - (j + 1) + 1) : line[k] = text[(j + 1) + k - 1]
      BY <1>2, <1>7, <3>1, SubSeqProperties
    <3>. QED
      BY <1>2, <1>7, <3>2
  <2>. HIDE DEF line
  <2>2. SubSeq(line, 1, 0) = <<>>
    BY SubSeqEmpty
  <2>3. line # <<>>
    <3>1. line \in Seq(S) /\ Len(line) > 0
      BY <2>1
    <3>. QED
      BY <3>1, NotEmpty
  <2>4. StripCr(line) = <<>>
    BY <2>1, <2>2, <2>3 DEF StripCr
  <2>. QED
    BY <1>2, <1>5, <2>4 DEF LineAt, line
<1>. QED
  BY <1>6, <1>7

\* The n lines of message m end at the places at, the others are blank.
Lays(text, places, at, m, n) ==
  /\ n \in Nat \ {0} /\ places \in SUBSET Nat /\ at \in [1..n -> places]
  /\ \A k, l \in 1..n : k < l => at[k] < at[l]
  /\ \A k \in 1..n : LineAt(text, at[k]) = <<data, Piece(m, k, n)>>
  /\ \A i \in places : (\E k \in 1..n : i = at[k]) \/ LineAt(text, i) = <<>>

\* The lines of a message, in their order and with blank lines at most between
\* them, parse to it.
LEMMA PayloadIs ==
  ASSUME NEW text, NEW places, NEW at, NEW m, NEW n, Lays(text, places, at, m, n)
  PROVE  TryParse(FramePayload(text, places)) = m
<1>0. /\ n \in Nat \ {0} /\ places \in SUBSET Nat /\ at \in [1..n -> places]
      /\ \A k, l \in 1..n : k < l => at[k] < at[l]
      /\ \A k \in 1..n : LineAt(text, at[k]) = <<data, Piece(m, k, n)>>
      /\ \A i \in places : (\E k \in 1..n : i = at[k]) \/ LineAt(text, i) = <<>>
  BY DEF Lays
<1>. DEFINE P == FramePayload(text, places)
            D == {i \in places : LineAt(text, i) # <<>> /\ LineAt(text, i)[1] = data}
            values == {P[i] : i \in DOMAIN P}
            pieces == {v[1] : v \in {v \in values : Len(v) = 1 /\ v[1][1] = "piece"}}
            whole == {p \in pieces : Whole(P, p[2], p[4])}
<1>1. \A p : <<data, p>> # <<>> /\ <<data, p>>[1] = data /\ Tail(<<data, p>>) = <<p>>
  OBVIOUS
<1>2. P = [i \in D |-> Tail(LineAt(text, i))]
  BY DEF FramePayload, DataLineValue
<1>3. ASSUME NEW k \in 1..n PROVE at[k] \in D /\ P[at[k]] = <<Piece(m, k, n)>>
  <2>1. PICK line : line = LineAt(text, at[k])
    OBVIOUS
  <2>2. line = <<data, Piece(m, k, n)>> /\ at[k] \in places
    BY <1>0, <2>1
  <2>3. line # <<>> /\ line[1] = data /\ Tail(line) = <<Piece(m, k, n)>>
    BY <1>1, <2>2
  <2>4. at[k] \in D
    BY <2>1, <2>2, <2>3
  <2>. QED
    BY <1>2, <2>1, <2>3, <2>4
<1>4. DOMAIN P = D /\ \A i \in D : \E k \in 1..n : i = at[k]
  BY <1>0, <1>2
<1>. HIDE DEF P, D
<1>5. ASSUME NEW v \in values PROVE \E k \in 1..n : v = <<Piece(m, k, n)>>
  <2>1. PICK i \in D : v = P[i]
    BY <1>4
  <2>2. PICK k \in 1..n : i = at[k]
    BY <1>4
  <2>. QED
    BY <1>3, <2>1, <2>2
<1>6. \A k \in 1..n : <<Piece(m, k, n)>> \in values
  BY <1>3, <1>4
<1>7. \A k : Len(<<Piece(m, k, n)>>) = 1 /\ <<Piece(m, k, n)>>[1] = Piece(m, k, n)
  OBVIOUS
<1>8. Whole(P, m, n)
  <2>1. \A i \in DOMAIN P : \E k \in 1..n : P[i] = <<Piece(m, k, n)>>
    BY <1>3, <1>4
  <2>2. \A k \in 1..n : \E i \in DOMAIN P : P[i] = <<Piece(m, k, n)>>
    BY <1>3, <1>4
  <2>3. ASSUME NEW i \in DOMAIN P, NEW j \in DOMAIN P, i < j
        PROVE  P[i][1][3] < P[j][1][3]
    <3>1. PICK k \in 1..n : i = at[k]
      BY <1>4
    <3>2. PICK l \in 1..n : j = at[l]
      BY <1>4
    <3>3. P[i][1][3] = k /\ P[j][1][3] = l
      BY <1>3, <1>7, <3>1, <3>2, Pieces4
    <3>4. at[k] \in Nat /\ at[l] \in Nat /\ at[k] < at[l] /\ n \in Nat
      BY <1>0, <2>3, <3>1, <3>2
    <3>5. ~(l < k) /\ k # l
      BY <1>0, <3>4
    <3>. QED
      BY <3>3, <3>4, <3>5
  <2>. QED
    BY <2>1, <2>2, <2>3 DEF Whole
<1>9. \A p \in pieces : p[2] = m /\ p[4] = n
  <2>1. SUFFICES ASSUME NEW v \in values PROVE v[1][2] = m /\ v[1][4] = n
    OBVIOUS
  <2>2. PICK k \in 1..n : v = <<Piece(m, k, n)>>
    BY <1>5
  <2>. QED
    BY <1>7, <2>2, Pieces4
<1>10. Piece(m, 1, n) \in pieces
  <2>1. <<Piece(m, 1, n)>> \in values
    BY <1>0, <1>6
  <2>2. <<Piece(m, 1, n)>>[1][1] = "piece"
    BY <1>7, Pieces4
  <2>. HIDE DEF values
  <2>. QED
    BY <1>7, <2>1, <2>2
<1>. HIDE DEF pieces, values
<1>11. whole # {} /\ \A p \in whole : p[2] = m
  BY <1>8, <1>9, <1>10
<1>12. TryParse(P) = IF whole = {} THEN <<>> ELSE (CHOOSE p \in whole : TRUE)[2]
  BY DEF TryParse, pieces, values
<1>13. TryParse(P) = (CHOOSE p \in whole : TRUE)[2] /\ (CHOOSE p \in whole : TRUE) \in whole
  BY <1>11, <1>12
<1>. QED
  BY <1>11, <1>13 DEF P

-----------------------------------------------------------------------------
(* The client of a tool server: what it keeps, the stream from the end of    *)
(* its b-th event up to somewhere.                                           *)

Slice(t, events, eol, b) ==
  /\ b \in 0..Len(events)
  /\ Bounds(events, eol)[b] + Len(t) <= Bounds(events, eol)[Len(events)]
  /\ \A i \in 1..Len(t) : t[i] = Encoded(events, eol)[Bounds(events, eol)[b] + i]

\* How far behind the b-th event the l-th line of the k-th begins.
Offset(events, eol, b, k, l) ==
  Bounds(events, eol)[k - 1] - Bounds(events, eol)[b] + Start(eol, l)

LEMMA OffsetsAre ==
  ASSUME NEW ms, NEW events \in Seq(Event(ms)), NEW eol \in EOLs, NEW b \in 0..Len(events),
         NEW k \in (b + 1)..Len(events)
  PROVE  /\ k \in 1..Len(events) /\ events[k] \in Event(ms) /\ events[k].n \in Nat \ {0}
         /\ Bounds(events, eol)[b] \in Nat
         /\ Bounds(events, eol)[k] \in Nat
         /\ Bounds(events, eol)[b] <= Bounds(events, eol)[k - 1]
         /\ Bounds(events, eol)[k] - Bounds(events, eol)[b]
              = Offset(events, eol, b, k, events[k].n + 1) + Len(eol)
         /\ \A l \in Nat \ {0} :
              /\ Offset(events, eol, b, k, l) \in Nat
              /\ Offset(events, eol, b, k, l + 1) = Offset(events, eol, b, k, l) + Width(eol)
              /\ \A m \in Nat \ {0} : l < m =>
                   Offset(events, eol, b, k, l) + Width(eol) <= Offset(events, eol, b, k, m)
         /\ Offset(events, eol, b, k, 1) = Bounds(events, eol)[k - 1] - Bounds(events, eol)[b]
<1>. DEFINE n == Len(events)
            B == Bounds(events, eol)
<1>1. n \in Nat /\ k \in 1..n /\ b \in Nat /\ k \in Nat
  BY LenProperties
<1>2. events[k] \in Event(ms) /\ events[k].n \in Nat \ {0}
        /\ EventLength(events[k], eol) = Start(eol, events[k].n + 1) + Len(eol)
  <2>1. events[k] \in Event(ms)
    BY <1>1, ElementOfSeq
  <2>. QED
    BY <2>1, LengthIs
<1>3. B[b] \in Nat /\ B[k - 1] \in Nat /\ B[b] <= B[k - 1]
  <2>1. k - 1 \in 0..n /\ b \in 0..n /\ b <= k - 1
    BY <1>1
  <2>. QED
    BY <2>1, BoundsGrow
<1>4. B[k] = B[k - 1] + EventLength(events[k], eol) /\ B[k] \in Nat
  <2>1. k \in 0..n
    BY <1>1
  <2>. QED
    BY <1>1, <2>1, BoundsAre
<1>5. Len(eol) \in Nat /\ Width(eol) \in Nat
  BY EOLsAre
<1>6. \A l \in Nat \ {0} : Start(eol, l) \in Nat
  BY StartsAre
<1>7. B[k] - B[b] = Offset(events, eol, b, k, events[k].n + 1) + Len(eol)
  <2>1. Start(eol, events[k].n + 1) \in Nat
    BY <1>2, <1>6
  <2>. QED
    BY <1>2, <1>3, <1>4, <1>5, <2>1, SMTT(30) DEF Offset
<1>8. ASSUME NEW l \in Nat \ {0}
      PROVE  /\ Offset(events, eol, b, k, l) \in Nat
             /\ Offset(events, eol, b, k, l + 1) = Offset(events, eol, b, k, l) + Width(eol)
             /\ \A m \in Nat \ {0} : l < m =>
                  Offset(events, eol, b, k, l) + Width(eol) <= Offset(events, eol, b, k, m)
  <2>1. Start(eol, l + 1) = Start(eol, l) + Width(eol)
    BY StartsAre
  <2>2. Offset(events, eol, b, k, l) \in Nat
    BY <1>3, <1>6 DEF Offset
  <2>3. Offset(events, eol, b, k, l + 1) = Offset(events, eol, b, k, l) + Width(eol)
    BY <1>3, <1>5, <1>6, <2>1, SMTT(30) DEF Offset
  <2>4. ASSUME NEW m \in Nat \ {0}, l < m
        PROVE  Offset(events, eol, b, k, l) + Width(eol) <= Offset(events, eol, b, k, m)
    <3>1. Start(eol, l) + Width(eol) <= Start(eol, m)
      BY <2>4, StartsAre
    <3>2. Start(eol, l) \in Nat /\ Start(eol, m) \in Nat
      BY <1>6
    <3>. QED
      BY <1>3, <1>5, <3>1, <3>2, SMTT(30) DEF Offset
  <2>. QED
    BY <2>2, <2>3, <2>4
<1>9. Offset(events, eol, b, k, 1) = B[k - 1] - B[b]
  <2>1. Start(eol, 1) = 0
    BY StartsAre
  <2>. QED
    BY <1>3, <2>1 DEF Offset
<1>. QED
  BY <1>1, <1>2, <1>3, <1>4, <1>7, <1>8, <1>9

LEMMA OffsetEnds ==
  ASSUME NEW ms, NEW events \in Seq(Event(ms)), NEW eol \in EOLs, NEW b \in 0..Len(events),
         NEW k \in (b + 1)..Len(events)
  PROVE  Bounds(events, eol)[k] - Bounds(events, eol)[b]
           = Offset(events, eol, b, k, events[k].n + 1) + Len(eol)
<1>. PICK x : x = Bounds(events, eol)[k] - Bounds(events, eol)[b]
  OBVIOUS
<1>. QED
  BY OffsetsAre

\* What a line of the slice holds.
LEMMA SliceHolds ==
  ASSUME NEW ms, NEW events \in Seq(Event(ms)), NEW eol \in EOLs, NEW t \in Seq(Chars(ms)),
         NEW b, Slice(t, events, eol, b), NEW k \in (b + 1)..Len(events),
         NEW l \in 1..(events[k].n + 1), NEW i \in 1..Width(eol),
         l = events[k].n + 1 => i <= Len(eol),
         Offset(events, eol, b, k, l) + i <= Len(t)
  PROVE  /\ Offset(events, eol, b, k, l) + i \in 1..Len(t)
         /\ t[Offset(events, eol, b, k, l) + i] =
              IF l = events[k].n + 1 THEN eol[i]
              ELSE IF i = 1 THEN events[k].start
              ELSE IF i = 2 THEN Second(events[k], l) ELSE eol[i - 2]
<1>. DEFINE n == Len(events)
            B == Bounds(events, eol)
            x == Offset(events, eol, b, k, l) + i
<1>1. b \in 0..n
  BY DEF Slice
<1>2. k \in 1..n /\ events[k] \in Event(ms) /\ events[k].n \in Nat \ {0}
      /\ B[b] \in Nat /\ B[b] <= B[k - 1]
  BY <1>1, OffsetsAre
<1>3. l \in Nat \ {0} /\ Start(eol, l) \in Nat /\ i \in Nat /\ i > 0
  <2>1. l \in Nat \ {0}
    BY <1>2
  <2>2. Start(eol, l) \in Nat
    BY <2>1, StartsAre
  <2>3. Width(eol) \in Nat
    BY EOLsAre
  <2>. QED
    BY <2>1, <2>2, <2>3
<1>4. Offset(events, eol, b, k, l) \in Nat /\ Len(t) \in Nat
  BY <1>1, <1>3, OffsetsAre, LenProperties
<1>5. x \in 1..Len(t)
  BY <1>3, <1>4
<1>6. t[x] = Encoded(events, eol)[B[b] + x]
  BY <1>5 DEF Slice
<1>7. B[k - 1] \in Nat
  <2>1. n \in Nat /\ k - 1 \in 0..n
    BY <1>2, LenProperties
  <2>. QED
    BY <2>1, BoundsAre
<1>8. B[b] + x = B[k - 1] + (Start(eol, l) + i)
  <2>1. PICK u : u = B[b]
    OBVIOUS
  <2>2. PICK v : v = B[k - 1]
    OBVIOUS
  <2>3. PICK f : f = Start(eol, l)
    OBVIOUS
  <2>4. u \in Nat /\ v \in Nat /\ f \in Nat /\ i \in Nat
    BY <1>2, <1>3, <1>7, <2>1, <2>2, <2>3
  <2>5. x = v - u + f + i
    BY <2>1, <2>2, <2>3 DEF Offset
  <2>6. u + x = v + (f + i)
    BY <2>4, <2>5
  <2>. QED
    BY <2>1, <2>2, <2>3, <2>6
<1>9. PICK e : e = events[k]
  OBVIOUS
<1>10. /\ Start(eol, l) + i \in 1..EventLength(e, eol)
       /\ EventText(e, eol)[Start(eol, l) + i] =
            IF l = e.n + 1 THEN eol[i]
            ELSE IF i = 1 THEN e.start ELSE IF i = 2 THEN Second(e, l) ELSE eol[i - 2]
  <2>1. e \in Event(ms) /\ l \in 1..(e.n + 1) /\ (l = e.n + 1 => i <= Len(eol))
    BY <1>2, <1>9
  <2>. QED
    BY <2>1, EventTextIs
<1>11. Encoded(events, eol)[B[k - 1] + (Start(eol, l) + i)]
         = EventText(e, eol)[Start(eol, l) + i]
  BY <1>2, <1>9, <1>10, EncodedIs
<1>. QED
  BY <1>5, <1>6, <1>8, <1>9, <1>10, <1>11

\* Every line of a slice begins it or follows a line end.
LEMMA SliceBegins ==
  ASSUME NEW ms, NEW events \in Seq(Event(ms)), NEW eol \in EOLs, NEW t \in Seq(Chars(ms)),
         NEW b, Slice(t, events, eol, b), NEW k \in (b + 1)..Len(events),
         NEW l \in 1..(events[k].n + 1),
         Offset(events, eol, b, k, l) <= Len(t)
  PROVE  \/ Offset(events, eol, b, k, l) = 0
         \/ /\ Offset(events, eol, b, k, l) \in DOMAIN t
            /\ t[Offset(events, eol, b, k, l)] = nl
<1>. DEFINE n == Len(events)
<1>1. b \in 0..n /\ n \in Nat /\ DOMAIN t = 1..Len(t)
  BY LenProperties DEF Slice
<1>2. events[k].n \in Nat \ {0} /\ k \in 1..n
  BY <1>1, OffsetsAre
<1>3. CASE l # 1
  <2>1. PICK h : h = l - 1
    OBVIOUS
  <2>2. h \in Nat \ {0} /\ h \in 1..(events[k].n + 1) /\ h # events[k].n + 1 /\ h + 1 = l
    BY <1>2, <1>3, <2>1
  <2>3. Offset(events, eol, b, k, l) = Offset(events, eol, b, k, h) + Width(eol)
    BY <1>1, <2>2, OffsetsAre
  <2>4. Width(eol) \in 1..Width(eol) /\ eol[Width(eol) - 2] = nl /\ Width(eol) \notin {1, 2}
    BY EOLsAre
  <2>. QED
    BY <1>1, <2>2, <2>3, <2>4, SliceHolds, SMTT(30)
<1>4. CASE l = 1 /\ k = b + 1
  <2>1. Offset(events, eol, b, k, 1) = Bounds(events, eol)[k - 1] - Bounds(events, eol)[b]
        /\ Bounds(events, eol)[b] \in Nat
    BY <1>1, OffsetsAre
  <2>2. k - 1 = b
    BY <1>1, <1>4
  <2>. QED
    BY <1>4, <2>1, <2>2
<1>5. CASE l = 1 /\ k # b + 1
  <2>1. PICK j : j = k - 1
    OBVIOUS
  <2>2. j \in (b + 1)..n
    BY <1>1, <1>2, <1>5, <2>1
  <2>3. Offset(events, eol, b, k, 1) = Bounds(events, eol)[j] - Bounds(events, eol)[b]
    BY <1>1, <2>1, OffsetsAre
  <2>4. /\ events[j].n \in Nat \ {0}
        /\ Bounds(events, eol)[j] - Bounds(events, eol)[b]
             = Offset(events, eol, b, j, events[j].n + 1) + Len(eol)
    BY <1>1, <2>2, OffsetsAre
  <2>5. PICK h : h = events[j].n + 1
    OBVIOUS
  <2>6. h \in 1..(events[j].n + 1) /\ Len(eol) \in 1..Width(eol) /\ eol[Len(eol)] = nl
        /\ Len(eol) <= Len(eol)
    <3>1. h \in 1..(events[j].n + 1)
      BY <2>4, <2>5
    <3>. QED
      BY <3>1, EOLEnds
  <2>7. Offset(events, eol, b, k, l) = Offset(events, eol, b, j, h) + Len(eol)
    BY <1>5, <2>3, <2>4, <2>5
  <2>. QED
    BY <1>1, <2>2, <2>5, <2>6, <2>7, SliceHolds, SMTT(30)
<1>. QED
  BY <1>3, <1>4, <1>5

\* The first two characters of a line do not end it.
LEMMA SecondIs ==
  ASSUME NEW ms, NEW e \in Event(ms), NEW l
  PROVE  e.start # nl /\ Second(e, l) \notin {nl, cr}
BY Characters DEF Event, Second

\* A line of the slice that is complete.
LEMMA SliceLine ==
  ASSUME NEW ms, NEW events \in Seq(Event(ms)), NEW eol \in EOLs, NEW t \in Seq(Chars(ms)),
         NEW b, Slice(t, events, eol, b), NEW k \in (b + 1)..Len(events),
         NEW l \in 1..events[k].n,
         Offset(events, eol, b, k, l) + Width(eol) <= Len(t)
  PROVE  LET i == Offset(events, eol, b, k, l) + Width(eol) IN
         /\ i \in Newlines(t)
         /\ Behind(Newlines(t), i) = Offset(events, eol, b, k, l)
         /\ LineAt(t, i) = <<events[k].start, Second(events[k], l)>>
<1>1. PICK j : j = Offset(events, eol, b, k, l)
  OBVIOUS
<1>2. PICK i : i = j + Width(eol)
  OBVIOUS
<1>3. b \in 0..Len(events) /\ DOMAIN t = 1..Len(t) /\ Len(t) \in Nat
  BY LenProperties DEF Slice
<1>4. events[k] \in Event(ms) /\ events[k].n \in Nat \ {0} /\ l \in Nat \ {0}
      /\ l \in 1..(events[k].n + 1) /\ l # events[k].n + 1
  <2>1. events[k] \in Event(ms) /\ events[k].n \in Nat \ {0}
    BY <1>3, OffsetsAre
  <2>. QED
    BY <2>1
<1>5. j \in Nat
  BY <1>1, <1>3, <1>4, OffsetsAre
<1>6. i \in DOMAIN t /\ j <= Len(t) /\ i <= Len(t)
  BY <1>1, <1>2, <1>3, <1>5, EOLsAre
<1>7. j = 0 \/ (j \in DOMAIN t /\ t[j] = nl)
  BY <1>1, <1>4, <1>6, SliceBegins
<1>8. \A q \in 1..Width(eol) :
        t[j + q] = IF q = 1 THEN events[k].start ELSE IF q = 2 THEN Second(events[k], l) ELSE eol[q - 2]
  <2>1. SUFFICES ASSUME NEW q \in 1..Width(eol)
                 PROVE t[j + q] = IF q = 1 THEN events[k].start
                                  ELSE IF q = 2 THEN Second(events[k], l) ELSE eol[q - 2]
    OBVIOUS
  <2>2. Offset(events, eol, b, k, l) + q <= Len(t)
    BY <1>1, <1>2, <1>3, <1>5, <1>6, EOLsAre, SMTT(30)
  <2>. QED
    BY <1>1, <1>4, <2>2, SliceHolds
<1>9. t[j + 1] = events[k].start /\ t[j + 2] = Second(events[k], l)
      /\ t[i] = nl /\ (i = j + 3 \/ (i = j + 4 /\ t[j + 3] = cr))
  <2>1. CASE Len(eol) = 1 /\ eol[1] = nl /\ Width(eol) = 3
    BY <1>2, <1>8, <2>1
  <2>2. CASE Len(eol) = 2 /\ eol[1] = cr /\ eol[2] = nl /\ Width(eol) = 4
    BY <1>2, <1>8, <2>2
  <2>. QED
    BY <2>1, <2>2, EOLsAre
<1>10. t[j + 1] # nl /\ t[j + 2] \notin {nl, cr}
  BY <1>4, <1>9, SecondIs
<1>11. i \in Newlines(t) /\ Behind(Newlines(t), i) = j /\ LineAt(t, i) = <<t[j + 1], t[j + 2]>>
  BY <1>5, <1>6, <1>7, <1>9, <1>10, LineIs
<1>. QED
  BY <1>1, <1>2, <1>9, <1>11

\* The blank line behind an event.
LEMMA SliceBlank ==
  ASSUME NEW ms, NEW events \in Seq(Event(ms)), NEW eol \in EOLs, NEW t \in Seq(Chars(ms)),
         NEW b, Slice(t, events, eol, b), NEW k \in (b + 1)..Len(events),
         Bounds(events, eol)[k] - Bounds(events, eol)[b] <= Len(t)
  PROVE  LET i == Bounds(events, eol)[k] - Bounds(events, eol)[b] IN
         i \in Newlines(t) /\ LineAt(t, i) = <<>>
<1>1. PICK l : l = events[k].n + 1
  OBVIOUS
<1>2. PICK j : j = Offset(events, eol, b, k, l)
  OBVIOUS
<1>3. b \in 0..Len(events) /\ DOMAIN t = 1..Len(t) /\ Len(t) \in Nat
  BY LenProperties DEF Slice
<1>4. /\ events[k] \in Event(ms) /\ events[k].n \in Nat \ {0} /\ l \in Nat \ {0}
      /\ l \in 1..(events[k].n + 1)
      /\ Bounds(events, eol)[k] - Bounds(events, eol)[b] = j + Len(eol)
  <2>1. /\ events[k] \in Event(ms) /\ events[k].n \in Nat \ {0}
        /\ Bounds(events, eol)[k] - Bounds(events, eol)[b]
             = Offset(events, eol, b, k, events[k].n + 1) + Len(eol)
    <3>1. b \in 0..Len(events)
      BY <1>3
    <3>2. events[k] \in Event(ms) /\ events[k].n \in Nat \ {0}
      BY <3>1, OffsetsAre
    <3>3. Bounds(events, eol)[k] - Bounds(events, eol)[b]
            = Offset(events, eol, b, k, events[k].n + 1) + Len(eol)
      BY <3>1, OffsetsAre
    <3>. QED
      BY <3>2, <3>3
  <2>. QED
    BY <1>1, <1>2, <2>1
<1>5. j \in Nat
  BY <1>2, <1>3, <1>4, OffsetsAre
<1>6. PICK i : i = j + Len(eol)
  OBVIOUS
<1>7. i \in DOMAIN t /\ j <= Len(t) /\ i <= Len(t)
  BY <1>3, <1>4, <1>5, <1>6, EOLsAre, SMTT(30)
<1>8. j = 0 \/ (j \in DOMAIN t /\ t[j] = nl)
  BY <1>2, <1>4, <1>7, SliceBegins
<1>9. \A q \in 1..Len(eol) : t[j + q] = eol[q]
  <2>1. SUFFICES ASSUME NEW q \in 1..Len(eol) PROVE t[j + q] = eol[q]
    OBVIOUS
  <2>2. Offset(events, eol, b, k, l) + q <= Len(t) /\ q \in 1..Width(eol) /\ q <= Len(eol)
    BY <1>2, <1>3, <1>5, <1>6, <1>7, EOLEnds
  <2>. QED
    BY <1>1, <1>2, <1>4, <2>2, SliceHolds, SMTT(30)
<1>10. t[i] = nl /\ (i = j + 1 \/ (i = j + 2 /\ t[j + 1] = cr))
  <2>1. CASE Len(eol) = 1 /\ eol[1] = nl
    BY <1>6, <1>9, <2>1
  <2>2. CASE Len(eol) = 2 /\ eol[1] = cr /\ eol[2] = nl
    BY <1>6, <1>9, <2>2
  <2>. QED
    BY <2>1, <2>2, EOLsAre
<1>11. i \in Newlines(t) /\ LineAt(t, i) = <<>>
  BY <1>5, <1>7, <1>8, <1>10, BlankIs
<1>. QED
  BY <1>4, <1>6, <1>11

LEMMA EOLOnce ==
  ASSUME NEW eol \in EOLs, NEW q \in 1..Len(eol), eol[q] = nl
  PROVE  q = Len(eol)
<1>1. CASE Len(eol) = 1
  BY <1>1
<1>2. CASE Len(eol) = 2 /\ eol[1] = cr
  BY <1>2, Characters
<1>. QED
  BY <1>1, <1>2, EOLsAre

LEMMA Apart ==
  ASSUME NEW x \in Nat, NEW y \in Nat, NEW z \in Nat, NEW q \in Nat, NEW i \in Nat,
         x + i = y + z + q
  PROVE  i = y - x + z + q
OBVIOUS

\* A line end of the slice ends a line of an event or the event.
LEMMA SliceNewlines ==
  ASSUME NEW ms, NEW events \in Seq(Event(ms)), NEW eol \in EOLs, NEW t \in Seq(Chars(ms)),
         NEW b, Slice(t, events, eol, b), NEW i \in Newlines(t)
  PROVE  \E k \in (b + 1)..Len(events) :
           \/ i = Bounds(events, eol)[k] - Bounds(events, eol)[b]
           \/ \E l \in 1..events[k].n : i = Offset(events, eol, b, k, l) + Width(eol)
<1>. DEFINE n == Len(events)
            B == Bounds(events, eol)
<1>1. b \in 0..n /\ n \in Nat /\ DOMAIN t = 1..Len(t) /\ Len(t) \in Nat
      /\ B[b] + Len(t) <= B[n]
  BY LenProperties DEF Slice
<1>2. \A k \in 0..n : B[k] \in Nat
  BY BoundsAre
<1>3. i \in 1..Len(t) /\ t[i] = nl
  BY <1>1 DEF Newlines
<1>4. PICK p : p = B[b] + i
  OBVIOUS
<1>5. p \in 1..B[n]
  BY <1>1, <1>2, <1>3, <1>4, SMTT(30)
<1>6. PICK k \in 1..n :
        \E l \in 1..(events[k].n + 1), q \in 1..Width(eol) :
          /\ l = events[k].n + 1 => q <= Len(eol)
          /\ p = B[k - 1] + Start(eol, l) + q
  BY <1>5, EveryPlace
<1>7. PICK l \in 1..(events[k].n + 1), q \in 1..Width(eol) :
          /\ l = events[k].n + 1 => q <= Len(eol)
          /\ p = B[k - 1] + Start(eol, l) + q
  BY <1>6
<1>8. PICK e : e = events[k]
  OBVIOUS
<1>9. e \in Event(ms) /\ e.n \in Nat \ {0}
  <2>1. e \in Event(ms)
    BY <1>8, ElementOfSeq
  <2>. QED
    BY <2>1, LengthIs
<1>10. Start(eol, l) \in Nat /\ q \in Nat /\ q > 0
  <2>1. l \in Nat \ {0}
    BY <1>8, <1>9
  <2>2. Start(eol, l) \in Nat
    BY <2>1, StartsAre
  <2>3. Width(eol) \in Nat
    BY EOLEnds
  <2>. QED
    BY <2>2, <2>3
<1>11. Start(eol, l) + q <= EventLength(e, eol) /\ EventLength(e, eol) \in Nat
  <2>1. Start(eol, l) + q \in 1..EventLength(e, eol)
    BY <1>7, <1>8, <1>9, EventTextIs
  <2>2. EventLength(e, eol) \in Nat
    BY <1>9, LengthIs
  <2>. QED
    BY <2>1, <2>2
<1>12. k > b
  <2>1. k - 1 \in 0..n /\ k \in 0..n /\ B[k] = B[k - 1] + EventLength(e, eol)
    BY <1>1, <1>8, BoundsAre
  <2>2. p <= B[k]
    BY <1>2, <1>7, <1>10, <1>11, <2>1, SMTT(30)
  <2>3. SUFFICES ASSUME k <= b PROVE FALSE
    BY <1>1
  <2>4. B[k] <= B[b]
    BY <1>1, <2>1, <2>3, BoundsGrow
  <2>. QED
    BY <1>1, <1>2, <1>3, <1>4, <2>1, <2>2, <2>4
<1>13. k \in (b + 1)..n
  BY <1>1, <1>12
<1>14. i = Offset(events, eol, b, k, l) + q
  <2>1. k - 1 \in 0..n
    BY <1>1
  <2>2. B[b] \in Nat /\ B[k - 1] \in Nat /\ i \in Nat
    BY <1>1, <1>2, <1>3, <2>1
  <2>. QED
    <3>1. PICK x : x = B[b]
      OBVIOUS
    <3>2. PICK y : y = B[k - 1]
      OBVIOUS
    <3>3. PICK z : z = Start(eol, l)
      OBVIOUS
    <3>4. x + i = y + z + q
      BY <1>4, <1>7, <3>1, <3>2, <3>3
    <3>5. x \in Nat /\ y \in Nat /\ z \in Nat /\ q \in Nat /\ i \in Nat
      BY <1>10, <2>2, <3>1, <3>2, <3>3
    <3>6. i = y - x + z + q
      BY <3>4, <3>5, Apart
    <3>. QED
      BY <3>1, <3>2, <3>3, <3>6 DEF Offset
<1>15. t[i] = IF l = events[k].n + 1 THEN eol[q]
              ELSE IF q = 1 THEN events[k].start
              ELSE IF q = 2 THEN Second(events[k], l) ELSE eol[q - 2]
  <2>1. Offset(events, eol, b, k, l) + q <= Len(t)
    BY <1>1, <1>3, <1>14
  <2>. QED
    BY <1>7, <1>13, <1>14, <2>1, SliceHolds
<1>16. CASE l = events[k].n + 1
  <2>1. eol[q] = nl /\ q \in 1..Len(eol)
    BY <1>3, <1>7, <1>10, <1>15, <1>16, EOLEnds
  <2>2. q = Len(eol)
    BY <2>1, EOLOnce
  <2>3. B[k] - B[b] = Offset(events, eol, b, k, events[k].n + 1) + Len(eol)
    BY <1>1, <1>13, OffsetsAre
  <2>. QED
    BY <1>13, <1>14, <1>16, <2>2, <2>3
<1>17. CASE l # events[k].n + 1
  <2>1. l \in 1..events[k].n
    BY <1>8, <1>9, <1>17
  <2>2. q # 1 /\ q # 2
    BY <1>3, <1>8, <1>9, <1>15, <1>17, SecondIs
  <2>3. q - 2 \in 1..Len(eol) /\ eol[q - 2] = nl
    BY <1>3, <1>15, <1>17, <2>2, EOLEnds
  <2>4. q - 2 = Len(eol)
    BY <2>3, EOLOnce
  <2>5. q = Width(eol)
    BY <1>10, <2>4, EOLEnds
  <2>. QED
    BY <1>13, <1>14, <2>1, <2>5
<1>. QED
  BY <1>16, <1>17

\* The blank lines of a slice end its events.
LEMMA SliceBlanks ==
  ASSUME NEW ms, NEW events \in Seq(Event(ms)), NEW eol \in EOLs, NEW t \in Seq(Chars(ms)),
         NEW b, Slice(t, events, eol, b)
  PROVE  /\ Blanks(t) \in SUBSET (1..Len(t))
         /\ \A k \in (b + 1)..Len(events) :
              Bounds(events, eol)[k] - Bounds(events, eol)[b] <= Len(t)
                => Bounds(events, eol)[k] - Bounds(events, eol)[b] \in Blanks(t)
         /\ \A i \in Blanks(t) :
              \E k \in (b + 1)..Len(events) : i = Bounds(events, eol)[k] - Bounds(events, eol)[b]
<1>1. Blanks(t) \in SUBSET (1..Len(t))
  BY LenProperties DEF Blanks, Newlines
<1>2. ASSUME NEW k \in (b + 1)..Len(events),
             Bounds(events, eol)[k] - Bounds(events, eol)[b] <= Len(t)
      PROVE  Bounds(events, eol)[k] - Bounds(events, eol)[b] \in Blanks(t)
  BY <1>2, SliceBlank DEF Blanks
<1>3. ASSUME NEW i \in Blanks(t)
      PROVE  \E k \in (b + 1)..Len(events) : i = Bounds(events, eol)[k] - Bounds(events, eol)[b]
  <2>1. i \in Newlines(t) /\ LineAt(t, i) = <<>>
    BY DEF Blanks
  <2>2. PICK k \in (b + 1)..Len(events) :
           \/ i = Bounds(events, eol)[k] - Bounds(events, eol)[b]
           \/ \E l \in 1..events[k].n : i = Offset(events, eol, b, k, l) + Width(eol)
    BY <2>1, SliceNewlines
  <2>3. ASSUME NEW l \in 1..events[k].n, i = Offset(events, eol, b, k, l) + Width(eol)
        PROVE  FALSE
    <3>1. i <= Len(t)
      BY <1>1
    <3>2. LineAt(t, i) = <<events[k].start, Second(events[k], l)>>
      BY <2>3, <3>1, SliceLine
    <3>3. Len(<<events[k].start, Second(events[k], l)>>) = 2
      OBVIOUS
    <3>. QED
      BY <2>1, <3>2, <3>3
  <2>. QED
    BY <2>2, <2>3
<1>. QED
  BY <1>1, <1>2, <1>3

LEMMA BoundsOrder ==
  ASSUME NEW ms, NEW events \in Seq(Event(ms)), NEW eol \in EOLs,
         NEW j \in 0..Len(events), NEW k \in 0..Len(events)
  PROVE  /\ j < k <=> Bounds(events, eol)[j] < Bounds(events, eol)[k]
         /\ j <= k <=> Bounds(events, eol)[j] <= Bounds(events, eol)[k]
         /\ Bounds(events, eol)[j] \in Nat /\ Bounds(events, eol)[k] \in Nat
<1>. DEFINE n == Len(events)
            B == Bounds(events, eol)
<1>1. n \in Nat
  BY LenProperties
<1>2. \A i \in 0..n : B[i] \in Nat
  BY BoundsAre
<1>3. ASSUME NEW u \in 0..n, NEW v \in 0..n, u < v PROVE B[u] < B[v]
  <2>1. v - 1 \in 0..n /\ v \in 1..n /\ u <= v - 1
    BY <1>1, <1>3
  <2>2. B[u] <= B[v - 1]
    BY <2>1, BoundsGrow
  <2>3. B[v - 1] < B[v]
    BY <2>1, BoundsAre
  <2>. QED
    BY <1>2, <2>1, <2>2, <2>3
<1>4. j < k => B[j] < B[k]
  BY <1>3
<1>5. k < j => B[k] < B[j]
  BY <1>3
<1>6. B[j] \in Nat /\ B[k] \in Nat /\ j \in Nat /\ k \in Nat
  BY <1>1, <1>2
<1>7. j = k => B[j] = B[k]
  OBVIOUS
<1>. QED
  BY <1>4, <1>5, <1>6, <1>7

\* A complete event of the slice that holds a message parses to it.
LEMMA SliceFrame ==
  ASSUME NEW ms, NEW events \in Seq(Event(ms)), NEW eol \in EOLs, NEW t \in Seq(Chars(ms)),
         NEW b, Slice(t, events, eol, b), NEW k \in (b + 1)..Len(events),
         Bounds(events, eol)[k] - Bounds(events, eol)[b] <= Len(t), events[k].of # <<>>
  PROVE  /\ Bounds(events, eol)[k] - Bounds(events, eol)[b] \in DOMAIN Frames(t)
         /\ TryParse(Frames(t)[Bounds(events, eol)[k] - Bounds(events, eol)[b]]) = events[k].of
<1>. DEFINE n == Len(events)
            B == Bounds(events, eol)
            N == events[k].n
<1>1. b \in 0..n /\ n \in Nat /\ Len(t) \in Nat
  BY LenProperties DEF Slice
<1>2. events[k] \in Event(ms) /\ N \in Nat \ {0} /\ k \in 1..n
  BY <1>1, OffsetsAre
<1>3. PICK x : x = B[k] - B[b]
  OBVIOUS
<1>4. PICK y : y = B[k - 1] - B[b]
  OBVIOUS
<1>5. k - 1 \in 0..n /\ k \in 0..n /\ b \in 0..n /\ b <= k - 1 /\ k - 1 < k
  BY <1>1
<1>6. B[k - 1] \in Nat /\ B[k] \in Nat /\ B[b] \in Nat /\ B[b] <= B[k - 1] /\ B[k - 1] < B[k]
  BY <1>5, BoundsOrder
<1>7. x \in Nat /\ y \in Nat /\ y < x /\ x <= Len(t)
  BY <1>3, <1>4, <1>6, SMTT(30)
<1>8. x \in Blanks(t)
  BY <1>3, SliceBlanks
<1>9. y = 0 \/ y \in Blanks(t)
  <2>1. CASE k - 1 = b
    BY <1>4, <1>6, <2>1
  <2>2. CASE k - 1 # b
    <3>1. PICK j : j = k - 1
      OBVIOUS
    <3>2. j \in (b + 1)..n /\ y = B[j] - B[b] /\ y <= Len(t)
      BY <1>1, <1>4, <1>5, <1>7, <2>2, <3>1
    <3>. QED
      BY <3>2, SliceBlanks
  <2>. QED
    BY <2>1, <2>2
<1>10. ASSUME NEW j \in (b + 1)..n
       PROVE  /\ B[j] - B[b] < x => B[j] - B[b] <= y
              /\ y < B[j] - B[b] => j >= k
              /\ B[j - 1] - B[b] < x => j <= k
  <2>1. j \in 0..n /\ j - 1 \in 0..n
    BY <1>1
  <2>2. B[j] \in Nat /\ B[j - 1] \in Nat
    BY <2>1, BoundsOrder
  <2>3. B[j] < B[k] => j < k
    BY <1>5, <2>1, BoundsOrder
  <2>4. j <= k - 1 => B[j] <= B[k - 1]
    BY <1>5, <2>1, BoundsOrder
  <2>5. B[k - 1] < B[j] => k - 1 < j
    BY <1>5, <2>1, BoundsOrder
  <2>6. B[j - 1] < B[k] => j - 1 < k
    BY <1>5, <2>1, BoundsOrder
  <2>7. j \in Nat /\ k \in Nat
    BY <1>1
  <2>8. PICK u : u = B[j]
    OBVIOUS
  <2>9. PICK v : v = B[j - 1]
    OBVIOUS
  <2>10. PICK z : z = B[b]
    OBVIOUS
  <2>11. u \in Nat /\ v \in Nat /\ z \in Nat /\ x \in Nat /\ y \in Nat
    BY <1>6, <1>7, <2>2, <2>8, <2>9, <2>10
  <2>12. u - z < x => j < k
    <3>1. u - z < x => u < B[k]
      BY <1>3, <1>6, <2>10, <2>11, SMTT(30)
    <3>. QED
      BY <2>3, <2>8, <3>1
  <2>13. j <= k - 1 => u - z <= y
    <3>1. u <= B[k - 1] => u - z <= y
      BY <1>4, <1>6, <2>10, <2>11
    <3>. QED
      BY <2>4, <2>8, <3>1
  <2>14. y < u - z => k - 1 < j
    <3>1. y < u - z => B[k - 1] < u
      BY <1>4, <1>6, <2>10, <2>11, SMTT(30)
    <3>. QED
      BY <2>5, <2>8, <3>1
  <2>15. v - z < x => j - 1 < k
    <3>1. v - z < x => v < B[k]
      BY <1>3, <1>6, <2>10, <2>11, SMTT(30)
    <3>. QED
      BY <2>6, <2>9, <3>1
  <2>16. /\ u - z < x => u - z <= y
         /\ y < u - z => j >= k
         /\ v - z < x => j <= k
    BY <2>7, <2>12, <2>13, <2>14, <2>15
  <2>. QED
    BY <2>8, <2>9, <2>10, <2>16
<1>11. Behind(Blanks(t), x) = y
  <2>1. ASSUME NEW z \in Blanks(t), z < x PROVE z <= y
    <3>1. PICK j \in (b + 1)..n : z = B[j] - B[b]
      BY SliceBlanks
    <3>. QED
      BY <1>10, <2>1, <3>1
  <2>2. Blanks(t) \in SUBSET (1..Len(t))
    BY SliceBlanks
  <2>. QED
    BY <1>1, <1>7, <1>9, <2>1, <2>2, BehindIs
<1>. DEFINE L == {i \in Newlines(t) : y < i /\ i < x}
            at == [l \in 1..N |-> Offset(events, eol, b, k, l) + Width(eol)]
<1>12. x \in DOMAIN Frames(t) /\ Frames(t)[x] = FramePayload(t, L)
  BY <1>8, <1>11 DEF Frames
<1>13. Width(eol) \in Nat /\ Width(eol) > 0 /\ Len(eol) \in Nat /\ Len(eol) > 0
  BY EOLEnds
<1>14. ASSUME NEW l \in 1..N
       PROVE  /\ at[l] \in L
              /\ LineAt(t, at[l]) = <<data, Piece(events[k].of, l, N)>>
  <2>1. PICK i : i = Offset(events, eol, b, k, l)
    OBVIOUS
  <2>2. l \in Nat \ {0} /\ N + 1 \in Nat \ {0} /\ l < N + 1 /\ 1 \in Nat \ {0}
    BY <1>2
  <2>3. i \in Nat /\ i + Width(eol) <= Offset(events, eol, b, k, N + 1)
        /\ Offset(events, eol, b, k, N + 1) \in Nat
    BY <1>1, <2>1, <2>2, OffsetsAre
  <2>4. x = Offset(events, eol, b, k, N + 1) + Len(eol)
    BY <1>1, <1>3, OffsetsAre
  <2>5. y <= i
    <3>1. y = Offset(events, eol, b, k, 1)
      BY <1>1, <1>4, OffsetsAre
    <3>2. l # 1 => Offset(events, eol, b, k, 1) + Width(eol) <= i
      <4>1. l # 1 => 1 < l
        BY <2>2
      <4>. QED
        BY <1>1, <2>1, <2>2, <4>1, OffsetsAre
    <3>. QED
      BY <1>7, <1>13, <2>1, <2>3, <3>1, <3>2
  <2>6. y < i + Width(eol) /\ i + Width(eol) < x /\ i + Width(eol) <= Len(t)
    BY <1>1, <1>7, <1>13, <2>3, <2>4, <2>5
  <2>7. i + Width(eol) \in Newlines(t)
        /\ LineAt(t, i + Width(eol)) = <<events[k].start, Second(events[k], l)>>
    BY <2>1, <2>6, SliceLine
  <2>8. events[k].start = data /\ Second(events[k], l) = Piece(events[k].of, l, N)
    BY <1>2 DEF Event, Second
  <2>9. at[l] = i + Width(eol)
    BY <2>1
  <2>. QED
    BY <2>6, <2>7, <2>8, <2>9
<1>15. ASSUME NEW l \in 1..N, NEW m \in 1..N, l < m PROVE at[l] < at[m]
  <2>1. l \in Nat \ {0} /\ m \in Nat \ {0}
    BY <1>2
  <2>2. Offset(events, eol, b, k, l) \in Nat /\ Offset(events, eol, b, k, m) \in Nat
    BY <1>1, <2>1, OffsetsAre
  <2>3. Offset(events, eol, b, k, l) + Width(eol) <= Offset(events, eol, b, k, m)
    BY <1>1, <1>15, <2>1, OffsetsAre
  <2>. QED
    BY <1>13, <2>2, <2>3
<1>16. ASSUME NEW i \in L PROVE \E l \in 1..N : i = at[l]
  <2>1. i \in Newlines(t) /\ y < i /\ i < x
    OBVIOUS
  <2>2. PICK j \in (b + 1)..n :
           \/ i = B[j] - B[b]
           \/ \E l \in 1..events[j].n : i = Offset(events, eol, b, j, l) + Width(eol)
    BY <2>1, SliceNewlines
  <2>3. i # B[j] - B[b]
    <3>1. SUFFICES ASSUME i = B[j] - B[b] PROVE FALSE
      OBVIOUS
    <3>2. i <= y
      BY <1>10, <2>1, <3>1
    <3>3. i \in Nat
      BY LenProperties DEF Newlines
    <3>. QED
      BY <1>7, <2>1, <3>2, <3>3
  <2>4. PICK l \in 1..events[j].n : i = Offset(events, eol, b, j, l) + Width(eol)
    BY <2>2, <2>3
  <2>5. j = k
    <3>1. events[j].n \in Nat \ {0}
      BY <1>1, OffsetsAre
    <3>2. l \in Nat \ {0} /\ l + 1 \in Nat \ {0} /\ events[j].n + 1 \in Nat \ {0} /\ 1 \in Nat \ {0}
          /\ (l # events[j].n => l + 1 < events[j].n + 1) /\ (l # 1 => 1 < l)
      BY <3>1, SMTT(30)
    <3>3. Offset(events, eol, b, j, l) \in Nat /\ Offset(events, eol, b, j, 1) \in Nat
          /\ Offset(events, eol, b, j, events[j].n + 1) \in Nat
      BY <1>1, <3>2, OffsetsAre
    <3>4. l # 1 => Offset(events, eol, b, j, 1) + Width(eol) <= Offset(events, eol, b, j, l)
      BY <1>1, <3>2, OffsetsAre
    <3>5. Offset(events, eol, b, j, l) + Width(eol) <= Offset(events, eol, b, j, events[j].n + 1)
      <4>1. l < events[j].n + 1
        BY <3>1
      <4>. QED
        BY <1>1, <3>2, <4>1, OffsetsAre
    <3>6. B[j] - B[b] = Offset(events, eol, b, j, events[j].n + 1) + Len(eol)
          /\ B[j - 1] - B[b] = Offset(events, eol, b, j, 1)
      BY <1>1, OffsetsAre
    <3>7. Offset(events, eol, b, j, 1) <= Offset(events, eol, b, j, l)
      BY <1>13, <3>3, <3>4
    <3>8. B[j - 1] - B[b] < x
      BY <1>7, <1>13, <2>1, <2>4, <3>3, <3>6, <3>7, SMTT(30)
    <3>9. y < B[j] - B[b]
      BY <1>7, <1>13, <2>1, <2>4, <3>3, <3>5, <3>6, SMTT(30)
    <3>10. j \in Nat /\ k \in Nat
      BY <1>1
    <3>. QED
      BY <1>10, <3>8, <3>9, <3>10
  <2>. QED
    BY <2>4, <2>5
<1>17. at \in [1..N -> L] /\ L \in SUBSET Nat
  <2>1. Newlines(t) \subseteq Nat
    BY LenProperties DEF Newlines
  <2>. QED
    BY <1>14, <2>1
<1>. HIDE DEF at, L
<1>18. PICK h : h = N
  OBVIOUS
<1>19. PICK message : message = events[k].of
  OBVIOUS
<1>20. TryParse(FramePayload(t, L)) = message
  <2>1. h \in Nat \ {0} /\ at \in [1..h -> L] /\ L \in SUBSET Nat
    BY <1>2, <1>17, <1>18
  <2>2. \A l, m \in 1..h : l < m => at[l] < at[m]
    BY <1>15, <1>18
  <2>3. \A l \in 1..h : LineAt(t, at[l]) = <<data, Piece(message, l, h)>>
    BY <1>14, <1>18, <1>19
  <2>4. \A i \in L : (\E l \in 1..h : i = at[l]) \/ LineAt(t, i) = <<>>
    BY <1>16, <1>18
  <2>5. Lays(t, L, at, message, h)
    BY <2>1, <2>2, <2>3, <2>4 DEF Lays
  <2>. QED
    BY <2>5, PayloadIs
<1>. QED
  BY <1>3, <1>12, <1>19, <1>20

\* A complete event of the slice whose message has the id is matched.
LEMMA SliceMatch ==
  ASSUME NEW ms, NEW events \in Seq(Event(ms)), NEW eol \in EOLs, NEW t \in Seq(Chars(ms)),
         NEW b, Slice(t, events, eol, b), NEW k \in (b + 1)..Len(events),
         Bounds(events, eol)[k] - Bounds(events, eol)[b] <= Len(t),
         events[k].of # <<>>, NEW id, events[k].of[1] = id
  PROVE  MatchFrameById(Frames(t), id) # <<>>
<1>. DEFINE frames == Frames(t)
            hits == {i \in DOMAIN frames : TryParse(frames[i]) # <<>> /\ TryParse(frames[i])[1] = id}
<1>1. PICK x : x = Bounds(events, eol)[k] - Bounds(events, eol)[b]
  OBVIOUS
<1>2. x \in DOMAIN frames /\ TryParse(frames[x]) = events[k].of
  BY <1>1, SliceFrame
<1>3. x \in hits
  BY <1>2
<1>4. hits \in SUBSET Nat
  <2>1. DOMAIN frames \in SUBSET Nat
    BY FramesAreOf
  <2>. QED
    BY <2>1
<1>5. Min(hits) \in hits
  BY <1>3, <1>4, MinIsLeast
<1>6. MatchFrameById(frames, id) = TryParse(frames[Min(hits)])
  BY <1>3 DEF MatchFrameById
<1>. QED
  BY <1>5, <1>6

LEMMA CutIs ==
  ASSUME NEW S, NEW t \in Seq(S), NEW a \in Nat, NEW z \in Nat, a <= z, z <= Len(t)
  PROVE  /\ SubSeq(t, a + 1, z) \in Seq(S) /\ Len(SubSeq(t, a + 1, z)) = z - a
         /\ \A i \in 1..(z - a) : SubSeq(t, a + 1, z)[i] = t[a + i]
<1>1. \A i \in (a + 1)..z : t[i] \in S
  <2>1. Len(t) \in Nat
    BY LenProperties
  <2>2. \A i \in (a + 1)..z : i \in 1..Len(t)
    BY <2>1
  <2>. QED
    BY <2>2, ElementOfSeq
<1>2. PICK s : s = SubSeq(t, a + 1, z)
  OBVIOUS
<1>3. s \in Seq(S) /\ Len(s) = (IF a + 1 <= z THEN z - (a + 1) + 1 ELSE 0)
      /\ \A i \in 1..(z - (a + 1) + 1) : s[i] = t[(a + 1) + i - 1]
  BY <1>1, <1>2, SubSeqProperties
<1>4. Len(s) = z - a
  BY <1>3
<1>5. ASSUME NEW i \in 1..(z - a) PROVE s[i] = t[a + i]
  <2>1. i \in 1..(z - (a + 1) + 1) /\ (a + 1) + i - 1 = a + i
    OBVIOUS
  <2>. QED
    BY <1>3, <2>1
<1>. QED
  BY <1>2, <1>3, <1>4, <1>5

\* A slice with the next chunk is one.
LEMMA SliceGrows ==
  ASSUME NEW ms, NEW events \in Seq(Event(ms)), NEW eol \in EOLs, NEW t \in Seq(Chars(ms)),
         NEW b, Slice(t, events, eol, b), NEW text \in Seq(Chars(ms)), NEW r \in Nat,
         Bounds(events, eol)[b] + Len(t) = r,
         NEW upto \in Nat, r < upto, upto <= Len(text), Slice(text, events, eol, 0)
  PROVE  LET u == t \o SubSeq(text, r + 1, upto) IN
         /\ u \in Seq(Chars(ms)) /\ Slice(u, events, eol, b)
         /\ Bounds(events, eol)[b] + Len(u) = upto
<1>. DEFINE B == Bounds(events, eol)
            F == Encoded(events, eol)
<1>1. PICK s : s = SubSeq(text, r + 1, upto)
  OBVIOUS
<1>2. PICK m : m = Len(t)
  OBVIOUS
<1>3. m \in Nat /\ Len(text) \in Nat
  BY <1>2, LenProperties
<1>4. s \in Seq(Chars(ms)) /\ Len(s) = upto - r /\ \A i \in 1..(upto - r) : s[i] = text[r + i]
  BY <1>1, CutIs
<1>5. PICK u : u = t \o s
  OBVIOUS
<1>6. u \in Seq(Chars(ms)) /\ Len(u) = m + (upto - r)
      /\ \A i \in 1..(m + (upto - r)) : u[i] = IF i <= m THEN t[i] ELSE s[i - m]
  <2>0. s \in Seq(Chars(ms))
    BY <1>4
  <2>1. u \in Seq(Chars(ms)) /\ Len(u) = Len(t) + Len(s)
        /\ \A i \in 1..(Len(t) + Len(s)) : u[i] = IF i <= Len(t) THEN t[i] ELSE s[i - Len(t)]
    <3>1. /\ t \o s \in Seq(Chars(ms)) /\ Len(t \o s) = Len(t) + Len(s)
          /\ \A i \in 1..(Len(t) + Len(s)) :
               (t \o s)[i] = IF i <= Len(t) THEN t[i] ELSE s[i - Len(t)]
      BY <2>0, ConcatProperties, Zenon
    <3>. QED
      BY <1>5, <3>1
  <2>2. Len(t) = m /\ Len(s) = upto - r
    BY <1>2, <1>4
  <2>3. Len(t) + Len(s) = m + (upto - r)
    BY <2>2
  <2>4. ASSUME NEW i \in 1..(m + (upto - r)) PROVE u[i] = IF i <= m THEN t[i] ELSE s[i - m]
    <3>1. i \in 1..(Len(t) + Len(s))
      BY <2>3
    <3>2. u[i] = IF i <= Len(t) THEN t[i] ELSE s[i - Len(t)]
      BY <2>1, <3>1
    <3>. QED
      BY <2>2, <3>2
  <2>. QED
    BY <2>1, <2>3, <2>4
<1>7. B[0] = 0 /\ b \in 0..Len(events) /\ Len(events) \in Nat /\ \A i \in 0..Len(events) : B[i] \in Nat
  <2>1. B \in [0..Len(events) -> Nat] /\ B[0] = 0
    BY BoundsAre, Zenon
  <2>2. Len(events) \in Nat
    BY LenProperties
  <2>3. b \in 0..Len(events)
    BY DEF Slice
  <2> HIDE DEF B
  <2>. QED
    BY <2>1, <2>2, <2>3
<1>8. PICK x : x = B[b]
  OBVIOUS
<1>9. x \in Nat /\ x + m = r
  BY <1>2, <1>7, <1>8
<1>10. m + (upto - r) = upto - x
  BY <1>3, <1>9
<1>11. ASSUME NEW i \in 1..Len(text) PROVE text[i] = F[i]
  <2>1. text[i] = F[B[0] + i]
    BY DEF Slice
  <2>2. B[0] + i = i
    BY <1>3, <1>7
  <2>. QED
    BY <2>1, <2>2
<1>12. ASSUME NEW i \in 1..(upto - x) PROVE u[i] = F[x + i]
  <2>1. i \in Nat /\ i > 0 /\ x + i <= upto
    BY <1>9
  <2>2. u[i] = IF i <= m THEN t[i] ELSE s[i - m]
    BY <1>6, <1>10
  <2>3. CASE i <= m
    <3>1. i \in 1..m
      BY <1>3, <2>1, <2>3
    <3>2. t[i] = F[x + i]
      BY <1>2, <1>8, <3>1 DEF Slice
    <3>. QED
      BY <2>2, <2>3, <3>2
  <2>4. CASE ~(i <= m)
    <3>1. PICK q : q = i - m
      OBVIOUS
    <3>2. q \in 1..(upto - r) /\ r + q = x + i
      BY <1>3, <1>9, <2>1, <2>4, <3>1
    <3>3. s[q] = text[x + i]
      BY <1>4, <3>2
    <3>4. x + i \in 1..Len(text)
      BY <1>3, <1>9, <2>1
    <3>. QED
      BY <1>11, <2>2, <2>4, <3>1, <3>3, <3>4
  <2>. QED
    BY <2>3, <2>4
<1>13. Len(u) = upto - x /\ x + Len(u) = upto
  BY <1>6, <1>9, <1>10
<1>14. x + Len(u) <= B[Len(events)]
  <2>1. B[0] + Len(text) <= B[Len(events)]
    BY DEF Slice
  <2>2. Len(events) \in 0..Len(events) /\ B[Len(events)] \in Nat
    BY <1>7
  <2>. QED
    BY <1>3, <1>7, <1>13, <2>1, <2>2
<1>15. Slice(u, events, eol, b)
  BY <1>7, <1>8, <1>12, <1>13, <1>14 DEF Slice
<1>. QED
  BY <1>1, <1>5, <1>6, <1>8, <1>13, <1>15

\* The rest is the slice behind the last complete event.
LEMMA SliceRest ==
  ASSUME NEW ms, NEW events \in Seq(Event(ms)), NEW eol \in EOLs, NEW t \in Seq(Chars(ms)),
         NEW b, Slice(t, events, eol, b), NEW rest, rest = ParseSseFrames(t).rest
  PROVE  \E c \in b..Len(events) :
           /\ rest \in Seq(Chars(ms)) /\ Slice(rest, events, eol, c)
           /\ Bounds(events, eol)[c] + Len(rest) = Bounds(events, eol)[b] + Len(t)
           /\ \A k \in (b + 1)..c : Bounds(events, eol)[k] - Bounds(events, eol)[b] <= Len(t)
           /\ c < Len(events) => Bounds(events, eol)[c] + Len(rest) < Bounds(events, eol)[c + 1]
<1>. DEFINE n == Len(events)
            B == Bounds(events, eol)
            F == Encoded(events, eol)
<1>0. PICK m : m = Len(t)
  OBVIOUS
<1>1. b \in 0..n /\ n \in Nat /\ m \in Nat /\ DOMAIN t = 1..m /\ B[b] + m <= B[n]
  BY <1>0, LenProperties DEF Slice
<1>2. \A i \in 0..n : B[i] \in Nat
  BY BoundsAre
<1>3. PICK r : r = Behind(Blanks(t), m + 1)
  OBVIOUS
<1>4. r \in Nat /\ r < m + 1 /\ (r = 0 \/ r \in Blanks(t))
      /\ \A i \in Blanks(t) : i < m + 1 => i <= r
  <2>1. Blanks(t) \in SUBSET (1..m) /\ m + 1 \in Nat \ {0}
    BY <1>0, <1>1, SliceBlanks
  <2>. QED
    BY <1>1, <1>3, <2>1, BehindIn
<1>5. PICK c \in b..n : r = B[c] - B[b]
  <2>1. CASE r = 0
    <3>1. b \in b..n /\ B[b] - B[b] = 0
      BY <1>1, <1>2
    <3>. QED
      BY <2>1, <3>1
  <2>2. CASE r \in Blanks(t)
    <3>1. PICK k \in (b + 1)..n : r = B[k] - B[b]
      BY <2>2, SliceBlanks
    <3>2. k \in b..n
      BY <1>1
    <3>. QED
      BY <3>1, <3>2
  <2>. QED
    BY <1>4, <2>1, <2>2
<1>6. c \in 0..n /\ c \in Nat /\ b \in Nat /\ B[c] \in Nat /\ B[b] \in Nat
  BY <1>1, <1>2
<1>7. PICK x : x = B[b]
  OBVIOUS
<1>8. PICK y : y = B[c]
  OBVIOUS
<1>9. x \in Nat /\ y \in Nat /\ y = x + r /\ r <= m
  BY <1>1, <1>4, <1>5, <1>6, <1>7, <1>8
<1>10. rest = SubSeq(t, r + 1, m)
  BY <1>0, <1>3 DEF ParseSseFrames
<1>11. rest \in Seq(Chars(ms)) /\ Len(rest) = m - r /\ \A i \in 1..(m - r) : rest[i] = t[r + i]
  BY <1>0, <1>1, <1>4, <1>9, <1>10, CutIs
<1>12. y + Len(rest) = x + m
  BY <1>1, <1>4, <1>9, <1>11
<1>13. Slice(rest, events, eol, c)
  <2>1. ASSUME NEW i \in 1..(m - r) PROVE rest[i] = F[y + i]
    <3>1. PICK q : q = r + i
      OBVIOUS
    <3>2. q \in 1..m /\ x + q = y + i
      BY <1>1, <1>4, <1>9, <3>1
    <3>3. t[q] = F[x + q]
      BY <1>0, <1>7, <3>2 DEF Slice
    <3>. QED
      BY <1>11, <3>1, <3>2, <3>3
  <2>. QED
    BY <1>1, <1>6, <1>7, <1>8, <1>11, <1>12, <2>1 DEF Slice
<1>14. ASSUME NEW k \in (b + 1)..c PROVE B[k] - B[b] <= m
  <2>1. k \in 0..n /\ k <= c
    BY <1>1, <1>6
  <2>2. B[k] <= B[c] /\ B[k] \in Nat
    BY <1>6, <2>1, BoundsOrder
  <2>3. PICK z : z = B[k]
    OBVIOUS
  <2>4. z \in Nat /\ z <= y
    BY <1>8, <2>2, <2>3
  <2>5. z - x <= m
    BY <1>1, <1>4, <1>9, <2>4
  <2>. QED
    BY <1>7, <2>3, <2>5
<1>15. ASSUME c < n PROVE y + Len(rest) < B[c + 1]
  <2>1. PICK k : k = c + 1
    OBVIOUS
  <2>2. k \in (b + 1)..n /\ k \in 0..n /\ c < k
    BY <1>1, <1>6, <1>15, <2>1
  <2>3. B[c] < B[k] /\ B[k] \in Nat
    BY <1>6, <2>2, BoundsOrder
  <2>4. PICK z : z = B[k]
    OBVIOUS
  <2>5. ~(z - x <= m)
    <3>1. SUFFICES ASSUME z - x <= m PROVE FALSE
      OBVIOUS
    <3>2. z - x \in Blanks(t)
      BY <1>0, <1>7, <2>2, <2>4, <3>1, SliceBlanks
    <3>3. z - x < m + 1
      BY <1>1, <1>8, <1>9, <2>3, <2>4, <3>1
    <3>4. z - x <= r
      BY <1>4, <3>2, <3>3
    <3>. QED
      BY <1>4, <1>8, <1>9, <2>3, <2>4, <3>4
  <2>. QED
    BY <1>1, <1>9, <1>12, <2>1, <2>3, <2>4, <2>5
<1>. QED
  BY <1>0, <1>5, <1>7, <1>8, <1>11, <1>12, <1>13, <1>14, <1>15

\* The event at the end of a stream parses to its message as soon as all its
\* characters but those of its last two line ends are there.
LEMMA SliceFlush ==
  ASSUME NEW ms, NEW events \in Seq(Event(ms)), NEW eol \in EOLs, NEW t \in Seq(Chars(ms)),
         NEW b, Slice(t, events, eol, b), NEW k \in 1..Len(events), k = b + 1,
         events[k].of # <<>>,
         Bounds(events, eol)[b] + Len(t) < Bounds(events, eol)[k],
         Bounds(events, eol)[b] + Len(t) >= Bounds(events, eol)[k] - 2 * Len(eol)
  PROVE  TryParse(FlushSseFrame(t)) = events[k].of
<1>. DEFINE n == Len(events)
            B == Bounds(events, eol)
            O(l) == Offset(events, eol, b, k, l)
<1>1. PICK m : m = Len(t)
  OBVIOUS
<1>2. b \in 0..n /\ n \in Nat /\ m \in Nat /\ DOMAIN t = 1..m /\ k \in (b + 1)..n
  BY <1>1, LenProperties DEF Slice
<1>3. PICK N : N = events[k].n
  OBVIOUS
<1>4. events[k] \in Event(ms) /\ N \in Nat \ {0} /\ N + 1 \in Nat \ {0} /\ 1 \in Nat \ {0}
  <2>1. events[k] \in Event(ms) /\ events[k].n \in Nat \ {0}
    BY <1>2, OffsetsAre
  <2>. QED
    BY <1>3, <2>1
<1>5. PICK a : a = Append(t, nl)
  OBVIOUS
<1>6. a \in Seq(Chars(ms)) /\ DOMAIN a = 1..(m + 1) /\ a[m + 1] = nl /\ \A i \in 1..m : a[i] = t[i]
  <2>1. nl \in Chars(ms)
    BY DEF Chars
  <2>. QED
    BY <1>1, <1>2, <1>5, <2>1, LenProperties
<1>7. PICK w : w = Len(eol)
  OBVIOUS
<1>8. w \in Nat /\ w > 0 /\ Width(eol) = w + 2 /\ (w = 1 \/ (w = 2 /\ eol[1] = cr))
  BY <1>7, EOLsAre, EOLEnds
<1>9. PICK j : j = O(N)
  OBVIOUS
<1>10. j \in Nat /\ O(N + 1) = j + w + 2 /\ O(N + 1) \in Nat
  <2>1. Offset(events, eol, b, k, N) \in Nat
    BY <1>2, <1>4, OffsetsAre
  <2>2. Offset(events, eol, b, k, N + 1) = Offset(events, eol, b, k, N) + Width(eol)
    BY <1>2, <1>4, OffsetsAre
  <2>. QED
    BY <1>8, <1>9, <2>1, <2>2
<1>11. j + 2 <= m /\ m < j + 2 + w + w
  <2>1. PICK x : x = B[b]
    OBVIOUS
  <2>2. PICK z : z = B[k]
    OBVIOUS
  <2>3. x \in Nat /\ z \in Nat /\ z - x = O(N + 1) + w
    <3>1. B[b] \in Nat /\ B[k] \in Nat
      BY <1>2, OffsetsAre
    <3>2. Bounds(events, eol)[k] - Bounds(events, eol)[b]
            = Offset(events, eol, b, k, events[k].n + 1) + Len(eol)
      BY <1>2, OffsetEnds
    <3>. QED
      BY <1>3, <1>7, <2>1, <2>2, <3>1, <3>2
  <2>4. x + m < z /\ x + m >= z - 2 * w
    BY <1>1, <1>7, <2>1, <2>2
  <2>. QED
    BY <1>2, <1>8, <1>10, <2>3, <2>4
<1>12. ASSUME NEW l \in 1..N
       PROVE  O(l) \in Nat /\ O(l) <= j /\ (l # N => O(l) + w + 2 <= j)
  <2>1. l \in Nat \ {0} /\ (l # N => l < N)
    BY <1>4
  <2>2. O(l) \in Nat
    BY <1>2, <2>1, OffsetsAre
  <2>3. l # N => O(l) + Width(eol) <= j
    BY <1>2, <1>4, <1>9, <2>1, OffsetsAre
  <2>4. l = N => O(l) = j
    BY <1>9
  <2>. QED
    BY <1>8, <1>10, <2>2, <2>3, <2>4, SMTT(30)
<1>. DEFINE EndOf(l) == IF l = N /\ m < j + w + 2 THEN m + 1 ELSE O(l) + w + 2
\* Each line of the message is there, up to its line end.
<1>13. ASSUME NEW l \in 1..N
       PROVE  /\ EndOf(l) \in 1..(m + 1) /\ EndOf(l) \in Newlines(a)
              /\ LineAt(a, EndOf(l)) = <<data, Piece(events[k].of, l, N)>>
  <2>1. PICK h : h = O(l)
    OBVIOUS
  <2>2. PICK i : i = EndOf(l)
    OBVIOUS
  <2>3. h \in Nat /\ h <= j /\ (l # N => h + w + 2 <= j) /\ (l = N => h = j)
    BY <1>9, <1>12, <2>1
  <2>4. i \in 1..(m + 1) /\ i <= h + w + 2 /\ i > h + 2 /\ (i = h + w + 2 \/ i = m + 1)
    <3>1. CASE l = N /\ m < j + w + 2
      <4>1. i = m + 1 /\ h = j
        BY <2>2, <2>3, <3>1
      <4>. QED
        BY <1>2, <1>8, <1>10, <1>11, <3>1, <4>1
    <3>2. CASE ~(l = N /\ m < j + w + 2)
      <4>1. i = h + w + 2
        BY <2>1, <2>2, <3>2
      <4>3. w \in Nat /\ w > 0 /\ m \in Nat /\ h \in Nat /\ j \in Nat
        BY <1>2, <1>8, <1>10, <2>3
      <4>2. h + w + 2 <= m
        <5>1. CASE l # N
          <6>1. h + w + 2 <= j
            BY <2>3, <5>1
          <6>. QED
            BY <1>11, <4>3, <6>1
        <5>2. CASE l = N
          <6>1. h = j /\ ~(m < j + w + 2)
            BY <2>3, <3>2, <5>2
          <6>. QED
            BY <4>3, <6>1
        <5>. QED
          BY <5>1, <5>2
      <4>4. i \in Nat /\ i > h + 2 /\ i <= m
        BY <4>1, <4>2, <4>3
      <4>5. i \in 1..(m + 1)
        BY <4>3, <4>4
      <4>. QED
        BY <4>1, <4>4, <4>5
    <3>. QED
      BY <3>1, <3>2
  <2>5. ASSUME NEW q \in 1..(w + 2), h + q <= m
        PROVE  a[h + q] = IF q = 1 THEN data
                          ELSE IF q = 2 THEN Piece(events[k].of, l, N) ELSE eol[q - 2]
    <3>1. q \in 1..Width(eol) /\ l \in 1..(events[k].n + 1) /\ l # events[k].n + 1
      BY <1>3, <1>4, <1>8
    <3>2. O(l) + q <= Len(t)
      BY <1>1, <2>1, <2>5
    <3>3. t[O(l) + q] = IF q = 1 THEN events[k].start
                        ELSE IF q = 2 THEN Second(events[k], l) ELSE eol[q - 2]
      BY <1>2, <3>1, <3>2, SliceHolds
    <3>4. h + q \in 1..m
      BY <1>2, <1>8, <2>3, <2>5, SMTT(30)
    <3>5. a[h + q] = t[O(l) + q]
      BY <1>6, <2>1, <3>4
    <3>6. events[k].start = data /\ Second(events[k], l) = Piece(events[k].of, l, N)
      BY <1>3, <1>4 DEF Event, Second
    <3>. QED
      BY <3>3, <3>5, <3>6
  <2>6. h + 2 <= m
    BY <1>2, <1>8, <1>10, <1>11, <2>3
  <2>7. a[h + 1] = data /\ a[h + 2] = Piece(events[k].of, l, N)
    <3>1. 1 \in 1..(w + 2) /\ 2 \in 1..(w + 2) /\ h + 1 <= m
      BY <1>2, <1>8, <2>3, <2>6
    <3>2. a[h + 1] = data
      BY <2>5, <3>1, SMTT(30)
    <3>3. a[h + 2] = Piece(events[k].of, l, N)
      BY <2>5, <2>6, <3>1, SMTT(30)
    <3>. QED
      BY <3>2, <3>3
  <2>8. a[i] = nl
    <3>1. CASE i = m + 1
      BY <1>6, <3>1
    <3>2. CASE i = h + w + 2 /\ i # m + 1
      <4>1. PICK q : q = w + 2
        OBVIOUS
      <4>2. q \in 1..(w + 2) /\ h + q <= m /\ q - 2 = w /\ q # 1 /\ q # 2 /\ i = h + q
        BY <1>2, <1>8, <2>3, <2>4, <3>2, <4>1
      <4>3. a[i] = eol[w]
        BY <2>5, <4>2
      <4>. QED
        BY <1>7, <4>3, EOLEnds
    <3>. QED
      BY <2>4, <3>1, <3>2
  <2>9. i = h + 3 \/ (i = h + 4 /\ a[h + 3] = cr)
    <3>1. CASE i = h + 3
      BY <3>1
    <3>2. CASE i # h + 3
      <4>1. w = 2 /\ eol[1] = cr /\ i = h + 4 /\ h + 3 <= m
        BY <1>2, <1>8, <2>3, <2>4, <3>2
      <4>2. 3 \in 1..(w + 2)
        BY <4>1
      <4>3. a[h + 3] = eol[3 - 2]
        BY <2>5, <4>1, <4>2
      <4>. QED
        BY <4>1, <4>3
    <3>. QED
      BY <3>1, <3>2
  <2>10. h = 0 \/ (h \in DOMAIN a /\ a[h] = nl)
    <3>1. l \in 1..(events[k].n + 1) /\ O(l) <= Len(t)
      BY <1>1, <1>2, <1>3, <1>4, <2>1, <2>3, <2>6
    <3>2. O(l) = 0 \/ (O(l) \in DOMAIN t /\ t[O(l)] = nl)
      BY <1>2, <3>1, SliceBegins
    <3>. QED
      BY <1>2, <1>6, <2>1, <3>2
  <2>11. a[h + 1] # nl /\ a[h + 2] \notin {nl, cr}
    BY <2>7, Characters
  <2>12. i \in DOMAIN a
    BY <1>6, <2>4
  <2>13. i \in Newlines(a) /\ LineAt(a, i) = <<a[h + 1], a[h + 2]>>
    BY <1>6, <2>3, <2>8, <2>9, <2>10, <2>11, <2>12, LineIs
  <2>14. LineAt(a, i) = <<data, Piece(events[k].of, l, N)>>
    BY <2>7, <2>13
  <2>. QED
    BY <2>2, <2>4, <2>13, <2>14
<1>14. ASSUME NEW l \in 1..N, NEW p \in 1..N, l < p PROVE EndOf(l) < EndOf(p)
  <2>1. l # N /\ l \in Nat /\ p \in Nat
    BY <1>4, <1>14
  <2>2. O(l) \in Nat /\ O(l) + w + 2 <= j /\ O(p) \in Nat
    BY <1>12, <2>1
  <2>3. CASE p = N
    <3>1. EndOf(l) = O(l) + w + 2 /\ O(p) = j
      BY <1>9, <2>1, <2>3
    <3>2. EndOf(p) = m + 1 \/ EndOf(p) = j + w + 2
      BY <2>3, <3>1
    <3>3. PICK f : f = O(l)
      OBVIOUS
    <3>4. PICK u : u = EndOf(l)
      OBVIOUS
    <3>5. PICK v : v = EndOf(p)
      OBVIOUS
    <3>6. f \in Nat /\ u = f + w + 2 /\ u <= j
      BY <2>2, <3>1, <3>3, <3>4
    <3>7. v = m + 1 \/ v = j + w + 2
      BY <3>2, <3>5
    <3>8. u < v
      <4>1. w \in Nat /\ j \in Nat /\ m \in Nat /\ j + 2 <= m
        BY <1>2, <1>8, <1>10, <1>11
      <4>. QED
        BY <3>6, <3>7, <4>1
    <3>. QED
      BY <3>4, <3>5, <3>8
  <2>4. CASE p # N
    <3>1. O(l) + Width(eol) <= O(p)
      <4>1. l \in Nat \ {0} /\ p \in Nat \ {0}
        BY <1>4
      <4>. QED
        BY <1>2, <1>14, <4>1, OffsetsAre
    <3>. QED
      BY <1>8, <2>1, <2>2, <2>4, <3>1, SMTT(30)
  <2>. QED
    BY <2>3, <2>4
\* Behind the last of them there is at most a blank line.
<1>15. ASSUME NEW i \in Newlines(a)
       PROVE  (\E l \in 1..N : i = EndOf(l)) \/ LineAt(a, i) = <<>>
  <2>1. i \in 1..(m + 1) /\ a[i] = nl
    BY <1>6 DEF Newlines
  <2>2. CASE i = m + 1 /\ m < j + w + 2
    <3>1. N \in 1..N /\ EndOf(N) = i
      BY <1>4, <2>2
    <3>. QED
      BY <3>1
  <2>3. CASE i = m + 1 /\ ~(m < j + w + 2)
    <3>1. PICK h : h = O(N + 1)
      OBVIOUS
    <3>2. h \in Nat /\ h = j + w + 2 /\ h <= m /\ m < h + w
      BY <1>2, <1>8, <1>10, <1>11, <2>3, <3>1
    <3>3. N + 1 \in 1..(events[k].n + 1) /\ N + 1 = events[k].n + 1 /\ O(N + 1) <= Len(t)
      BY <1>1, <1>3, <1>4, <3>1, <3>2
    <3>4. O(N + 1) = 0 \/ (O(N + 1) \in DOMAIN t /\ t[O(N + 1)] = nl)
      BY <1>2, <3>3, SliceBegins
    <3>5. h = 0 \/ (h \in DOMAIN a /\ a[h] = nl)
      BY <1>2, <1>6, <3>1, <3>4
    <3>6. i = h + 1 \/ (i = h + 2 /\ a[h + 1] = cr)
      <4>1. CASE m = h
        BY <2>3, <4>1
      <4>2. CASE m # h
        <5>1. w = 2 /\ eol[1] = cr /\ m = h + 1
          BY <1>2, <1>8, <3>2, <4>2
        <5>2. 1 \in 1..Width(eol) /\ 1 <= Len(eol) /\ O(N + 1) + 1 <= Len(t)
          BY <1>1, <1>7, <1>8, <3>1, <5>1
        <5>3. t[O(N + 1) + 1] = eol[1]
          BY <1>2, <3>3, <5>2, SliceHolds, SMTT(30)
        <5>4. h + 1 \in 1..m
          BY <3>2, <5>1
        <5>5. a[h + 1] = cr
          BY <1>6, <3>1, <5>1, <5>3, <5>4
        <5>6. i = h + 2
          BY <2>3, <3>2, <5>1
        <5>. QED
          BY <5>5, <5>6
      <4>. QED
        BY <4>1, <4>2
    <3>7. i \in DOMAIN a
      BY <1>6, <2>1
    <3>8. LineAt(a, i) = <<>>
      BY <1>6, <2>1, <3>2, <3>5, <3>6, <3>7, BlankIs
    <3>. QED
      BY <3>8
  <2>4. CASE i # m + 1
    <3>1. i \in 1..m /\ i \in Newlines(t)
      BY <1>2, <1>6, <2>1, <2>4 DEF Newlines
    <3>2. PICK g \in (b + 1)..n :
           \/ i = B[g] - B[b]
           \/ \E l \in 1..events[g].n : i = Offset(events, eol, b, g, l) + Width(eol)
      BY <3>1, SliceNewlines
    <3>3. PICK x : x = B[b]
      OBVIOUS
    <3>4. PICK z : z = B[k]
      OBVIOUS
    <3>5. x \in Nat /\ z \in Nat /\ x + m < z
      BY <1>1, <1>2, <3>3, <3>4, OffsetsAre
    <3>6. i # B[g] - B[b]
      <4>1. PICK y : y = B[g]
        OBVIOUS
      <4>2. g \in 0..n /\ k \in 0..n /\ k <= g
        BY <1>2
      <4>3. y \in Nat /\ z <= y
        BY <3>4, <4>1, <4>2, BoundsOrder
      <4>4. i # y - x
        BY <1>2, <3>1, <3>5, <4>3
      <4>. QED
        BY <3>3, <4>1, <4>4
    <3>7. PICK l \in 1..events[g].n : i = Offset(events, eol, b, g, l) + Width(eol)
      BY <3>2, <3>6
    <3>8. g = k
      <4>1. SUFFICES ASSUME g # k PROVE FALSE
        OBVIOUS
      <4>2. PICK f : f = g - 1
        OBVIOUS
      <4>3. f \in 0..n /\ k \in 0..n /\ k <= f
        BY <1>2, <4>1, <4>2
      <4>4. PICK y : y = B[f]
        OBVIOUS
      <4>5. y \in Nat /\ z <= y
        BY <3>4, <4>3, <4>4, BoundsOrder
      <4>6. y - x = Offset(events, eol, b, g, 1)
        <5>1. B[g - 1] - B[b] = Offset(events, eol, b, g, 1)
          BY <1>2, OffsetsAre
        <5>. QED
          BY <3>3, <4>2, <4>4, <5>1
      <4>7. events[g].n \in Nat \ {0}
        BY <1>2, OffsetsAre
      <4>8. l \in Nat \ {0} /\ (l # 1 => 1 < l)
        BY <4>7
      <4>9. Offset(events, eol, b, g, l) \in Nat /\ Offset(events, eol, b, g, 1) \in Nat
        BY <1>2, <1>4, <4>8, OffsetsAre
      <4>10. l # 1 => Offset(events, eol, b, g, 1) + Width(eol) <= Offset(events, eol, b, g, l)
        BY <1>2, <1>4, <4>8, OffsetsAre
      <4>11. PICK u : u = Offset(events, eol, b, g, l)
        OBVIOUS
      <4>12. y - x <= u /\ u \in Nat
        BY <1>8, <4>6, <4>9, <4>10, <4>11
      <4>13. i = u + w + 2 /\ i <= m
        BY <1>2, <1>8, <3>1, <3>7, <4>11, <4>12
      <4>. QED
        BY <1>2, <1>8, <3>5, <4>5, <4>12, <4>13
    <3>9. l \in 1..N /\ i = O(l) + w + 2
      <4>1. l \in 1..N
        BY <1>3, <3>8
      <4>2. O(l) \in Nat /\ i = O(l) + Width(eol)
        BY <1>12, <3>7, <3>8, <4>1
      <4>. QED
        BY <1>8, <4>1, <4>2
    <3>10. ~(l = N /\ m < j + w + 2)
      BY <1>2, <1>8, <1>9, <1>10, <3>1, <3>9
    <3>11. i = EndOf(l)
      BY <3>9, <3>10
    <3>. QED
      BY <3>9, <3>11
  <2>. QED
    BY <2>2, <2>3, <2>4
<1>. DEFINE at == [l \in 1..N |-> EndOf(l)]
<1>16. PICK message : message = events[k].of
  OBVIOUS
<1>17. Lays(a, Newlines(a), at, message, N)
  <2>1. Newlines(a) \in SUBSET Nat
    BY <1>6 DEF Newlines
  <2>2. at \in [1..N -> Newlines(a)] /\ \A l \in 1..N : at[l] = EndOf(l)
    BY <1>13
  <2>. HIDE DEF at, EndOf
  <2>3. \A l, p \in 1..N : l < p => at[l] < at[p]
    BY <1>14, <2>2
  <2>4. \A l \in 1..N : LineAt(a, at[l]) = <<data, Piece(message, l, N)>>
    BY <1>13, <1>16, <2>2
  <2>5. \A i \in Newlines(a) : (\E l \in 1..N : i = at[l]) \/ LineAt(a, i) = <<>>
    BY <1>15, <2>2
  <2>. QED
    BY <1>4, <2>1, <2>2, <2>3, <2>4, <2>5 DEF Lays
<1>. HIDE DEF at
<1>18. TryParse(FramePayload(a, Newlines(a))) = message
  BY <1>17, PayloadIs
<1>. QED
  BY <1>5, <1>16, <1>18 DEF FlushSseFrame

-----------------------------------------------------------------------------
(* The client of a tool server: what it has read of a stream.                *)

\* What may be on the stream of a request o that carries an id: of the replies
\* with that id, only its own.
Held(id, o) == {m \in Nat \X Ops : m[1] = id => m = <<id, o>>}

\* The buffer is what has been read behind the last complete event, and none
\* of the complete events is the reply.
Reading(o, id, events, eol, text, read, buffer) ==
  /\ events \in Seq(Event(Held(id, o))) /\ eol \in EOLs
  /\ text \in Seq(Chars(Held(id, o))) /\ buffer \in Seq(Chars(Held(id, o)))
  /\ Slice(text, events, eol, 0) /\ read \in 0..Len(text)
  /\ \E b \in 0..Len(events) :
       /\ Slice(buffer, events, eol, b) /\ Bounds(events, eol)[b] + Len(buffer) = read
       /\ b < Len(events) => read < Bounds(events, eol)[b + 1]
       /\ \A k \in 1..b : events[k].of # <<id, o>>

\* An event whose lines are all there is not the reply.
Missing(o, id, events, eol, text) ==
  \A k \in DOMAIN events :
    events[k].of = <<id, o>> => Len(text) < Bounds(events, eol)[k] - 2 * Len(eol)

\* A match is the request's own reply.
LEMMA MatchedIsOwn ==
  ASSUME NEW o, NEW id, NEW text \in Seq(Chars(Held(id, o))), NEW frames,
         DOMAIN frames \in SUBSET Nat,
         \A b \in DOMAIN frames :
           \E places \in SUBSET (DOMAIN text) : frames[b] = FramePayload(text, places),
         MatchFrameById(frames, id) # <<>>
  PROVE  MatchFrameById(frames, id) = <<id, o>>
<1>1. MatchFrameById(frames, id) \in Held(id, o) /\ MatchFrameById(frames, id)[1] = id
  BY MatchedIsHeld
<1>. QED
  BY <1>1 DEF Held

\* A chunk: what matches is the reply, and without a match the reading goes on.
LEMMA ChunkIsRead ==
  ASSUME NEW o, NEW id, NEW events, NEW eol, NEW text, NEW read, NEW buffer,
         Reading(o, id, events, eol, text, read, buffer),
         NEW upto, upto \in (read + 1)..Len(text),
         NEW t, t = buffer \o SubSeq(text, read + 1, upto),
         NEW matched, matched = MatchFrameById(ParseSseFrames(t).frames, id),
         NEW rest, rest = ParseSseFrames(t).rest
  PROVE  /\ matched # <<>> => matched = <<id, o>>
         /\ matched = <<>> => Reading(o, id, events, eol, text, upto, rest)
<1>. DEFINE B == Bounds(events, eol)
<1>1. PICK ms : ms = Held(id, o)
  OBVIOUS
<1>2. /\ events \in Seq(Event(ms)) /\ eol \in EOLs
      /\ text \in Seq(Chars(ms)) /\ buffer \in Seq(Chars(ms))
      /\ Slice(text, events, eol, 0) /\ read \in 0..Len(text)
  BY <1>1 DEF Reading
<1>3. PICK b \in 0..Len(events) :
        /\ Slice(buffer, events, eol, b) /\ B[b] + Len(buffer) = read
        /\ \A k \in 1..b : events[k].of # <<id, o>>
  BY DEF Reading
<1>4. Len(text) \in Nat /\ read \in Nat /\ upto \in Nat /\ read < upto /\ upto <= Len(text)
      /\ Len(events) \in Nat
  BY <1>2, LenProperties
<1>5. t \in Seq(Chars(ms)) /\ Slice(t, events, eol, b) /\ B[b] + Len(t) = upto
  <2>1. B[b] + Len(buffer) = read /\ Slice(buffer, events, eol, b) /\ Slice(text, events, eol, 0)
    BY <1>2, <1>3
  <2>2. LET u == buffer \o SubSeq(text, read + 1, upto) IN
        /\ u \in Seq(Chars(ms)) /\ Slice(u, events, eol, b) /\ B[b] + Len(u) = upto
    BY <1>2, <1>4, <2>1, SliceGrows
  <2>. QED
    BY <2>2
<1>6. matched = MatchFrameById(Frames(t), id)
  BY DEF ParseSseFrames
<1>7. matched # <<>> => matched = <<id, o>>
  <2>1. t \in Seq(Chars(Held(id, o)))
    BY <1>1, <1>5
  <2>. QED
    BY <1>6, <2>1, FramesAreOf, MatchedIsOwn
<1>8. ASSUME matched = <<>>
      PROVE  Reading(o, id, events, eol, text, upto, rest)
  <2>1. PICK c \in b..Len(events) :
          /\ rest \in Seq(Chars(ms)) /\ Slice(rest, events, eol, c)
          /\ B[c] + Len(rest) = B[b] + Len(t)
          /\ \A k \in (b + 1)..c : B[k] - B[b] <= Len(t)
          /\ c < Len(events) => B[c] + Len(rest) < B[c + 1]
    BY <1>2, <1>5, SliceRest
  <2>2. ASSUME NEW k \in 1..c PROVE events[k].of # <<id, o>>
    <3>1. CASE k \in 1..b
      BY <1>3, <3>1
    <3>2. CASE k \notin 1..b
      <4>1. k \in (b + 1)..c /\ k \in (b + 1)..Len(events)
        BY <1>4, <3>2
      <4>2. B[k] - B[b] <= Len(t)
        BY <2>1, <4>1
      <4>3. SUFFICES ASSUME events[k].of = <<id, o>> PROVE FALSE
        OBVIOUS
      <4>4. events[k].of # <<>> /\ events[k].of[1] = id
        BY <4>3
      <4>5. MatchFrameById(Frames(t), id) # <<>>
        BY <1>2, <1>5, <4>1, <4>2, <4>4, SliceMatch
      <4>. QED
        BY <1>6, <1>8, <4>5
    <3>. QED
      BY <3>1, <3>2
  <2>3. c \in 0..Len(events) /\ upto \in 0..Len(text)
    BY <1>4
  <2>4. /\ Slice(rest, events, eol, c) /\ B[c] + Len(rest) = upto
        /\ c < Len(events) => upto < B[c + 1]
        /\ \A k \in 1..c : events[k].of # <<id, o>>
    BY <1>5, <2>1, <2>2
  <2>5. \E d \in 0..Len(events) :
          /\ Slice(rest, events, eol, d) /\ B[d] + Len(rest) = upto
          /\ d < Len(events) => upto < B[d + 1]
          /\ \A k \in 1..d : events[k].of # <<id, o>>
    BY <2>3, <2>4
  <2>. QED
    BY <1>1, <1>2, <2>1, <2>3, <2>5 DEF Reading
<1>. QED
  BY <1>7, <1>8

\* The end of a stream: what matches is the reply, and without a match the
\* reply was not all there.
LEMMA EndIsRead ==
  ASSUME NEW o, NEW id, NEW events, NEW eol, NEW text, NEW buffer,
         Reading(o, id, events, eol, text, Len(text), buffer)
  PROVE  LET matched == MatchFrameById(<<FlushSseFrame(buffer)>>, id) IN
         /\ matched # <<>> => matched = <<id, o>>
         /\ matched = <<>> => Missing(o, id, events, eol, text)
<1>. DEFINE B == Bounds(events, eol)
            n == Len(events)
<1>1. PICK ms : ms = Held(id, o)
  OBVIOUS
<1>2. /\ events \in Seq(Event(ms)) /\ eol \in EOLs
      /\ text \in Seq(Chars(ms)) /\ buffer \in Seq(Chars(ms))
  BY <1>1 DEF Reading
<1>3. PICK b \in 0..n :
        /\ Slice(buffer, events, eol, b) /\ B[b] + Len(buffer) = Len(text)
        /\ b < n => Len(text) < B[b + 1]
        /\ \A k \in 1..b : events[k].of # <<id, o>>
  BY DEF Reading
<1>4. Len(text) \in Nat /\ Len(buffer) \in Nat /\ n \in Nat /\ DOMAIN events = 1..n
  BY <1>2, LenProperties
<1>5. PICK whole : whole = Append(buffer, nl)
  OBVIOUS
<1>6. PICK frames : frames = <<FlushSseFrame(buffer)>>
  OBVIOUS
<1>7. DOMAIN frames = {1} /\ frames[1] = FramePayload(whole, Newlines(whole))
  BY <1>5, <1>6 DEF FlushSseFrame
<1>8. MatchFrameById(frames, id) # <<>> => MatchFrameById(frames, id) = <<id, o>>
  <2>1. whole \in Seq(Chars(Held(id, o)))
    <3>1. nl \in Chars(ms)
      BY DEF Chars
    <3>. QED
      BY <1>1, <1>2, <1>5, <3>1
  <2>2. Newlines(whole) \in SUBSET (DOMAIN whole)
    BY DEF Newlines
  <2>3. DOMAIN frames \in SUBSET Nat
    BY <1>7
  <2>4. \A f \in DOMAIN frames :
          \E places \in SUBSET (DOMAIN whole) : frames[f] = FramePayload(whole, places)
    BY <1>7, <2>2
  <2>. QED
    BY <2>1, <2>3, <2>4, MatchedIsOwn
<1>9. ASSUME MatchFrameById(frames, id) = <<>>, NEW k \in 1..n, events[k].of = <<id, o>>
      PROVE  Len(text) < B[k] - 2 * Len(eol)
  <2>1. k > b /\ b < n /\ k \in 1..Len(events) /\ b + 1 \in 0..n
    BY <1>3, <1>4, <1>9
  <2>2. PICK w : w = Len(eol)
    OBVIOUS
  <2>3. w \in Nat /\ w > 0
    BY <1>2, <2>2, EOLsAre
  <2>4. PICK y : y = B[k]
    OBVIOUS
  <2>5. PICK z : z = B[b + 1]
    OBVIOUS
  <2>6. y \in Nat /\ z \in Nat /\ Len(text) < z
    <3>1. k \in 0..n
      BY <1>4
    <3>. QED
      BY <1>2, <1>3, <2>1, <2>4, <2>5, <3>1, BoundsAre
  <2>7. CASE k = b + 1
    <3>1. SUFFICES ASSUME ~(Len(text) < y - 2 * w) PROVE FALSE
      BY <2>2, <2>4
    <3>2. B[b] + Len(buffer) < B[k] /\ B[b] + Len(buffer) >= B[k] - 2 * Len(eol)
      <4>1. PICK x : x = B[b] + Len(buffer)
        OBVIOUS
      <4>2. x \in Nat /\ x = Len(text)
        BY <1>3, <1>4, <4>1
      <4>3. x < y
        BY <2>5, <2>6, <2>7, <2>4, <4>2
      <4>4. x >= y - 2 * w
        BY <2>3, <2>6, <3>1, <4>2
      <4>. QED
        BY <2>2, <2>4, <4>1, <4>3, <4>4
    <3>3. events[k].of # <<>>
      BY <1>9
    <3>4. TryParse(FlushSseFrame(buffer)) = <<id, o>>
      <4>1. /\ buffer \in Seq(Chars(ms)) /\ Slice(buffer, events, eol, b)
            /\ k \in 1..Len(events) /\ k = b + 1 /\ events[k].of # <<>>
            /\ Bounds(events, eol)[b] + Len(buffer) < Bounds(events, eol)[k]
            /\ Bounds(events, eol)[b] + Len(buffer) >= Bounds(events, eol)[k] - 2 * Len(eol)
        BY <1>2, <1>3, <1>9, <2>7, <3>2, <3>3, Zenon
      <4>2. TryParse(FlushSseFrame(buffer)) = events[k].of
        BY <1>2, <4>1, SliceFlush, Zenon
      <4>. QED
        BY <1>9, <4>2
    <3>5. PICK hits : hits = {i \in DOMAIN frames : TryParse(frames[i]) # <<>> /\ TryParse(frames[i])[1] = id}
      OBVIOUS
    <3>6. hits = {1}
      <4>1. TryParse(frames[1]) = <<id, o>>
        BY <1>6, <3>4
      <4>2. TryParse(frames[1]) # <<>> /\ TryParse(frames[1])[1] = id
        BY <4>1
      <4>. QED
        BY <1>7, <3>5, <4>2
    <3>7. Min(hits) = 1
      <4>1. Min(hits) \in hits
        BY <3>6, hits \in SUBSET Nat, hits # {}, MinIsLeast
      <4>. QED
        BY <3>6, <4>1
    <3>8. MatchFrameById(frames, id) = TryParse(frames[1])
      BY <3>5, <3>6, <3>7 DEF MatchFrameById
    <3>. QED
      BY <1>6, <1>9, <3>4, <3>8
  <2>8. CASE k # b + 1
    <3>1. k - 1 \in 0..n /\ b + 1 <= k - 1
      BY <1>4, <2>1, <2>8
    <3>2. PICK x : x = B[k - 1]
      OBVIOUS
    <3>3. z <= x /\ x \in Nat
      BY <1>2, <2>1, <2>5, <3>1, <3>2, BoundsOrder
    <3>4. events[k] \in Event(ms) /\ events[k].n \in Nat \ {0}
          /\ EventLength(events[k], eol) = events[k].n * Width(eol) + w
          /\ Width(eol) = w + 2
      <4>1. events[k] \in Event(ms)
        BY <1>2, <2>1, ElementOfSeq
      <4>. QED
        BY <2>2, <2>3, <4>1 DEF Event, EventLength, Width
    <3>5. y = x + EventLength(events[k], eol)
      BY <1>2, <2>1, <2>4, <3>2, BoundsAre
    <3>6. EventLength(events[k], eol) >= w + 2 + w
      <4>1. EventLength(events[k], eol) = IF w = 1 THEN events[k].n * 3 + 1 ELSE events[k].n * 4 + 2
        BY <1>2, <2>2, <3>4, Widths
      <4>2. w = 1 \/ w = 2
        BY <1>2, <2>2, <3>4, Widths
      <4>. QED
        BY <3>4, <4>1, <4>2
    <3>7. EventLength(events[k], eol) \in Nat
      BY <2>3, <3>4
    <3>. QED
      BY <1>4, <2>2, <2>3, <2>4, <2>6, <3>3, <3>5, <3>6, <3>7, SMTT(30)
  <2>. QED
    BY <2>7, <2>8
<1>10. MatchFrameById(frames, id) = <<>> => Missing(o, id, events, eol, text)
  BY <1>4, <1>9 DEF Missing
<1>. QED
  BY <1>6, <1>8, <1>10

\* While the reading goes on, the reply is not complete.
LEMMA NotYetRead ==
  ASSUME NEW o, NEW id, NEW events, NEW eol, NEW text, NEW read, NEW buffer,
         Reading(o, id, events, eol, text, read, buffer),
         NEW k \in DOMAIN events, events[k].of = <<id, o>>
  PROVE  read < Bounds(events, eol)[k]
<1>. DEFINE B == Bounds(events, eol)
            n == Len(events)
<1>1. PICK ms : ms = Held(id, o)
  OBVIOUS
<1>2. events \in Seq(Event(ms)) /\ eol \in EOLs /\ text \in Seq(Chars(ms)) /\ read \in 0..Len(text)
  BY <1>1 DEF Reading
<1>3. PICK b \in 0..n : (b < n => read < B[b + 1]) /\ \A j \in 1..b : events[j].of # <<id, o>>
  BY DEF Reading
<1>4. Len(text) \in Nat /\ read \in Nat /\ n \in Nat /\ k \in 1..n
  BY <1>2, LenProperties
<1>5. b + 1 <= k /\ b < n /\ b + 1 \in 0..n /\ k \in 0..n
  BY <1>3, <1>4
<1>6. B[b + 1] <= B[k] /\ B[b + 1] \in Nat /\ B[k] \in Nat
  BY <1>2, <1>5, BoundsOrder
<1>7. PICK y : y = B[b + 1]
  OBVIOUS
<1>8. PICK z : z = B[k]
  OBVIOUS
<1>9. y \in Nat /\ z \in Nat /\ y <= z /\ read < y
  BY <1>3, <1>5, <1>6, <1>7, <1>8
<1>. QED
  BY <1>4, <1>8, <1>9

\* A stream, as far as the server gets with it, before any of it is read.
LEMMA StreamOpens ==
  ASSUME NEW o, NEW id, NEW events \in Seq(Event(Held(id, o))), NEW eol \in EOLs,
         NEW cut \in Nat, cut <= Len(Encoded(events, eol)),
         NEW text, text = SubSeq(Encoded(events, eol), 1, Len(Encoded(events, eol)) - cut)
  PROVE  Reading(o, id, events, eol, text, 0, <<>>)
<1>. DEFINE B == Bounds(events, eol)
            n == Len(events)
<1>1. PICK ms : ms = Held(id, o)
  OBVIOUS
<1>2. events \in Seq(Event(ms))
  BY <1>1
<1>3. PICK full : full = Encoded(events, eol)
  OBVIOUS
<1>4. full \in Seq(Chars(ms)) /\ Len(full) = B[n]
  BY <1>2, <1>3, StreamIsOf, EncodedIs, LenProperties
<1>5. n \in Nat /\ n \in 0..n /\ 0 \in 0..n /\ B[0] = 0 /\ B[n] \in Nat
  <2>1. n \in Nat
    BY LenProperties
  <2>. QED
    BY <1>2, <2>1, BoundsAre
<1>6. PICK z : z = Len(full) - cut
  OBVIOUS
<1>7. z \in Nat /\ z <= Len(full)
  BY <1>3, <1>4, <1>5, <1>6
<1>8. PICK a : a = 0
  OBVIOUS
<1>9. text \in Seq(Chars(ms)) /\ Len(text) = z - 0 /\ \A i \in 1..(z - 0) : text[i] = full[0 + i]
  <2>1. a \in Nat /\ a <= z
    BY <1>7, <1>8
  <2>2. /\ SubSeq(full, a + 1, z) \in Seq(Chars(ms)) /\ Len(SubSeq(full, a + 1, z)) = z - a
        /\ \A i \in 1..(z - a) : SubSeq(full, a + 1, z)[i] = full[a + i]
    BY <1>4, <1>7, <2>1, CutIs
  <2>3. text = SubSeq(full, a + 1, z)
    BY <1>3, <1>6, <1>8
  <2>. QED
    BY <1>8, <2>2, <2>3
<1>10. Slice(text, events, eol, 0)
  <2>1. B[0] + Len(text) <= B[n]
    BY <1>4, <1>5, <1>7, <1>9
  <2>2. ASSUME NEW i \in 1..Len(text) PROVE text[i] = Encoded(events, eol)[B[0] + i]
    <3>1. i \in 1..(z - 0) /\ B[0] + i = 0 + i
      BY <1>5, <1>7, <1>9
    <3>. QED
      BY <1>3, <1>9, <3>1
  <2>. QED
    BY <1>5, <2>1, <2>2 DEF Slice
<1>11. <<>> \in Seq(Chars(ms)) /\ Len(<<>>) = 0
  OBVIOUS
<1>12. Slice(<<>>, events, eol, 0) /\ B[0] + Len(<<>>) = 0
  BY <1>5, <1>11 DEF Slice
<1>13. 0 < n => 0 < B[0 + 1]
  <2>1. n # 0 => 1 \in 1..n
    BY <1>5
  <2>. QED
    BY <1>2, <1>5, <2>1, BoundsAre
<1>14. 0 \in 0..Len(text)
  BY <1>7, <1>9
<1>15. \A k \in 1..0 : events[k].of # <<id, o>>
  OBVIOUS
<1>. QED
  BY <1>1, <1>2, <1>5, <1>9, <1>10, <1>11, <1>12, <1>13, <1>14, <1>15 DEF Reading

-----------------------------------------------------------------------------
(* The client of a tool server: each request gets its own reply.             *)

Parts == {"pc", "id", "hops", "events", "eol", "text", "open", "read", "buffer", "reply"}

\* An exchange on its way has an id of its own; one that is done has its reply.
Exchange(o, x) ==
  /\ DOMAIN x = Parts
  /\ x.pc \in {"idle", "posting"} => x.read = 0 /\ x.buffer = <<>>
  /\ x.pc \in {"posting", "reading"} /\ o # "initialized" => x.id # 0
  /\ x.pc = "done" /\ o # "initialized" => x.reply = <<x.id, o>>
  /\ x.pc = "reading" => Reading(o, x.id, x.events, x.eol, x.text, x.read, x.buffer)
  /\ x.pc = "unanswered" => Missing(o, x.id, x.events, x.eol, x.text)

\* No two requests share an id.
ExchangesAreApart ==
  /\ counter \in Nat
  /\ DOMAIN ops = Ops
  /\ \A o \in Ops : ops[o].id \in 0..counter /\ Exchange(o, ops[o])
  /\ \A o, p \in Ops : o # p /\ ops[o].id = ops[p].id => ops[o].id = 0

LEMMA FreshIs ==
  /\ DOMAIN Fresh = Parts /\ Fresh.pc = "idle" /\ Fresh.id = 0
  /\ Fresh.read = 0 /\ Fresh.buffer = <<>>
BY DEF Fresh, Parts

\* An exchange that keeps its id moves, the others stay.
LEMMA OneMoves ==
  ASSUME ExchangesAreApart, NEW o \in Ops, NEW x,
         ops' = [ops EXCEPT ![o] = x], x.id = ops[o].id, Exchange(o, x), UNCHANGED counter
  PROVE  ExchangesAreApart'
<1>1. DOMAIN ops' = Ops /\ ops'[o] = x /\ \A p \in Ops \ {o} : ops'[p] = ops[p]
  BY DEF ExchangesAreApart
<1>2. \A p \in Ops : ops'[p].id = ops[p].id /\ Exchange(p, ops'[p])
  BY <1>1 DEF ExchangesAreApart
<1>. QED
  BY <1>1, <1>2 DEF ExchangesAreApart

\* An exchange ends in failure, or with its reply.
LEMMA OneEnds ==
  ASSUME ExchangesAreApart, NEW o \in Ops, NEW pc, NEW reply, Ends(o, pc, reply),
         pc = "failed" \/ (pc = "done" /\ (o # "initialized" => reply = Due(o))),
         UNCHANGED counter
  PROVE  ExchangesAreApart'
<1>1. PICK x : x = [Fresh EXCEPT !.pc = pc, !.id = ops[o].id, !.reply = reply]
  OBVIOUS
<1>2. ops' = [ops EXCEPT ![o] = x]
  BY <1>1 DEF Ends
<1>3. DOMAIN x = Parts /\ x.pc = pc /\ x.id = ops[o].id /\ x.reply = reply
  BY <1>1, FreshIs DEF Parts
<1>4. Exchange(o, x)
  BY <1>3 DEF Exchange, Due
<1>. QED
  BY <1>2, <1>3, <1>4, OneMoves

LEMMA OneSettles ==
  ASSUME ExchangesAreApart, NEW o \in Ops, NEW reply, Settles(o, reply),
         o # "initialized" => reply = Due(o), UNCHANGED counter
  PROVE  ExchangesAreApart'
<1>1. CASE Ends(o, "done", reply)
  BY <1>1, OneEnds
<1>2. CASE Ends(o, "failed", <<>>)
  BY <1>2, OneEnds
<1>. QED
  BY <1>1, <1>2 DEF Settles

LEMMA BeginKeeps ==
  ASSUME ExchangesAreApart, NEW o \in Ops, Begin(o)
  PROVE  ExchangesAreApart'
<1>1. PICK x : x = [ops[o] EXCEPT !.pc = "posting", !.id = NextId(o)]
  OBVIOUS
<1>2. ops' = [ops EXCEPT ![o] = x]
  BY <1>1 DEF Begin
<1>3. DOMAIN x = Parts /\ x.pc = "posting" /\ x.id = NextId(o) /\ x.read = 0 /\ x.buffer = <<>>
  <2>1. DOMAIN ops[o] = Parts /\ ops[o].read = 0 /\ ops[o].buffer = <<>>
    BY DEF ExchangesAreApart, Exchange, Begin
  <2>. QED
    BY <1>1, <2>1 DEF Parts
<1>4. DOMAIN ops' = Ops /\ ops'[o] = x /\ \A p \in Ops \ {o} : ops'[p] = ops[p]
  BY <1>2 DEF ExchangesAreApart
<1>5. /\ counter \in Nat /\ counter' \in Nat /\ counter <= counter'
      /\ \A p \in Ops : ops[p].id \in 0..counter
  BY DEF ExchangesAreApart, Begin
<1>6. /\ x.id \in 0..counter'
      /\ o # "initialized" => x.id # 0
      /\ x.id # 0 => x.id > counter
  BY <1>3, <1>5 DEF NextId, Begin
<1>7. Exchange(o, x)
  BY <1>3, <1>6 DEF Exchange
<1>8. ASSUME NEW p \in Ops PROVE ops'[p].id \in 0..counter' /\ Exchange(p, ops'[p])
  <2>1. CASE p = o
    BY <1>4, <1>6, <1>7, <2>1
  <2>2. CASE p # o
    BY <1>4, <1>5, <2>2 DEF ExchangesAreApart
  <2>. QED
    BY <2>1, <2>2
<1>9. ASSUME NEW p \in Ops, NEW q \in Ops, p # q, ops'[p].id = ops'[q].id
      PROVE  ops'[p].id = 0
  BY <1>4, <1>5, <1>6, <1>9 DEF ExchangesAreApart
<1>. QED
  BY <1>4, <1>5, <1>8, <1>9 DEF ExchangesAreApart

LEMMA RedirectKeeps ==
  ASSUME ExchangesAreApart, NEW o \in Ops, Redirect(o)
  PROVE  ExchangesAreApart'
<1>1. CASE ops' = [ops EXCEPT ![o].hops = @ - 1]
  <2>1. PICK x : x = [ops[o] EXCEPT !.hops = ops[o].hops - 1]
    OBVIOUS
  <2>2. ops' = [ops EXCEPT ![o] = x]
    BY <1>1, <2>1
  <2>3. /\ DOMAIN x = Parts /\ x.pc = "posting" /\ x.id = ops[o].id
        /\ x.read = ops[o].read /\ x.buffer = ops[o].buffer
    BY <2>1 DEF ExchangesAreApart, Exchange, Parts, Redirect
  <2>4. Exchange(o, x)
    BY <2>3 DEF ExchangesAreApart, Exchange, Redirect
  <2>. QED
    BY <2>2, <2>3, <2>4, OneMoves DEF Redirect
<1>2. CASE Ends(o, "failed", <<>>)
  BY <1>2, OneEnds DEF Redirect
<1>. QED
  BY <1>1, <1>2 DEF Redirect

LEMMA RespondAtOnceKeeps ==
  ASSUME ExchangesAreApart, NEW o \in Ops, RespondAtOnce(o)
  PROVE  ExchangesAreApart'
<1>1. PICK reply : reply = IF o = "initialized" THEN <<>> ELSE Due(o)
  OBVIOUS
<1>2. Settles(o, reply) /\ UNCHANGED counter
  BY <1>1 DEF RespondAtOnce
<1>. QED
  BY <1>1, <1>2, OneSettles

\* What the server streams for o is its reply, replies to others, or no reply.
LEMMA RespondStreamedKeeps ==
  ASSUME ExchangesAreApart, NEW o \in Ops, RespondStreamed(o)
  PROVE  ExchangesAreApart'
<1>1. PICK id : id = ops[o].id
  OBVIOUS
<1>2. PICK shapes \in Streams(o), beside \in Beside(o),
           eol \in {<<nl>>, <<cr, nl>>}, open \in BOOLEAN, cut \in 0..MaxCut :
        LET events == Streamed(o, shapes, beside)
            full == Encoded(events, eol)
        IN /\ beside = <<>> <=> \A k \in DOMAIN shapes : shapes[k].of # "beside"
           /\ cut <= Len(full) /\ (open => cut = 0)
           /\ ops' = [ops EXCEPT ![o] =
                        [@ EXCEPT !.pc = "reading", !.events = events, !.eol = eol, !.open = open,
                                  !.text = SubSeq(full, 1, Len(full) - cut)]]
  BY Zenon DEF RespondStreamed
<1>3. PICK events : events = Streamed(o, shapes, beside)
  OBVIOUS
<1>4. PICK full : full = Encoded(events, eol)
  OBVIOUS
<1>5. PICK text : text = SubSeq(full, 1, Len(full) - cut)
  OBVIOUS
<1>6. full = Encoded(Streamed(o, shapes, beside), eol)
  BY <1>3, <1>4
<1>7. PICK x : x = [ops[o] EXCEPT !.pc = "reading", !.events = events, !.eol = eol, !.open = open,
                                  !.text = text]
  OBVIOUS
<1>8. cut <= Len(full) /\ ops' = [ops EXCEPT ![o] = x]
  BY <1>2, <1>3, <1>5, <1>6, <1>7
<1>9. ops[o].pc = "posting" /\ o # "initialized" /\ UNCHANGED counter
  BY DEF RespondStreamed
<1>10. DOMAIN ops[o] = Parts /\ id \in Nat /\ id # 0
  BY <1>1, <1>9 DEF ExchangesAreApart, Exchange
<1>11. eol \in EOLs
  BY DEF EOLs
<1>12. cut \in Nat
  <2>1. MaxCut \in Nat
    BY McpAssumption DEF McpAssumption
  <2>. QED
    BY <2>1
<1>13. <<id, o>> \in Held(id, o) /\ Due(o) = <<id, o>>
  BY <1>1, <1>10 DEF Held, Due
\* A reply to a request beside o carries another id.
<1>14. beside = <<>> \/ beside \in Held(id, o)
  <2>1. SUFFICES ASSUME NEW p \in Calls \ {o}, InFlight(p), beside = Due(p)
                 PROVE  beside \in Held(id, o)
    BY DEF Beside
  <2>2. p \in Ops /\ p # o
    BY DEF Ops
  <2>3. ops[p].id \in Nat /\ ops[p].id # id
    BY <1>1, <1>10, <2>2 DEF ExchangesAreApart
  <2>. QED
    BY <2>1, <2>2, <2>3 DEF Held, Due
<1>15. events \in Seq(Event(Held(id, o)))
  <2>1. shapes \in Seq(Shapes)
    BY McpAssumption DEF McpAssumption
  <2>2. Len(shapes) \in Nat /\ DOMAIN shapes = 1..Len(shapes)
        /\ \A k \in DOMAIN shapes : shapes[k] \in Shapes
    BY <2>1, LenProperties, ElementOfSeq
  <2>3. ASSUME NEW k \in 1..Len(shapes) PROVE events[k] \in Event(Held(id, o))
    <3>1. PICK shape : shape = shapes[k]
      OBVIOUS
    <3>2. shape.of \in {"due", "beside", "text", "comment"} /\ shape.n \in Nat \ {0}
      BY <2>2, <3>1 DEF Shapes
    <3>3. PICK of : of = CASE shape.of = "due" -> Due(o)
                           [] shape.of = "beside" -> beside
                           [] OTHER -> <<>>
      OBVIOUS
    <3>4. PICK start : start = IF shape.of = "comment" THEN other ELSE data
      OBVIOUS
    <3>5. events[k] = [of |-> of, start |-> start, n |-> shape.n]
      BY <1>3, <2>2, <3>1, <3>3, <3>4 DEF Streamed
    <3>6. of \in Held(id, o) \cup {<<>>}
      <4>1. CASE shape.of = "due"
        BY <1>13, <3>3, <4>1
      <4>2. CASE shape.of = "beside"
        BY <1>14, <3>3, <4>2
      <4>3. CASE shape.of \notin {"due", "beside"}
        BY <3>3, <4>3
      <4>. QED
        BY <4>1, <4>2, <4>3
    <3>7. of # <<>> => start = data
      BY <3>2, <3>3, <3>4
    <3>. QED
      BY <3>2, <3>4, <3>5, <3>6, <3>7 DEF Event
  <2>4. events = [k \in 1..Len(shapes) |-> events[k]]
    BY <1>3, <2>2 DEF Streamed
  <2>. QED
    BY <2>2, <2>3, <2>4, IsASeq
<1>16. Reading(o, id, events, eol, text, 0, <<>>)
  BY <1>4, <1>5, <1>8, <1>11, <1>12, <1>15, StreamOpens
<1>17. ops[o].read = 0 /\ ops[o].buffer = <<>>
  BY <1>9 DEF ExchangesAreApart, Exchange
<1>18. /\ DOMAIN x = Parts /\ x.pc = "reading" /\ x.id = id
       /\ x.events = events /\ x.eol = eol /\ x.text = text
       /\ x.read = ops[o].read /\ x.buffer = ops[o].buffer
  BY <1>1, <1>7, <1>10 DEF Parts
<1>19. Exchange(o, x)
  BY <1>10, <1>16, <1>17, <1>18 DEF Exchange
<1>. QED
  BY <1>1, <1>8, <1>9, <1>18, <1>19, OneMoves

LEMMA ReadSseChunkKeeps ==
  ASSUME ExchangesAreApart, NEW o \in Ops, ReadSseChunk(o)
  PROVE  ExchangesAreApart'
<1>1. ops[o].pc = "reading" /\ UNCHANGED counter /\ DOMAIN ops[o] = Parts
  BY SMTT(30) DEF ExchangesAreApart, Exchange, ReadSseChunk
<1>2. PICK upto \in (ops[o].read + 1)..Len(ops[o].text) :
        LET parsed == ParseSseFrames(ops[o].buffer \o SubSeq(ops[o].text, ops[o].read + 1, upto))
            matched == MatchFrameById(parsed.frames, ops[o].id)
        IN IF matched # <<>> THEN Settles(o, matched)
           ELSE ops' = [ops EXCEPT ![o] = [ops[o] EXCEPT !.read = upto, !.buffer = parsed.rest]]
  BY DEF ReadSseChunk
<1>3. PICK t : t = ops[o].buffer \o SubSeq(ops[o].text, ops[o].read + 1, upto)
  OBVIOUS
<1>4. PICK matched : matched = MatchFrameById(ParseSseFrames(t).frames, ops[o].id)
  OBVIOUS
<1>5. PICK rest : rest = ParseSseFrames(t).rest
  OBVIOUS
<1>6. IF matched # <<>> THEN Settles(o, matched)
      ELSE ops' = [ops EXCEPT ![o] = [ops[o] EXCEPT !.read = upto, !.buffer = rest]]
  BY <1>2, <1>3, <1>4, <1>5
<1>7. Reading(o, ops[o].id, ops[o].events, ops[o].eol, ops[o].text, ops[o].read, ops[o].buffer)
  BY <1>1 DEF ExchangesAreApart, Exchange
<1>8. /\ matched # <<>> => matched = <<ops[o].id, o>>
      /\ matched = <<>> =>
           Reading(o, ops[o].id, ops[o].events, ops[o].eol, ops[o].text, upto, rest)
  <2>1. PICK id, events, eol, text, read, buffer :
          /\ id = ops[o].id /\ events = ops[o].events /\ eol = ops[o].eol
          /\ text = ops[o].text /\ read = ops[o].read /\ buffer = ops[o].buffer
    OBVIOUS
  <2>2. /\ Reading(o, id, events, eol, text, read, buffer) /\ upto \in (read + 1)..Len(text)
        /\ t = buffer \o SubSeq(text, read + 1, upto)
        /\ matched = MatchFrameById(ParseSseFrames(t).frames, id)
    BY <1>3, <1>4, <1>7, <2>1
  <2>3. /\ matched # <<>> => matched = <<id, o>>
        /\ matched = <<>> => Reading(o, id, events, eol, text, upto, rest)
    BY <1>5, <2>2, ChunkIsRead, ZenonT(60)
  <2>. QED
    BY <2>1, <2>3
<1>9. CASE matched # <<>>
  BY <1>1, <1>6, <1>8, <1>9, OneSettles DEF Due
<1>10. CASE matched = <<>>
  <2>1. PICK x : x = [ops[o] EXCEPT !.read = upto, !.buffer = rest]
    OBVIOUS
  <2>2. ops' = [ops EXCEPT ![o] = x]
    BY <1>6, <1>10, <2>1
  <2>3. /\ DOMAIN x = Parts /\ x.pc = "reading" /\ x.id = ops[o].id
        /\ x.events = ops[o].events /\ x.eol = ops[o].eol /\ x.text = ops[o].text
        /\ x.read = upto /\ x.buffer = rest
    BY <1>1, <2>1 DEF Parts
  <2>4. o # "initialized" => ops[o].id # 0
    BY <1>1 DEF ExchangesAreApart, Exchange
  <2>5. Exchange(o, x)
    BY <1>8, <1>10, <2>3, <2>4 DEF Exchange
  <2>. QED
    BY <1>1, <2>2, <2>3, <2>5, OneMoves
<1>. QED
  BY <1>9, <1>10

LEMMA StreamEndsKeeps ==
  ASSUME ExchangesAreApart, NEW o \in Ops, StreamEnds(o)
  PROVE  ExchangesAreApart'
<1>1. ops[o].pc = "reading" /\ ops[o].read = Len(ops[o].text) /\ UNCHANGED counter
      /\ DOMAIN ops[o] = Parts
  BY DEF ExchangesAreApart, Exchange, StreamEnds
<1>2. PICK matched : matched = MatchFrameById(<<FlushSseFrame(ops[o].buffer)>>, ops[o].id)
  OBVIOUS
<1>3. IF matched # <<>> THEN Settles(o, matched) ELSE ops' = [ops EXCEPT ![o].pc = "unanswered"]
  BY <1>2 DEF StreamEnds
<1>4. Reading(o, ops[o].id, ops[o].events, ops[o].eol, ops[o].text, Len(ops[o].text), ops[o].buffer)
  BY <1>1 DEF ExchangesAreApart, Exchange
<1>5. /\ matched # <<>> => matched = <<ops[o].id, o>>
      /\ matched = <<>> => Missing(o, ops[o].id, ops[o].events, ops[o].eol, ops[o].text)
  BY <1>2, <1>4, EndIsRead
<1>6. CASE matched # <<>>
  BY <1>1, <1>3, <1>5, <1>6, OneSettles DEF Due
<1>7. CASE matched = <<>>
  <2>1. PICK x : x = [ops[o] EXCEPT !.pc = "unanswered"]
    OBVIOUS
  <2>2. ops' = [ops EXCEPT ![o] = x]
    BY <1>3, <1>7, <2>1
  <2>3. /\ DOMAIN x = Parts /\ x.pc = "unanswered" /\ x.id = ops[o].id
        /\ x.events = ops[o].events /\ x.eol = ops[o].eol /\ x.text = ops[o].text
    BY <1>1, <2>1 DEF Parts
  <2>4. Exchange(o, x)
    BY <1>5, <1>7, <2>3 DEF Exchange
  <2>. QED
    BY <1>1, <2>2, <2>3, <2>4, OneMoves
<1>. QED
  BY <1>6, <1>7

\* Requests start apart, and stay so.
LEMMA ExchangesStart ==
  ASSUME McpInit
  PROVE  ExchangesAreApart
<1>1. counter = 0 /\ DOMAIN ops = Ops /\ \A o \in Ops : ops[o] = Fresh
  BY DEF McpInit
<1>2. \A o \in Ops : Exchange(o, Fresh)
  BY FreshIs DEF Exchange
<1>. QED
  BY <1>1, <1>2, FreshIs DEF ExchangesAreApart

LEMMA ExchangesKeep ==
  ASSUME ExchangesAreApart, [McpNext]_mcpVars
  PROVE  ExchangesAreApart'
<1>1. CASE Reject
  <2>1. "initialize" \in Ops
    BY DEF Ops, Handshake
  <2>. QED
    BY <1>1, <2>1, OneEnds DEF Reject
<1>2. CASE UNCHANGED mcpVars
  BY <1>2 DEF mcpVars, ExchangesAreApart
<1>3. ASSUME NEW o \in Ops,
             \/ Begin(o) \/ Redirect(o) \/ Fails(o) \/ RespondAtOnce(o)
             \/ RespondStreamed(o) \/ ReadSseChunk(o) \/ StreamEnds(o) \/ Timeout(o)
      PROVE  ExchangesAreApart'
  <2>1. CASE Begin(o)
    BY <2>1, BeginKeeps
  <2>2. CASE Redirect(o)
    BY <2>2, RedirectKeeps
  <2>3. CASE Fails(o)
    BY <2>3, OneEnds DEF Fails
  <2>4. CASE RespondAtOnce(o)
    BY <2>4, RespondAtOnceKeeps
  <2>5. CASE RespondStreamed(o)
    BY <2>5, RespondStreamedKeeps
  <2>6. CASE ReadSseChunk(o)
    BY <2>6, ReadSseChunkKeeps
  <2>7. CASE StreamEnds(o)
    BY <2>7, StreamEndsKeeps
  <2>8. CASE Timeout(o)
    BY <2>8, OneEnds DEF Timeout
  <2>. QED
    BY <1>3, <2>1, <2>2, <2>3, <2>4, <2>5, <2>6, <2>7, <2>8
<1>. QED
  BY <1>1, <1>2, <1>3 DEF McpNext

\* Whatever replies a server puts on whichever streams, a request that is done
\* has the reply to itself: ids are not used twice, and the reading matches by
\* id (connect's nextId and matchFrameById).
THEOREM RequestsGetTheirReplies == McpSpec => []AnswersItsRequest
<1>1. ExchangesAreApart => AnswersItsRequest
  BY DEF ExchangesAreApart, Exchange, AnswersItsRequest, Done, Due
<1>. QED
  BY <1>1, ExchangesStart, ExchangesKeep, PTL DEF McpSpec

\* Wherever the chunks of a stream were cut, a reply is taken as soon as its
\* event is complete; and none whose lines are all there is missed at the end
\* (readSseReply).
THEOREM RepliesAreTaken == McpSpec => []ReplyIsTaken
<1>1. ASSUME ExchangesAreApart PROVE ReplyIsTaken
  <2>1. SUFFICES ASSUME NEW o \in Ops, NEW k \in Replies(o)
                 PROVE  LET end == Bounds(ops[o].events, ops[o].eol)[k] IN
                        /\ ops[o].pc = "reading" => ops[o].read < end
                        /\ ops[o].pc = "unanswered" => Len(ops[o].text) < end - 2 * Len(ops[o].eol)
    BY DEF ReplyIsTaken
  <2>2. k \in DOMAIN ops[o].events /\ ops[o].events[k].of = <<ops[o].id, o>>
    BY DEF Replies, Due
  <2>3. Exchange(o, ops[o])
    BY <1>1 DEF ExchangesAreApart
  <2>4. CASE ops[o].pc = "reading"
    BY <2>2, <2>3, <2>4, NotYetRead DEF Exchange
  <2>5. CASE ops[o].pc = "unanswered"
    BY <2>2, <2>3, <2>5 DEF Exchange, Missing
  <2>. QED
    BY <2>4, <2>5
<1>. QED
  BY <1>1, ExchangesStart, ExchangesKeep, PTL DEF McpSpec
=============================================================================
