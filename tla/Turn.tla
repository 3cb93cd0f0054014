-------------------------------- MODULE Turn --------------------------------
(***************************************************************************)
(* The turns of one session: the stream and approve handlers               *)
(* (apps/api/src/handlers.ts) and the detached driver runStreamingTurn     *)
(* (StreamingTurn.ts), which run in a Worker, write the journal of the     *)
(* Agent object and read it back.                                          *)
(*                                                                         *)
(* A driver is one request's: it opens a turn, or resolves an approval and *)
(* continues the turn that parked.  It asks the model for hops; a hop is a *)
(* stream of parts, of which tool calls, results and approval requests are *)
(* journaled as they come and the rest in one batch at its end.  Drivers   *)
(* of the same session interleave at every append, which is one step with  *)
(* its answer.                                                             *)
(***************************************************************************)
EXTENDS Journal

CONSTANTS
  MaxDrivers,   \* bound on requests
  MaxTurns,     \* bound on those that open a turn
  MaxHops,      \* MAX_TOOL_HOPS
  CallsPerHop,  \* bound on the tool calls of one hop
  TextPerHop,   \* bound on the text deltas of one hop
  Cap,          \* the session's spend ceiling
  HopCost,      \* what one hop spends
  Patient,      \* whether a request waits for the hops in progress to end
  Faults,       \* the kinds of fault a run explores
  MaxFaults     \* bound on faults

FaultKinds == {"model",    \* the hop fails or times out
               "cut",      \* the model's stream ends without a finish part
               "handler",  \* a handler fails before its driver starts
               "die",      \* the isolate of a driver is reaped
               "refused",  \* an append fails
               "lost"}     \* an append succeeds, its answer is lost

ASSUME TurnAssumption ==
  /\ {MaxDrivers, MaxTurns, CallsPerHop, TextPerHop, Cap, HopCost, MaxFaults} \subseteq Nat
  /\ MaxHops \in Nat \ {0}
  /\ Patient \in BOOLEAN
  /\ Faults \subseteq FaultKinds

VARIABLES
  journal,   \* the rows of the journal
  driver,    \* the drivers and the requests they come from
  streamed,  \* observed: the pieces of text sent to clients
  faults

vars == <<journal, driver, streamed, faults>>

Drivers == 1 .. MaxDrivers

Handling == {"opening", "resolving", "reading"}
Driving == {"streaming", "capped", "ending", "failing", "erroring"}
Resting == {"none", "over", "dead"}

\* Tool calls and text deltas are numbered within the hop of a driver.
Item(d, hop, n) == <<d, hop, n>>

Idle == [pc |-> "none", opens |-> FALSE, turn |-> 0, start |-> 0, hop |-> 0, made |-> 0,
         open |-> {}, parts |-> {}, text |-> 0, parked |-> FALSE,
         running |-> 0, answers |-> {}, knows |-> TRUE]

Init ==
  /\ journal = << >>
  /\ driver = [d \in Drivers |-> Idle]
  /\ streamed = {}
  /\ faults = {}

Fault(kind) ==
  /\ kind \in Faults
  /\ Cardinality(faults) < MaxFaults
  /\ faults' = faults \cup {kind}

Set(d, state) == driver' = [driver EXCEPT ![d] = state]

\* One appendEvents: with its answer the driver is in one state; without, in
\* another, whether or not the rows were inserted.
Appends(d, rows, answered, failed) ==
  \/ /\ journal' = journal \o rows
     /\ Set(d, answered)
     /\ UNCHANGED faults
  \/ /\ rows # << >>
     /\ \/ Fault("lost") /\ journal' = journal \o rows
        \/ Fault("refused") /\ UNCHANGED journal
     /\ Set(d, failed)

Spend(rows) == HopCost * Cardinality(UsageRows(rows))

\* The next request to arrive.
Fresh(d) ==
  /\ driver[d].pc = "none"
  /\ \A k \in Drivers : k < d => driver[k].pc # "none"
  /\ Patient => \A k \in Drivers : driver[k].pc \notin Driving

BudgetExceeded(running) == running >= Cap

\* The terminals of a driver begin with what is left of the hop's text.
Settles(drv) ==
  [drv EXCEPT !.pc = IF drv.text = 0 THEN "over" ELSE "ending"]

Fails(drv) ==
  [drv EXCEPT !.pc = IF drv.text = 0 THEN "erroring" ELSE "failing"]

\* The top of the hop loop.  The first hop of a continuation begins with the
\* call it has an answer for, which the model layer then runs or refuses.
EntersHop(drv) ==
  IF BudgetExceeded(drv.running) THEN Fails([drv EXCEPT !.text = 0])
  ELSE [drv EXCEPT !.pc = "streaming", !.text = 0, !.made = 0, !.parts = {},
          !.open = IF drv.hop = drv.start /\ drv.knows THEN drv.answers ELSE {}]

-----------------------------------------------------------------------------
(* The stream handler                                                      *)

\* Up to the read of usageTotals.
StreamRequested(d) ==
  /\ Fresh(d)
  /\ Cardinality({k \in Drivers : driver[k].opens}) < MaxTurns
  /\ Set(d, [Idle EXCEPT !.pc = "opening", !.opens = TRUE, !.running = Spend(journal)])
  /\ UNCHANGED <<journal, streamed, faults>>

\* openTurn: the seq of the user-message is the turn.
OpenTurnRow(d) ==
  /\ driver[d].pc = "opening"
  /\ LET turn == Len(journal) + 1
     IN  Appends(d, << Row("user-message", turn, 0, {}, d) >>,
                 EntersHop([driver[d] EXCEPT !.turn = turn]),
                 [driver[d] EXCEPT !.pc = "dead"])
  /\ UNCHANGED streamed

-----------------------------------------------------------------------------
(* The approve handler                                                     *)

\* Mutant: the check of resolveApproval is dropped.
ResolveUnchecked(d, s) ==
  LET asked == journal[s]
  IN  /\ Fresh(d)
      /\ asked.type = "approval-requested"
      /\ Appends(d, << Row("approval-resolved", asked.turn, 0, asked.ids, d) >>,
                 [Idle EXCEPT !.pc = "resolving", !.turn = asked.turn,
                              !.answers = asked.ids],
                 [Idle EXCEPT !.pc = "dead", !.turn = asked.turn])
      /\ UNCHANGED streamed

\* resolveApproval: the check and the insert are one synchronous stretch.
ResolveApproval(d, s) ==
  LET asked == journal[s]
  IN  /\ Fresh(d)
      /\ asked.type = "approval-requested"
      /\ \A call \in asked.ids : ~AlreadyResolved(journal, call)
      /\ Appends(d, << Row("approval-resolved", asked.turn, 0, asked.ids, d) >>,
                 [Idle EXCEPT !.pc = "resolving", !.turn = asked.turn,
                              !.answers = asked.ids],
                 [Idle EXCEPT !.pc = "dead", !.turn = asked.turn])
      /\ UNCHANGED streamed

SpendRead(d) ==
  /\ driver[d].pc = "resolving"
  /\ Set(d, [driver[d] EXCEPT !.pc = "reading", !.running = Spend(journal)])
  /\ UNCHANGED <<journal, streamed, faults>>

\* fetchAllEvents and reconstructForContinuation: the prompt is rebuilt from
\* the messages journaled so far.
EventsRead(d) ==
  LET first == NextHop(journal, driver[d].turn)
  IN  /\ driver[d].pc = "reading"
      /\ Set(d, EntersHop([driver[d] EXCEPT !.start = first, !.hop = first,
           !.knows = driver[d].answers \subseteq
                       CallsInMessages(journal, driver[d].turn)]))
      /\ UNCHANGED <<journal, streamed, faults>>

\* A read, the toolkit or the overlay fails, or the isolate goes.
HandlerFails(d) ==
  /\ driver[d].pc \in Handling
  /\ Fault("handler")
  /\ Set(d, [driver[d] EXCEPT !.pc = "dead"])
  /\ UNCHANGED <<journal, streamed>>

-----------------------------------------------------------------------------
(* A hop                                                                   *)

TextDelta(d) ==
  LET drv == driver[d]
  IN  /\ drv.pc = "streaming"
      /\ drv.text < TextPerHop
      /\ Set(d, [drv EXCEPT !.text = @ + 1])
      /\ streamed' = streamed \cup {Item(d, drv.hop, drv.text + 1)}
      /\ UNCHANGED <<journal, faults>>

ToolCall(d) ==
  LET drv == driver[d]
      call == Item(d, drv.hop, drv.made + 1)
      seen == [drv EXCEPT !.made = @ + 1, !.open = @ \cup {call},
                          !.parts = @ \cup {call}]
  IN  /\ drv.pc = "streaming"
      /\ drv.made < CallsPerHop
      /\ Appends(d, << Row("tool-call", drv.turn, drv.hop, {call}, d) >>,
                 seen, Fails(seen))
      /\ UNCHANGED streamed

\* A call whose rule is "ask"; an answered call is not asked about again.
AskApproval(d, call) ==
  LET drv == driver[d]
      seen == [drv EXCEPT !.open = @ \ {call}]
  IN  /\ drv.pc = "streaming"
      /\ call \in drv.open \ drv.answers
      /\ Appends(d, << Row("approval-requested", drv.turn, drv.hop, {call}, d) >>,
                 [seen EXCEPT !.parked = TRUE], Fails(seen))
      /\ UNCHANGED streamed

ToolResult(d, call) ==
  LET drv == driver[d]
      seen == [drv EXCEPT !.open = @ \ {call}, !.parts = @ \cup {call}]
  IN  /\ drv.pc = "streaming"
      /\ call \in drv.open
      /\ Appends(d, << Row("tool-result", drv.turn, drv.hop, {call}, d) >>,
                 seen, Fails(seen))
      /\ UNCHANGED streamed

\* A failure of the model layer, the hop's timeout, or a defect.
HopFails(d) ==
  /\ driver[d].pc = "streaming"
  /\ Fault("model")
  /\ Set(d, Fails(driver[d]))
  /\ UNCHANGED <<journal, streamed>>

-----------------------------------------------------------------------------
(* The end of a hop                                                        *)

\* Whether a hop that finished for the reason ends the turn's loop.
EndsTurn(drv, reason) == drv.parked \/ reason # "tool-calls"

TextRow(d) ==
  LET drv == driver[d]
  IN  IF drv.text = 0 THEN << >>
      ELSE << Row("assistant-text", drv.turn, drv.hop,
                  {Item(d, drv.hop, n) : n \in 1 .. drv.text}, d) >>

DoneRow(d) == << Row("done", driver[d].turn, 0, {}, d) >>

UsageRow(d, reason) ==
  IF reason = "none" THEN << >>
  ELSE << Row("usage", driver[d].turn, driver[d].hop, {}, d) >>

MessagesRow(d) ==
  LET drv == driver[d]
  IN  IF drv.parts = {} /\ drv.text = 0 THEN << >>
      ELSE << Row("hop-messages", drv.turn, drv.hop, drv.parts, d) >>

\* The usage and the reason come with the finish part.
HopBatch(d, reason) ==
  MessagesRow(d) \o TextRow(d) \o UsageRow(d, reason)
    \o IF EndsTurn(driver[d], reason) /\ reason # "none" /\ ~driver[d].parked
       THEN DoneRow(d) ELSE << >>

\* The hop's text is journaled, and its usage charged.
Charged(drv, reason) ==
  [drv EXCEPT !.text = 0,
              !.running = @ + (IF reason = "none" THEN 0 ELSE HopCost)]

\* Mutant: the text of the hop is left in the buffer.
AfterHopKeepsText(drv, reason) ==
  LET after == [Charged(drv, reason) EXCEPT !.text = drv.text]
  IN  IF EndsTurn(drv, reason) THEN Settles(after)
      ELSE IF drv.hop + 1 < drv.start + MaxHops
           THEN EntersHop([after EXCEPT !.hop = @ + 1])
      ELSE [after EXCEPT !.pc = "capped"]

\* Mutant: the loop ends at the cap as if the turn had reached its terminal.
AfterHopCapEnds(drv, reason) ==
  LET after == Charged(drv, reason)
  IN  IF ~EndsTurn(drv, reason) /\ drv.hop + 1 < drv.start + MaxHops
      THEN EntersHop([after EXCEPT !.hop = @ + 1])
      ELSE Settles(after)

\* Where the loop goes after a hop whose batch is journaled.
AfterHop(drv, reason) ==
  LET after == Charged(drv, reason)
  IN  IF EndsTurn(drv, reason) THEN Settles(after)
      ELSE IF drv.hop + 1 < drv.start + MaxHops
           THEN EntersHop([after EXCEPT !.hop = @ + 1])
      ELSE [after EXCEPT !.pc = "capped"]

\* The model stops, or wants the results of the calls it made, or its stream
\* ends without a finish part.
StreamEnds(d) ==
  LET drv == driver[d]
  IN  /\ drv.pc = "streaming"
      /\ drv.open = {}
      /\ \E reason \in {"tool-calls", "stop"} :
           /\ reason = "tool-calls" => drv.made > 0
           /\ Appends(d, HopBatch(d, reason), AfterHop(drv, reason), Fails(drv))
      /\ UNCHANGED streamed

StreamCut(d) ==
  /\ driver[d].pc = "streaming"
  /\ driver[d].open = {}
  /\ Fault("cut")
  /\ journal' = journal \o HopBatch(d, "none")
  /\ Set(d, AfterHop(driver[d], "none"))
  /\ UNCHANGED streamed

\* The cap is reached: the last finish reason is journaled as done.
CapDone(d) ==
  /\ driver[d].pc = "capped"
  /\ Appends(d, DoneRow(d), Settles(driver[d]), Fails(driver[d]))
  /\ UNCHANGED streamed

-----------------------------------------------------------------------------
(* The driver's terminals.  A failed append is logged and passed over, and *)
(* so is the workspace snapshot, which is left to module Workspace.        *)

FlushPartialHopText(d) ==
  LET drv == driver[d]
      flushed == [drv EXCEPT !.text = 0,
                    !.pc = IF drv.pc = "ending" THEN "over" ELSE "erroring"]
  IN  /\ drv.pc \in {"ending", "failing"}
      /\ Appends(d, TextRow(d), flushed, flushed)
      /\ UNCHANGED streamed

JournalTurnError(d) ==
  LET over == [driver[d] EXCEPT !.pc = "over"]
  IN  /\ driver[d].pc = "erroring"
      /\ Appends(d, << Row("error", driver[d].turn, 0, {}, d) >>, over, over)
      /\ UNCHANGED streamed

\* The isolate is reaped while the detached driver runs.
DriverDies(d) ==
  /\ driver[d].pc \in Driving
  /\ Fault("die")
  /\ Set(d, [driver[d] EXCEPT !.pc = "dead"])
  /\ UNCHANGED <<journal, streamed>>

-----------------------------------------------------------------------------
Request(d) ==
  \/ StreamRequested(d)
  \/ \E s \in DOMAIN journal : ResolveApproval(d, s)

DriverStep(d) ==
  \/ OpenTurnRow(d)
  \/ SpendRead(d)
  \/ EventsRead(d)
  \/ TextDelta(d)
  \/ ToolCall(d)
  \/ \E call \in driver[d].open : AskApproval(d, call) \/ ToolResult(d, call)
  \/ StreamEnds(d)
  \/ CapDone(d)
  \/ FlushPartialHopText(d)
  \/ JournalTurnError(d)

Failure(d) ==
  \/ HandlerFails(d)
  \/ StreamCut(d)
  \/ HopFails(d)
  \/ DriverDies(d)

Next == \E d \in Drivers : Request(d) \/ DriverStep(d) \/ Failure(d)

Spec == Init /\ [][Next]_vars

\* The Worker runs on, the model and the journal answer.
FairSpec == Spec /\ \A d \in Drivers : WF_vars(DriverStep(d))

-----------------------------------------------------------------------------
(* Type correctness                                                        *)

Items == Drivers \X Nat \X Nat

RowType == [type: RowTypes, turn: Nat, hop: Nat, ids: SUBSET Items, by: Drivers]

DriverType ==
  [pc: Handling \cup Driving \cup Resting, opens: BOOLEAN, turn: Nat, start: Nat, hop: Nat,
   made: Nat, open: SUBSET Items, parts: SUBSET Items, text: Nat,
   parked: BOOLEAN, running: Nat, answers: SUBSET Items, knows: BOOLEAN]

\* The journal and the drivers keep their shape: the turn of every row is the
\* seq of a user-message (verify), and a driver never goes past its last hop.
TypeOK ==
  /\ journal \in Seq(RowType)
  /\ driver \in [Drivers -> DriverType]
  /\ streamed \subseteq Items
  /\ faults \subseteq Faults
  /\ \A s \in DOMAIN journal : journal[s].turn \in Turns(journal)
  /\ \A d \in Drivers : driver[d].pc \in Driving =>
       /\ driver[d].turn \in Turns(journal)
       /\ driver[d].hop \in driver[d].start .. driver[d].start + MaxHops - 1

-----------------------------------------------------------------------------
(* Safety                                                                  *)

\* A tool call is answered at most once (resolveApproval: "concurrent approves
\* cannot both pass the already-resolved check"): however many approves race,
\* and however soon they come, a call that was parked runs once.
CallAnsweredOnce ==
  \A s, r \in DOMAIN journal :
    journal[s].type = "tool-result" /\ journal[r].type = "tool-result"
      /\ journal[s].ids = journal[r].ids => s = r

\* No text is journaled twice, and when a driver is over all the text it sent
\* to its client is journaled, in whichever hop it failed, unless an append
\* failed (flushPartialHopText).
TextRows == {s \in DOMAIN journal : journal[s].type = "assistant-text"}
TextJournaledOnce ==
  faults \cap {"lost", "refused"} = {} =>
  /\ \A s, r \in TextRows : s # r => journal[s].ids \cap journal[r].ids = {}
  /\ \A d \in Drivers : driver[d].pc = "over" =>
       {i \in streamed : i[1] = d} \subseteq
         UNION {journal[s].ids : s \in TextRows}

\* The drivers of a turn have written one after the other.
OneAtATime ==
  \A s, r, q \in DOMAIN journal :
    /\ s < r /\ r < q /\ journal[s].by = journal[q].by
    /\ journal[s].turn = journal[r].turn /\ journal[r].turn = journal[q].turn
    => journal[r].by = journal[s].by

\* When nobody is at work, no hop or append failed, and the drivers of each turn
\* took turns, the journal passes verify-journal: each hop's messages are there
\* and have all its tool events, however often the turn parked and continued.
JournalVerifies ==
  (/\ faults \subseteq {"handler"}
   /\ \A d \in Drivers : driver[d].pc \in Resting
   /\ OneAtATime) => Verifies(journal)

\* The prompt of a continuation has the call that the approval is about, when
\* no hop or append failed before (reconstructForContinuation rebuilds the exact
\* prompt of the parked turn).
ContinuationKnowsItsCall ==
  faults \subseteq {"handler"} => \A d \in Drivers : driver[d].knows

-----------------------------------------------------------------------------
(* Liveness                                                                *)

\* An open turn comes to a terminal or a parked approval, whatever its hops do
\* and however its budget ends, unless the driver it had is lost, its stream
\* was cut or an append failed.
OpenTurnSettles ==
  \A d \in Drivers :
    LET turn == driver[d].turn
    IN  OpenTurn(journal, turn) ~>
          \/ ~OpenTurn(journal, turn)
          \/ faults \cap {"cut", "refused", "lost"} # {}
          \/ \E k \in Drivers : driver[k].turn = turn /\ driver[k].pc = "dead"
=============================================================================
