------------------------------- MODULE Journal -------------------------------
(***************************************************************************)
(* The journal of one session, and what its readers compute from it:       *)
(* analyzeJournal (apps/api/src/AttachStream.ts), maxHopForTurn            *)
(* (Reconstruct.ts), usageTotals and the check of resolveApproval          *)
(* (Agent.ts), and verify (scripts/verify-journal.ts).                     *)
(*                                                                         *)
(* The journal is a sequence of rows and a row's seq is its index; a turn  *)
(* is named by the seq of its user-message.  A payload is abstracted to    *)
(* what it is about: the tool calls it carries or names (a call's approval *)
(* has the name of the call), or the pieces of text it contains.           *)
(***************************************************************************)
EXTENDS Naturals, Sequences, FiniteSets

RowTypes == {"user-message", "assistant-text", "tool-call", "tool-result",
             "approval-requested", "approval-resolved", "hop-messages",
             "usage", "done", "error"}

\* A row with the driver that wrote it; the code does not record the writer.
Row(type, turn, hop, ids, by) ==
  [type |-> type, turn |-> turn, hop |-> hop, ids |-> ids, by |-> by]

IsTerminal(row) == row.type \in {"done", "error"}

RowsOf(journal, turn) ==
  {s \in DOMAIN journal : journal[s].turn = turn
                          /\ journal[s].type # "user-message"}

Turns(journal) == {s \in DOMAIN journal : journal[s].type = "user-message"}

-----------------------------------------------------------------------------
(* Approvals                                                               *)

AlreadyResolved(journal, call) ==
  \E s \in DOMAIN journal : journal[s].type = "approval-resolved"
                            /\ call \in journal[s].ids

\* The approvals of a turn that are still parked.
PendingApprovals(journal, turn) ==
  {s \in RowsOf(journal, turn) :
     journal[s].type = "approval-requested"
       /\ \A call \in journal[s].ids : ~AlreadyResolved(journal, call)}

-----------------------------------------------------------------------------
(* The state of a turn                                                     *)

HasTerminal(journal, turn) ==
  \E s \in RowsOf(journal, turn) : IsTerminal(journal[s])

\* The verdict of analyzeJournal, and of the web client's latestTurnInFlight,
\* on the turn: it is still in progress.
OpenTurn(journal, turn) ==
  /\ turn \in Turns(journal)
  /\ ~HasTerminal(journal, turn)
  /\ PendingApprovals(journal, turn) = {}

\* The rows that carry a hop.
HopTypes == {"assistant-text", "tool-call", "tool-result",
             "approval-requested", "hop-messages", "usage"}

\* The hops the turn has rows of.
HopsOf(journal, turn) ==
  {journal[s].hop : s \in {r \in RowsOf(journal, turn) :
                             journal[r].type \in HopTypes}}

\* Mutant: a continuation starts at the hop that parked.
LastHop(journal, turn) ==
  LET hops == HopsOf(journal, turn)
  IN  IF hops = {} THEN 0 ELSE CHOOSE h \in hops : \A k \in hops : k <= h

\* The hop a continuation starts at: maxHopForTurn + 1.
NextHop(journal, turn) ==
  LET hops == HopsOf(journal, turn)
  IN  IF hops = {} THEN 0
      ELSE 1 + CHOOSE h \in hops : \A k \in hops : k <= h

\* Mutant: only the first page of the journal is read.
CallsInFirstPage(journal, turn) ==
  UNION {journal[s].ids : s \in {r \in RowsOf(journal, turn) :
                                   r <= 6 /\ journal[r].type = "hop-messages"}}

\* The tool calls in the messages of the turn, which are what a continuation's
\* prompt is rebuilt from.
CallsInMessages(journal, turn) ==
  UNION {journal[s].ids : s \in {r \in RowsOf(journal, turn) :
                                   journal[r].type = "hop-messages"}}

\* The hops of a turn that have spent.
UsageRows(journal) == {s \in DOMAIN journal : journal[s].type = "usage"}

-----------------------------------------------------------------------------
(* verify-journal: a hop with tool events whose calls have all been        *)
(* answered in it has messages, and the messages of a hop, the last        *)
(* written, have all its tool events.                                      *)

HopRows(journal, turn, hop, types) ==
  {s \in RowsOf(journal, turn) : journal[s].hop = hop
                                 /\ journal[s].type \in types}

HopIds(journal, turn, hop, types) ==
  UNION {journal[s].ids : s \in HopRows(journal, turn, hop, types)}

HopVerifies(journal, turn, hop) ==
  LET calls == HopIds(journal, turn, hop, {"tool-call"})
      results == HopIds(journal, turn, hop, {"tool-result"})
      messages == HopRows(journal, turn, hop, {"hop-messages"})
  IN  IF messages = {}
      THEN calls \cup results = {} \/ ~(calls \subseteq results)
      ELSE \E s \in messages : /\ \A r \in messages : r <= s
                               /\ calls \cup results \subseteq journal[s].ids

Verifies(journal) ==
  \A turn \in Turns(journal) :
    \A hop \in 0 .. NextHop(journal, turn) : HopVerifies(journal, turn, hop)
=============================================================================
