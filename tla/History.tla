------------------------------- MODULE History -------------------------------
(* The conversation a model is shown: the history fold over the journal      *)
(* (Agent.ts history) and context compaction (Compaction.ts), for a session  *)
(* several clients prompt at once and may reset.  A message is named by the  *)
(* turn and the row it came in; a summary is the set of messages it covers.  *)
EXTENDS Integers, Sequences, FiniteSets, FiniteSetsExt

CONSTANTS
  Prompts,     \* the requests clients make
  Legacy,      \* the messages of a session from before the journal, by tag
  Keep,        \* KEEP_RECENT_TURNS
  PageLimit,   \* rows per page of fetchAllEvents (500)
  MaxTexts,    \* bound: texts a turn journals
  MaxWipes     \* bound: resets

ASSUME HistoryAssumption ==
  /\ IsFiniteSet(Prompts) /\ Legacy \in Seq({"user", "text"})
  /\ "legacy" \notin Prompts
  /\ {Keep, PageLimit, MaxTexts} \subseteq Nat \ {0} /\ MaxWipes \in Nat

VARIABLES
  rows,      \* the journal, a table whose rows carry their number
  next,      \* AUTOINCREMENT: the sequence number of its next row
  turns,     \* per request, how far its handler and its turn are
  wipes      \* resets so far

vars == <<rows, next, turns, wipes>>

NoPlan == [through |-> -1, covers |-> {}]

NotStarted == [pc |-> "none", key |-> 0, life |-> 0, texts |-> 0,
               read |-> {}, plan |-> NoPlan]

Row(seq, tag, turn, id) ==
  [seq |-> seq, tag |-> tag, turn |-> turn, id |-> id, plan |-> NoPlan,
   life |-> 0, late |-> FALSE]

\* The constructor's migration: an old message answers the last user message
\* before it, or, if there is none, turn 0.
TurnOf(i) == Max({0} \cup {j \in 1..i : Legacy[j] = "user"})

Seeded == {Row(i, Legacy[i], TurnOf(i), <<"legacy", i>>) : i \in DOMAIN Legacy}

Init ==
  /\ rows = Seeded /\ next = Len(Legacy) + 1 /\ wipes = 0
  /\ turns = [p \in Prompts |-> NotStarted]

-----------------------------------------------------------------------------
(* The folds.                                                                *)

IsMessage(row) == row.tag \in {"user", "text"}

Messages(rs) == {row \in rs : IsMessage(row)}

MessagesOf(rs, keys) == {row.id : row \in {row \in Messages(rs) : row.turn \in keys}}

\* The place of a turn in the fold is that of its first message.
First(rs, key) == Min({row.seq : row \in {row \in Messages(rs) : row.turn = key}})

\* The last compaction among some rows.
Latest(rs) ==
  LET comps == {row \in rs : row.tag = "compaction"}
  IN IF comps = {} THEN NoPlan
     ELSE (CHOOSE row \in comps : \A other \in comps : other.seq <= row.seq).plan

\* The turns beyond the watermark.
Eligible(rs) ==
  {key \in {row.turn : row \in Messages(rs)} : key > Latest(rs).through}

\* The eligible turns a turn comes before.
Later(rs, key) == {other \in Eligible(rs) : First(rs, key) < First(rs, other)}

\* All but the last keep of them.
Older(rs, keep) == {key \in Eligible(rs) : Cardinality(Later(rs, key)) >= keep}

\* The last of the older turns, whose number is the new watermark.
LastOf(rs, older) ==
  CHOOSE key \in older : \A other \in older : First(rs, other) <= First(rs, key)

\* Mutant: the turns before the watermark are summarised from nothing.
PlanUnchained(rs) ==
  LET older == Older(rs, Keep)
  IN IF older = {} THEN NoPlan
     ELSE [through |-> LastOf(rs, older), covers |-> MessagesOf(rs, older)]

\* Mutant: one turn fewer is kept.
PlanKeepsLess(rs) ==
  LET older == Older(rs, Keep - 1)
  IN IF Older(rs, Keep) = {} THEN NoPlan
     ELSE [through |-> LastOf(rs, older),
           covers |-> Latest(rs).covers \cup MessagesOf(rs, older)]

\* planCompaction: all but the last Keep turns beyond the watermark, and what
\* the summary before them covered; NoPlan if there is nothing to compact.
Plan(rs) ==
  LET older == Older(rs, Keep)
  IN IF older = {} THEN NoPlan
     ELSE [through |-> LastOf(rs, older),
           covers |-> Latest(rs).covers \cup MessagesOf(rs, older)]

\* history(): the messages served word for word.
Verbatim(rs) == MessagesOf(rs, Eligible(rs))

\* history(): the messages served by the summary.
Summarised(rs) == Latest(rs).covers

\* The first PageLimit rows after one.
PageAfter(after) ==
  {row \in rows : /\ row.seq > after
                  /\ Cardinality({r \in rows : after < r.seq /\ r.seq < row.seq}) < PageLimit}

-----------------------------------------------------------------------------
(* The handlers.                                                             *)

Becomes(p, turn) == turns' = [turns EXCEPT ![p] = turn]

\* appendEvents, one row.
AppendRow(row) == rows' = rows \cup {row} /\ next' = next + 1

\* compactIfNeeded: the last usage is above the threshold, or not.
Begin(p) ==
  /\ turns[p].pc = "none"
  /\ \/ Becomes(p, [turns[p] EXCEPT !.pc = "open"])
     \/ /\ \E row \in rows : row.tag = "text"
        /\ Becomes(p, [turns[p] EXCEPT !.pc = "scan"])
  /\ UNCHANGED <<rows, next, wipes>>

\* fetchAllEvents, one page; after the last one, the plan.
Scan(p) ==
  /\ turns[p].pc = "scan"
  /\ LET read == turns[p].read
         page == PageAfter(Max({0} \cup {row.seq : row \in read}))
         plan == Plan(read \cup page)
     IN Becomes(p,
          IF Cardinality(page) = PageLimit THEN [turns[p] EXCEPT !.read = read \cup page]
          ELSE [turns[p] EXCEPT !.read = {}, !.plan = plan,
                                !.pc = IF plan = NoPlan THEN "open" ELSE "summarise"])
  /\ UNCHANGED <<rows, next, wipes>>

\* The summary is there and journaled; or the summariser fails, times out, or
\* the append does, and the turn goes on without.
Compact(p) ==
  /\ turns[p].pc = "summarise"
  /\ Becomes(p, [turns[p] EXCEPT !.pc = "open", !.plan = NoPlan])
  /\ \/ AppendRow([Row(next, "compaction", 0, <<p, -1>>) EXCEPT !.plan = turns[p].plan])
     \/ UNCHANGED <<rows, next>>
  /\ UNCHANGED wipes

\* The handler reads the history, composes its prompt and opens the turn: the
\* user message is journaled, and its number is the turn's.
OpenTurn(p) ==
  /\ turns[p].pc = "open"
  /\ AppendRow([Row(next, "user", next, <<p, 0>>) EXCEPT !.life = wipes])
  /\ Becomes(p, [turns[p] EXCEPT !.pc = "live", !.key = next, !.life = wipes])
  /\ UNCHANGED wipes

\* Some compaction, journaled or about to be, has passed the turn.
Overtaken(key) ==
  \/ \E row \in rows : row.tag = "compaction" /\ key <= row.plan.through
  \/ \E q \in Prompts : turns[q].pc = "summarise" /\ key <= turns[q].plan.through

\* journalHopBatch: a text of the turn.
Text(p) ==
  /\ turns[p].pc = "live" /\ turns[p].texts < MaxTexts
  /\ LET row == Row(next, "text", turns[p].key, <<p, turns[p].texts + 1>>)
     IN AppendRow([row EXCEPT !.life = turns[p].life, !.late = Overtaken(turns[p].key)])
  /\ Becomes(p, [turns[p] EXCEPT !.texts = @ + 1])
  /\ UNCHANGED wipes

\* #wipeStorage: DELETE FROM journal keeps the AUTOINCREMENT counter.
Wipe ==
  /\ wipes < MaxWipes /\ wipes' = wipes + 1
  /\ rows' = {}
  /\ UNCHANGED <<next, turns>>

Next ==
  \/ \E p \in Prompts : \/ Begin(p) \/ Scan(p) \/ Compact(p)
                        \/ OpenTurn(p) \/ Text(p)
  \/ Wipe

Spec == Init /\ [][Next]_vars

-----------------------------------------------------------------------------
(* Properties.                                                               *)

\* No turn of a life before the last reset has written since.
NoStragglers == \A row \in Messages(rows) : row.life = wipes

\* However many requests compact the journal at once, and in whatever order
\* their summaries arrive, those of a life before included, a message of the
\* conversation reaches the model once: word for word, or through the summary.
\* The exceptions are a text of a turn that was still running when a summary
\* passed it, and a journal an old turn has written to after a reset
\* (Compaction.ts planCompaction; Agent.ts history).
ServedOnce ==
  NoStragglers =>
    \A row \in Messages(rows) :
      ~row.late => ~(row.id \in Verbatim(rows) <=> row.id \in Summarised(rows))

\* The last turns of the conversation are always served word for word
\* (Compaction.ts KEEP_RECENT_TURNS).
RecentStayVerbatim ==
  NoStragglers =>
    LET users == {row \in rows : row.tag = "user"}
    IN \A row \in users :
         Cardinality({other \in users : other.seq > row.seq}) < Keep
           => row.id \in Verbatim(rows)
=============================================================================
