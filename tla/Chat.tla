--------------------------------- MODULE Chat ---------------------------------
(* One browser tab of the web client: the chat view, the approval cards and  *)
(* the session switcher over the stream, resume, approve, history and        *)
(* journal atoms, beside the sessions' turns, which other clients use too.   *)
(*                                                                           *)
(* A turn is its journal: pieces of text, at most one ask for an approval    *)
(* and go, its resolution, and done.  A stream shows the turn from its       *)
(* start: its value is the number of entries that have arrived.              *)
EXTENDS Integers, Sequences, FiniteSets, Functions, Query

CONSTANTS
  Sessions,
  MaxAttachAttempts,  \* MAX_ATTACH_ATTEMPTS
  MaxText,            \* bound: the pieces of text of a turn
  MaxTurns,           \* bound: the turns of all sessions
  MaxAsks             \* bound: those of them that ask for an approval

ASSUME ChatAssumption ==
  /\ {MaxAttachAttempts, MaxText, MaxTurns, MaxAsks} \subseteq Nat
  /\ {"post", "approve", "none"} \cap Sessions = {}

VARIABLES
  turns,    \* per session, the turns in its journal
  session,  \* currentSessionAtom
  parts,    \* the live transcript of the view, and by which atom it came
  tab,      \* the state and refs of Chat
  streams,  \* streamAtom, approveStreamAtom, and resumeAtom per session
  queries,  \* historyAtom and journalAtom of the session on screen
  seen      \* history: the done and ask frames that this tab has received

chatVars == <<turns, session, parts, tab, streams, queries, seen>>

noParts == [by |-> "none", in |-> "none", turn |-> 0, frames |-> 0]

Idle == [pc |-> "idle", in |-> "none", turn |-> 0, frames |-> 0, left |-> 0, moved |-> FALSE]

ChatInit ==
  /\ turns \in [Sessions -> {<<>>, <<<<>>>>}]
  /\ session \in Sessions
  /\ parts = noParts
  /\ tab = [pending |-> FALSE, shown |-> 0, resuming |-> FALSE, handled |-> {}]
  /\ streams = [x \in {"post", "approve"} \cup Sessions |-> Idle]
  /\ queries = [q \in {"history", "journal"} |-> Mounted]
  /\ seen = {}

-----------------------------------------------------------------------------
(* The server, as the client sees it.                                        *)

Says(turn) == Cardinality({k \in DOMAIN turn : turn[k] = "text"})
Has(turn, entry) == \E k \in DOMAIN turn : turn[k] = entry
Ended(turn) == Has(turn, "done")
Parked(turn) == Has(turn, "ask") /\ ~Has(turn, "go")

MayOpen == FoldFunction(LAMBDA of, n : n + Len(of), 0, turns) < MaxTurns

Asks == Cardinality({a \in Sessions \X (1..MaxTurns) :
                       a[2] <= Len(turns[a[1]]) /\ Has(turns[a[1]][a[2]], "ask")})

\* A turn under way goes on: a hop is journaled, parks, or ends the turn.
TurnGoesOn ==
  /\ \E s \in Sessions : \E k \in DOMAIN turns[s], entry \in {"text", "ask", "done"} :
       LET turn == turns[s][k] IN
       /\ ~Ended(turn) /\ ~Parked(turn)
       /\ entry = "text" => Says(turn) < MaxText
       /\ entry = "ask" => ~Has(turn, "ask") /\ Asks < MaxAsks
       /\ turns' = [turns EXCEPT ![s][k] = Append(@, entry)]
  /\ UNCHANGED <<session, parts, tab, streams, queries, seen>>

\* Another client prompts a session, or resolves an approval.
OthersAct ==
  /\ \E s \in Sessions :
       \/ MayOpen /\ turns' = [turns EXCEPT ![s] = Append(@, <<>>)]
       \/ \E k \in DOMAIN turns[s] :
            Parked(turns[s][k]) /\ turns' = [turns EXCEPT ![s][k] = Append(@, "go")]
  /\ UNCHANGED <<session, parts, tab, streams, queries, seen>>

-----------------------------------------------------------------------------
(* What a query result says.                                                 *)

\* The messages of the history fold: a prompt, and the text journaled for it.
HistoryLength(history) == Len(history) + Cardinality({k \in DOMAIN history : Says(history[k]) > 0})

PendingApprovals(journal) == {k \in DOMAIN journal : Parked(journal[k])}

LatestTurnInFlight(journal) ==
  journal # <<>> /\ ~Ended(journal[Len(journal)]) /\ ~Parked(journal[Len(journal)])

-----------------------------------------------------------------------------
(* The streams.                                                              *)

\* Mutant: one resume atom for all sessions.
ResumeShared(s) == CHOOSE t \in Sessions : TRUE

\* resumeAtom, a family: each session has its own.
ResumeAtom(s) == s

Transcript(x, stream) ==
  [by |-> IF x \in Sessions THEN "resume" ELSE x, in |-> stream.in, turn |-> stream.turn,
   frames |-> stream.frames]

\* What the view takes of a value published: the resume only while it resumes
\* the session on screen, the stream always.
Published(x, stream) ==
  IF x = "post" \/ (x = ResumeAtom(session) /\ tab.resuming) THEN Transcript(x, stream) ELSE parts

\* A turn is posted: opened and streamed, opened unseen, or not opened at all;
\* what follows then is an attach to the latest turn.
PostTurn ==
  /\ streams["post"].pc = "opening"
  /\ LET in == streams["post"].in IN
     \E opened \in BOOLEAN, pc \in {"open", "gap"} :
       /\ pc = "open" => opened
       /\ IF opened THEN MayOpen /\ turns' = [turns EXCEPT ![in] = Append(@, <<>>)]
          ELSE UNCHANGED turns
       /\ streams' = [streams EXCEPT !["post"] = [@ EXCEPT !.pc = pc, !.turn = Len(turns'[in]),
                                                           !.moved = TRUE]]
  /\ parts' = Published("post", streams'["post"])
  /\ UNCHANGED <<session, tab, queries, seen>>

\* The decision is posted; a second one is refused, for it was resolved before.
PostDecision ==
  /\ streams["approve"].pc = "opening"
  /\ LET a == streams["approve"] IN
     \/ /\ Parked(turns[a.in][a.turn])
        /\ turns' = [turns EXCEPT ![a.in][a.turn] = Append(@, "go")]
        /\ \E pc \in {"open", "failed"} :
             streams' = [streams EXCEPT !["approve"] =
                           [a EXCEPT !.pc = pc, !.frames = Len(turns'[a.in][a.turn])]]
     \/ streams' = [streams EXCEPT !["approve"].pc = "failed"] /\ UNCHANGED turns
  /\ UNCHANGED <<session, parts, tab, queries, seen>>

\* The next frame arrives: an ending, or a park, is the last one.
Frame(x) ==
  LET stream == streams[x]
      entry == turns[stream.in][stream.turn][stream.frames + 1] IN
  /\ stream.pc = "open" /\ stream.frames < Len(turns[stream.in][stream.turn])
  /\ streams' = [streams EXCEPT ![x] =
                   [stream EXCEPT !.frames = stream.frames + 1, !.moved = TRUE,
                                  !.pc = IF entry \in {"text", "go"} THEN "open" ELSE "over"]]
  /\ parts' = Published(x, streams'[x])
  /\ UNCHANGED <<turns, session, tab, queries, seen>>

\* The connection breaks, or the server closes it.
Drop(x) ==
  /\ streams[x].pc = "open"
  /\ streams' = [streams EXCEPT ![x].pc = IF x = "approve" THEN "failed" ELSE "gap"]
  /\ UNCHANGED <<turns, session, parts, tab, queries, seen>>

\* attachTail: after progress, up to three times, the latest turn from its
\* start on an empty transcript; there may be none, or the attach may fail.
Attach(x) ==
  /\ streams[x].pc = "gap"
  /\ LET stream == streams[x]
         again == stream.left > 0 /\ stream.moved IN
     \/ /\ again /\ turns[stream.in] # <<>>
        /\ streams' = [streams EXCEPT ![x] =
                         [stream EXCEPT !.pc = "open", !.turn = Len(turns[stream.in]), !.frames = 0,
                                        !.left = stream.left - 1, !.moved = FALSE]]
     \/ again /\ streams' = [streams EXCEPT ![x] = [stream EXCEPT !.pc = "over", !.frames = 0]]
     \/ ~again /\ streams' = [streams EXCEPT ![x].pc = "over"]
  /\ parts' = Published(x, streams'[x])
  /\ UNCHANGED <<turns, session, tab, queries, seen>>

-----------------------------------------------------------------------------
(* The ends of the streams: refreshHistory, bumpJournal.                     *)

\* Of the queries named, those of the session on screen are sent again; the
\* journal's is always that one.
Refresh(names, in) ==
  [q \in DOMAIN queries |->
     IF q \in names /\ (q = "journal" \/ in = session) THEN Refreshed(queries[q]) ELSE queries[q]]

\* The end that the stream drained has come to.
SeenBy(x) ==
  seen \cup {<<streams[x].in, streams[x].turn, turns[streams[x].in][streams[x].turn][n]>> :
             n \in {streams[x].frames} \ {0}}

\* Mutant: the journal is not refetched.
PostOverNoBump ==
  /\ streams["post"].pc = "over"
  /\ parts' = Published("post", streams["post"])
  /\ tab' = [tab EXCEPT !.pending = FALSE]
  /\ queries' = Refresh({"history"}, streams["post"].in)
  /\ streams' = [streams EXCEPT !["post"] = Idle]
  /\ seen' = SeenBy("post")
  /\ UNCHANGED <<turns, session>>

\* handleSubmit goes on.
PostOver ==
  /\ streams["post"].pc = "over"
  /\ parts' = Published("post", streams["post"])
  /\ tab' = [tab EXCEPT !.pending = FALSE]
  /\ queries' = Refresh({"history", "journal"}, streams["post"].in)
  /\ streams' = [streams EXCEPT !["post"] = Idle]
  /\ seen' = SeenBy("post")
  /\ UNCHANGED <<turns, session>>

\* Mutant: the transcript is cleared, the history not refetched.
ResumeOverNoRefresh(s) ==
  /\ streams[s].pc = "over"
  /\ streams' = [streams EXCEPT ![s] = [@ EXCEPT !.pc = "idle", !.left = 0, !.moved = FALSE]]
  /\ IF s = session
       THEN /\ parts' = noParts
            /\ tab' = [tab EXCEPT !.resuming = FALSE]
            /\ queries' = Refresh({"journal"}, s)
       ELSE UNCHANGED <<parts, tab, queries>>
  /\ seen' = SeenBy(s)
  /\ UNCHANGED <<turns, session>>

\* The resume goes on, if its session is still, or again, the one on screen.
ResumeOver(s) ==
  /\ streams[s].pc = "over"
  /\ streams' = [streams EXCEPT ![s] = [@ EXCEPT !.pc = "idle", !.left = 0, !.moved = FALSE]]
  /\ IF s = session
       THEN /\ parts' = noParts
            /\ tab' = [tab EXCEPT !.resuming = FALSE]
            /\ queries' = Refresh({"history", "journal"}, s)
       ELSE UNCHANGED <<parts, tab, queries>>
  /\ seen' = SeenBy(s)
  /\ UNCHANGED <<turns, session>>

\* decide goes on: a failure only re-enables the card.
ApproveOver ==
  /\ streams["approve"].pc \in {"over", "failed"}
  /\ queries' = IF streams["approve"].pc = "over"
                  THEN Refresh({"history", "journal"}, streams["approve"].in) ELSE queries
  /\ seen' = IF streams["approve"].pc = "over" THEN SeenBy("approve") ELSE seen
  /\ streams' = [streams EXCEPT !["approve"] = Idle]
  /\ UNCHANGED <<turns, session, parts, tab>>

-----------------------------------------------------------------------------
(* The queries.                                                              *)

\* The history has come: a longer one replaces the live transcript.
HistoryEffect(history) ==
  LET longer == HistoryLength(history) > tab.shown IN
  /\ parts' = IF longer THEN noParts ELSE parts
  /\ tab' = [tab EXCEPT !.shown = HistoryLength(history)]
  /\ UNCHANGED streams

\* History and journal are here for the first time on this session: a latest
\* turn in flight is resumed.  A resume atom that has a value shows it first.
ResumeEffect ==
  LET mine == ResumeAtom(session) IN
  /\ tab' = [tab EXCEPT !.handled = {session},
                        !.resuming = LatestTurnInFlight(queries'["journal"].value),
                        !.shown = HistoryLength(queries'["history"].value)]
  /\ IF tab'.resuming
       THEN /\ streams' = [streams EXCEPT ![mine] =
                             [@ EXCEPT !.pc = "gap", !.in = session, !.left = MaxAttachAttempts,
                                       !.moved = TRUE]]
            /\ parts' = IF streams[mine].turn > 0 THEN Transcript(mine, streams[mine]) ELSE noParts
       ELSE /\ UNCHANGED streams
            /\ parts' = IF tab'.shown > tab.shown THEN noParts ELSE parts

QueryDelivered(q) ==
  /\ queries[q].sent
  /\ queries' = [queries EXCEPT ![q] = Delivered(turns[session])]
  /\ IF tab.handled # {session} /\ \A r \in DOMAIN queries' : queries'[r].state = "success"
       THEN ResumeEffect
       ELSE IF q = "history" THEN HistoryEffect(queries'[q].value)
       ELSE UNCHANGED <<parts, tab, streams>>
  /\ UNCHANGED <<turns, session, seen>>

QueryFails(q) ==
  /\ queries[q].sent
  /\ queries' = [queries EXCEPT ![q] = Failed]
  /\ UNCHANGED <<turns, session, parts, tab, streams, seen>>

-----------------------------------------------------------------------------
(* The user.                                                                 *)

\* handleSubmit.
Submit ==
  /\ ~tab.pending /\ ~tab.resuming
  /\ tab' = [tab EXCEPT !.pending = TRUE]
  /\ parts' = noParts
  /\ streams' = [streams EXCEPT !["post"] =
                   [Idle EXCEPT !.pc = "opening", !.in = session, !.left = MaxAttachAttempts]]
  /\ UNCHANGED <<turns, session, queries, seen>>

\* A card on screen is decided, unless it is busy: the approve atom, one for
\* all cards, leaves the continuation it was draining.
Decide ==
  /\ queries["journal"].state = "success"
  /\ \E k \in PendingApprovals(queries["journal"].value) :
       LET a == streams["approve"] IN
       /\ ~(a.pc # "idle" /\ a.in = session /\ a.turn = k)
       /\ streams' = [streams EXCEPT !["approve"] =
                        [Idle EXCEPT !.pc = "opening", !.in = session, !.turn = k]]
  /\ UNCHANGED <<turns, session, parts, tab, queries, seen>>

\* Another session is put on screen: its queries start anew, and the resume of
\* the session left, unless it is running, is forgotten.
Switch(s) ==
  /\ s # session
  /\ session' = s
  /\ parts' = noParts
  /\ tab' = [tab EXCEPT !.shown = 0, !.resuming = FALSE]
  /\ queries' = [q \in DOMAIN queries |-> Mounted]
  /\ LET left == ResumeAtom(session) IN
     streams' = IF left # ResumeAtom(s) /\ streams[left].pc = "idle"
                  THEN [streams EXCEPT ![left] = Idle] ELSE streams
  /\ UNCHANGED <<turns, seen>>

\* The cards offer to fetch the journal again; the transcript does not.
Retry ==
  /\ queries["journal"].state = "failure" /\ ~queries["journal"].sent
  /\ queries' = Refresh({"journal"}, session)
  /\ UNCHANGED <<turns, session, parts, tab, streams, seen>>

-----------------------------------------------------------------------------

ChatUser == Submit \/ Decide \/ Retry \/ \E s \in Sessions : Switch(s)

ChatFaults ==
  \/ OthersAct
  \/ \E q \in DOMAIN queries : QueryFails(q)
  \/ \E x \in DOMAIN streams : Drop(x)

ChatSteps ==
  \/ TurnGoesOn \/ PostTurn \/ PostDecision \/ PostOver \/ ApproveOver
  \/ \E x \in DOMAIN streams : Frame(x) \/ Attach(x)
  \/ \E s \in Sessions : ResumeOver(s)
  \/ \E q \in DOMAIN queries : QueryDelivered(q)

-----------------------------------------------------------------------------
(* Properties.                                                               *)

\* What a resume puts into the transcript is of the session on screen,
\* whichever sessions were resumed before and are still being followed.
ResumeShowsOwnSession == parts.by = "resume" /\ parts.turn > 0 => parts.in = session

\* Nothing of the session on screen is on its way.
AtRest(q) ==
  /\ Settled(queries[q])
  /\ \A x \in DOMAIN streams : streams[x].in = session => streams[x].pc = "idle"

\* The tab has followed a turn to its end: once it is at rest the whole answer
\* is in the history on screen, so it does not matter that the live transcript
\* was cleared.
AnswerIsShown ==
  AtRest("history") =>
    \A k \in DOMAIN turns[session] : <<session, k, "done">> \in seen =>
      LET history == queries["history"].value IN
      k <= Len(history) /\ Says(history[k]) = Says(turns[session][k])

\* The tab has seen a turn park: once it is at rest there is a card to decide
\* it, as long as nobody has.
CardIsShown ==
  AtRest("journal") =>
    \A k \in DOMAIN turns[session] : <<session, k, "ask">> \in seen /\ Parked(turns[session][k]) =>
      k \in PendingApprovals(queries["journal"].value)
=============================================================================
