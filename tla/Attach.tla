------------------------------- MODULE Attach --------------------------------
(* Following a turn: the response stream of POST /stream with its sliding    *)
(* queue (StreamingTurn.ts), the journal tail behind GET /attach             *)
(* (AttachStream.ts), and the web client that reads the one and, when it     *)
(* breaks off, reconnects to the other (apps/web/src/atoms.ts).  The turns   *)
(* themselves are those of module Turn, seen from their journal rows only.   *)
(* Frames are the journal's sequence numbers; time is counted in ticks.      *)
EXTENDS Integers, Sequences, FiniteSets, SequencesExt

CONSTANTS
  MaxTurns,     \* bound: turns opened
  MaxRows,      \* bound: rows the turns journal before they end, in all
  PostCap,      \* capacity of the response's sliding queue (256)
  PageLimit,    \* rows per page of the journal (500)
  Attempts,     \* MAX_ATTACH_ATTEMPTS
  Hop,          \* the longest silence of a live turn, in ticks
  Stale,        \* STALENESS_CUTOFF_MILLIS, in ticks
  Cap,          \* ATTACH_TAIL_CAP_MILLIS, in ticks
  Faults,       \* what may go wrong, a subset of FaultKinds
  MaxFaults     \* bound: how often it may

FaultKinds == {"cut", "gone", "slow", "refused", "close", "reset"}

\* The cutoff exceeds a hop by a margin: the silence counted from a read may
\* exceed the turn's own by the tick of that read.
ASSUME AttachAssumption ==
  /\ {MaxTurns, MaxRows, PostCap, PageLimit, Attempts, Hop} \subseteq Nat \ {0}
  /\ Stale \in Nat /\ Stale > Hop + 1
  /\ Cap \in Nat /\ Cap > Stale
  /\ Faults \subseteq FaultKinds /\ MaxFaults \in Nat

VARIABLES
  rows,     \* the journal
  next,     \* the sequence number of its next row
  turns,    \* the turns, as far as their journal rows go
  post,     \* the response of the client's own POST
  tail,     \* the tail serving the client
  client,   \* the web client
  closing,  \* close() has journaled session-closed and not wiped yet
  faults,   \* faults so far
  emitted,  \* rows journaled by running turns so far
  feed      \* history: per turn the frames journaled until its rows were wiped

vars == <<rows, next, turns, post, tail, client, closing, faults, emitted, feed>>

Turns == 1..MaxTurns
Terminal == {"done", "error"}
Frame == {"part", "ask"} \cup Terminal

NoTurn == [st |-> "none", idle |-> 0, slow |-> FALSE, wiped |-> FALSE]
NoPost == [queue |-> <<>>, by |-> "none"]
NoTail == [pc |-> "none", scan |-> 0, acc |-> {}, target |-> 0, open |-> FALSE,
           after |-> 0, batch |-> <<>>, got |-> FALSE, more |-> FALSE,
           stop |-> FALSE, pend |-> FALSE, quiet |-> 0, age |-> 0,
           polled |-> FALSE, why |-> "none"]
NoClient == [pc |-> "idle", own |-> 0, of |-> 0, shown |-> <<>>, saw |-> FALSE,
             stopped |-> FALSE, progress |-> FALSE, left |-> 0]

Init ==
  /\ rows = <<>> /\ next = 1 /\ closing = FALSE /\ faults = 0 /\ emitted = 0
  /\ turns = [t \in Turns |-> NoTurn]
  /\ feed = [t \in 0..MaxTurns |-> <<>>]
  /\ post = NoPost /\ tail = NoTail /\ client = NoClient

\* A fault of kind k happens.
Fault(k) == k \in Faults /\ faults < MaxFaults /\ faults' = faults + 1

-----------------------------------------------------------------------------
(* The journal.                                                              *)

\* One row is appended for turn t.
Journal(tag, t) ==
  /\ rows' = Append(rows, [seq |-> next, tag |-> tag, turn |-> t])
  /\ next' = next + 1
  /\ feed' = IF tag \in Frame /\ ~turns[t].wiped
             THEN [feed EXCEPT ![t] = Append(@, next)] ELSE feed

\* Mutant: a full queue drops the newest part.
DropNewest(q) == IF Len(q) > PostCap THEN SubSeq(q, 1, PostCap) ELSE q

\* Sliding queue: past the capacity the oldest part is dropped.
Slide(q) == IF Len(q) > PostCap THEN Tail(q) ELSE q

\* The driver of t offers a part to the response, if it is the client's, and
\* ends the queue with it when the turn ends or parks; a failure of the turn
\* fails the queue and is not a part of it.
Offer(t, tag) ==
  post' = IF client.pc = "post" /\ client.own = t /\ post.by = "none"
          THEN [queue |-> IF tag = "error" THEN post.queue
                     ELSE Slide(Append(post.queue, tag)),
                by |-> IF tag = "part" THEN "none" ELSE tag]
          ELSE post

Touch(t, st) == turns' = [turns EXCEPT ![t].st = st, ![t].idle = 0,
                                       ![t].slow = @ /\ st # "ended"]

\* A turn is opened: its user message is journaled.
Open(t) ==
  /\ turns[t].st = "none" /\ \A s \in 1..(t - 1) : turns[s].st # "none"
  /\ Journal("user", t)
  /\ turns' = [turns EXCEPT ![t].st = "live"]

OpenBeside == \E t \in Turns :
  Open(t) /\ UNCHANGED <<post, tail, client, closing, faults, emitted>>

\* A live turn journals a row with a frame.
Emit(t) ==
  /\ turns[t].st = "live" /\ emitted < MaxRows /\ emitted' = emitted + 1
  /\ Journal("part", t) /\ Offer(t, "part")
  /\ Touch(t, "live")
  /\ UNCHANGED <<tail, client, closing, faults>>

\* A live turn ends, or parks on an approval.
End(t) ==
  /\ turns[t].st = "live"
  /\ \E tag \in Terminal \cup {"ask"} :
       /\ tag = "ask" => emitted < MaxRows
       /\ emitted' = IF tag = "ask" THEN emitted + 1 ELSE emitted
       /\ Journal(tag, t) /\ Offer(t, tag)
       /\ Touch(t, IF tag = "ask" THEN "parked" ELSE "ended")
  /\ UNCHANGED <<tail, client, closing, faults>>

\* Somebody approves: the turn goes on, on a response of its own.
Resolve(t) ==
  /\ turns[t].st = "parked"
  /\ \E i \in DOMAIN rows : rows[i].tag = "ask" /\ rows[i].turn = t
  /\ Journal("resolved", t) /\ Touch(t, "live")
  /\ UNCHANGED <<post, tail, client, closing, faults, emitted>>

\* The isolate is gone, or the model's stream ended without a finish: no
\* terminal row is ever written.
Gone(t) ==
  /\ turns[t].st = "live" /\ Fault("gone")
  /\ turns' = [turns EXCEPT ![t].st = "gone"]
  /\ post' = IF client.pc = "post" /\ client.own = t /\ post.by = "none"
             THEN [post EXCEPT !.by = "gone"] ELSE post
  /\ UNCHANGED <<rows, next, emitted, feed, tail, client, closing>>

\* A tool call that runs for longer than a hop may be silent.
Slow(t) ==
  /\ turns[t].st = "live" /\ ~turns[t].slow /\ Fault("slow")
  /\ turns' = [turns EXCEPT ![t].slow = TRUE]
  /\ UNCHANGED <<rows, next, emitted, feed, post, tail, client, closing>>

\* DELETE FROM journal; the sequence numbers go on.
Wipe ==
  /\ rows' = <<>>
  /\ turns' = [t \in Turns |-> IF turns[t].st = "none" THEN turns[t]
                               ELSE [turns[t] EXCEPT !.wiped = TRUE]]
  /\ UNCHANGED <<next, emitted, feed, post, tail, client>>

Reset == ~closing /\ Fault("reset") /\ Wipe /\ UNCHANGED closing

Close ==
  /\ ~closing /\ Fault("close") /\ closing' = TRUE
  /\ rows' = Append(rows, [seq |-> next, tag |-> "closed", turn |-> 0])
  /\ next' = next + 1
  /\ UNCHANGED <<turns, emitted, feed, post, tail, client>>

CloseEnds == closing /\ Wipe /\ closing' = FALSE /\ UNCHANGED faults

-----------------------------------------------------------------------------
(* GET /attach.                                                              *)

\* The rows after a cursor, one page of them.
PageAfter(after) ==
  LET read == CHOOSE n \in 0..Len(rows) : \A i \in DOMAIN rows : rows[i].seq > after <=> i > n
  IN SubSeq(rows, read + 1, IF Len(rows) < read + PageLimit THEN Len(rows) ELSE read + PageLimit)

\* The latest turn among the rows, as the sequence number of its user message.
Target(acc) ==
  LET users == {r.seq : r \in {r \in acc : r.tag = "user"}}
  IN IF users = {} THEN 0 ELSE CHOOSE s \in users : \A u \in users : u <= s

TurnAt(acc, seq) ==
  IF seq = 0 THEN 0 ELSE (CHOOSE r \in acc : r.seq = seq).turn

\* The turn waits for an approval: asked more often than answered.
ParkedIn(acc, t) ==
  LET Of(tag) == {r \in acc : r.tag = tag /\ r.turn = t}
  IN Cardinality(Of("ask")) > Cardinality(Of("resolved"))

\* The turn is still running, as far as the rows tell.
InFlight(acc) ==
  LET t == TurnAt(acc, Target(acc))
  IN /\ t # 0 /\ ~ParkedIn(acc, t)
     /\ ~\E r \in acc : r.tag = "closed" \/ (r.tag \in Terminal /\ r.turn = t)

\* analyzeJournal: one page of the scan; the last one settles what to follow.
Analyze ==
  /\ tail.pc = "analyze"
  /\ LET page == PageAfter(tail.scan)
         acc == tail.acc \cup ToSet(page)
         full == Len(page) = PageLimit
     IN IF full
        THEN /\ tail' = [tail EXCEPT !.acc = acc, !.scan = Last(page).seq]
             /\ UNCHANGED client
        ELSE /\ tail' = [NoTail EXCEPT
                  !.pc = "check", !.target = TurnAt(acc, Target(acc)),
                  !.open = InFlight(acc),
                  !.after = IF Target(acc) = 0 THEN 0 ELSE Target(acc) - 1]
             /\ client' = [client EXCEPT !.of = TurnAt(acc, Target(acc))]
  /\ UNCHANGED <<rows, next, turns, post, closing, faults, emitted, feed>>

Settled(t, why) == [t EXCEPT !.pc = "done", !.why = why]

\* runTail: what follows the last row of a page.
PageDone(t) ==
  LET read == [t EXCEPT !.quiet = IF t.got THEN 0 ELSE @]
  IN IF t.stop THEN Settled(read, "stop")
     ELSE IF t.more THEN [read EXCEPT !.pc = "check"]
     ELSE IF ~t.open THEN Settled(read, "still")
     ELSE IF t.pend THEN Settled(read, "parked")
     ELSE [read EXCEPT !.pc = "sleep"]

\* Mutant: the cutoff is shorter than a hop.
PollImpatiently ==
  /\ \/ tail.pc = "check"
     \/ tail.pc = "sleep" /\ (tail.polled => PageAfter(tail.after) # <<>>)
  /\ LET page == PageAfter(tail.after)
         read == [tail EXCEPT
                    !.pc = "emit", !.batch = page, !.got = page # <<>>,
                    !.more = Len(page) = PageLimit, !.polled = TRUE,
                    !.after = IF page = <<>> THEN @ ELSE Last(page).seq]
     IN tail' = IF tail.age >= Cap THEN Settled(tail, "cap")
                ELSE IF tail.quiet >= Hop THEN Settled(tail, "stale")
                ELSE IF page = <<>> THEN PageDone(read) ELSE read
  /\ UNCHANGED <<rows, next, turns, post, client, closing, faults, emitted, feed>>

\* runTail: the head of the loop, and the read of one page.  The polls of one
\* tick that find nothing new are one.
Poll ==
  /\ \/ tail.pc = "check"
     \/ tail.pc = "sleep" /\ (tail.polled => PageAfter(tail.after) # <<>>)
  /\ LET page == PageAfter(tail.after)
         read == [tail EXCEPT
                    !.pc = "emit", !.batch = page, !.got = page # <<>>,
                    !.more = Len(page) = PageLimit, !.polled = TRUE,
                    !.after = IF page = <<>> THEN @ ELSE Last(page).seq]
     IN tail' = IF tail.age >= Cap THEN Settled(tail, "cap")
                ELSE IF tail.quiet >= Stale THEN Settled(tail, "stale")
                ELSE IF page = <<>> THEN PageDone(read) ELSE read
  /\ UNCHANGED <<rows, next, turns, post, client, closing, faults, emitted, feed>>

\* runTail: one row of the page.  The tail's queue holds back a tail whose
\* client does not read, so that a frame is shown as it is offered: the web
\* client's recordAttachFrame is part of the step.  Frames of other turns are
\* shown as well; "shown" keeps those of the turn that is followed.
EmitRow ==
  /\ tail.pc = "emit"
  /\ LET row == Head(tail.batch)
         followed == row.turn = tail.target
         stops == row.tag = "closed" \/ (row.tag \in Terminal /\ followed)
         emit == [tail EXCEPT
                    !.pend = (@ /\ ~(row.tag = "resolved" /\ followed))
                               \/ (row.tag = "ask" /\ followed),
                    !.stop = stops,
                    !.batch = IF stops THEN <<>> ELSE Tail(@)]
     IN /\ tail' = IF emit.batch = <<>> THEN PageDone(emit) ELSE emit
        /\ client' = IF row.tag \notin Frame THEN client
                     ELSE [client EXCEPT
                             !.shown = IF row.seq \in ToSet(feed[client.of])
                                       THEN Append(@, row.seq) ELSE @,
                             !.progress = TRUE,
                             !.saw = @ \/ row.tag \in Terminal,
                             !.stopped = @ \/ row.tag # "part"]
  /\ UNCHANGED <<rows, next, turns, post, closing, faults, emitted, feed>>

Blocked == tail.pc = "emit" /\ Head(tail.batch).tag \in Frame

\* A tick passes.  The tail polls several times a tick unless its reader
\* blocks it; a live turn journals within a hop unless a tool call is slow.
Tick ==
  /\ Blocked \/ (tail.pc = "sleep" /\ tail.polled)
  /\ \A t \in Turns : turns[t].st = "live" => turns[t].slow \/ turns[t].idle < Hop
  /\ tail' = [tail EXCEPT !.polled = FALSE,
                          !.quiet = IF @ < Stale THEN @ + 1 ELSE @,
                          !.age = IF @ < Cap THEN @ + 1 ELSE @]
  /\ turns' = [t \in Turns |->
       IF turns[t].st = "live" /\ turns[t].idle < Hop
       THEN [turns[t] EXCEPT !.idle = @ + 1] ELSE turns[t]]
  /\ UNCHANGED <<rows, next, post, client, closing, faults, emitted, feed>>

-----------------------------------------------------------------------------
(* The web client.                                                           *)

Unheard == <<rows, next, turns, closing, emitted, feed>>

\* attachTail with all its attempts left.
Gap(c) == [c EXCEPT !.pc = "gap", !.own = 0, !.left = Attempts]

\* streamAtom: the POST opens a turn, or fails before it does.
Post ==
  /\ client.pc = "idle"
  /\ \/ \E t \in Turns :
          /\ Open(t)
          /\ client' = [NoClient EXCEPT !.pc = "post", !.own = t]
          /\ UNCHANGED faults
     \/ /\ Fault("refused") /\ client' = Gap(NoClient)
        /\ UNCHANGED <<rows, next, turns, feed>>
  /\ post' = NoPost
  /\ UNCHANGED <<tail, closing, emitted>>

\* resumeAtom: the page is loaded while the latest turn is in flight.
Resume ==
  /\ client.pc = "idle" /\ InFlight(ToSet(rows))
  /\ client' = Gap(NoClient)
  /\ UNCHANGED <<Unheard, post, tail, faults>>

\* recordTerminal: a frame of the POST response arrives.
TakePost ==
  /\ client.pc = "post" /\ post.queue # <<>>
  /\ client' = [client EXCEPT !.saw = @ \/ Head(post.queue) # "part"]
  /\ post' = [post EXCEPT !.queue = Tail(@)]
  /\ UNCHANGED <<Unheard, tail, faults>>

\* The POST response ends; a failed queue becomes a last error frame.
PostEnds ==
  /\ client.pc = "post" /\ post.by # "none" /\ post.queue = <<>>
  /\ client' = Gap([client EXCEPT !.saw = @ \/ post.by = "error"])
  /\ post' = NoPost
  /\ UNCHANGED <<Unheard, tail, faults>>

\* Mutant: a reconnected tail adds to the transcript.
ReconnectAppends ==
  /\ client.pc = "gap"
  /\ IF client.left <= 0 \/ client.saw
     THEN client' = NoClient /\ UNCHANGED tail
     ELSE /\ client' = [client EXCEPT !.pc = "tail",
                                      !.stopped = FALSE, !.progress = FALSE]
          /\ tail' = [NoTail EXCEPT !.pc = "analyze"]
  /\ UNCHANGED <<Unheard, post, faults>>

\* attachTail: after the backoff, reconnect with a transcript from scratch.
Reconnect ==
  /\ client.pc = "gap"
  /\ IF client.left <= 0 \/ client.saw
     THEN client' = NoClient /\ UNCHANGED tail
     ELSE /\ client' = [client EXCEPT !.pc = "tail", !.of = 0, !.shown = <<>>,
                                      !.stopped = FALSE, !.progress = FALSE]
          /\ tail' = [NoTail EXCEPT !.pc = "analyze"]
  /\ UNCHANGED <<Unheard, post, faults>>

\* Mutant: attempts are not counted.
ContinueForever(c) ==
  IF c.saw \/ c.stopped \/ ~c.progress THEN NoClient ELSE [c EXCEPT !.pc = "gap"]

\* The segment is over: go on if it has shown something and nothing final.
Continue(c) ==
  IF c.saw \/ c.stopped \/ ~c.progress THEN NoClient
  ELSE [c EXCEPT !.pc = "gap", !.left = @ - 1]

SegmentEnds ==
  /\ client.pc = "tail" /\ tail.pc = "done"
  /\ client' = Continue(client) /\ tail' = NoTail
  /\ UNCHANGED <<Unheard, post, faults>>

\* A connection breaks off: the catchCause of either segment ends it quietly.
\* The driver of a POST goes on; a tail is interrupted with its stream.
Cut ==
  /\ client.pc \in {"post", "tail"} /\ Fault("cut")
  /\ client' = IF client.pc = "post" THEN Gap(client) ELSE Continue(client)
  /\ tail' = NoTail /\ post' = NoPost
  /\ UNCHANGED Unheard

-----------------------------------------------------------------------------
TurnStep(t) == Emit(t) \/ End(t)
TailStep == Analyze \/ Poll \/ EmitRow
ClientStep == TakePost \/ PostEnds \/ Reconnect \/ SegmentEnds

Next ==
  \/ OpenBeside \/ Reset \/ Close \/ CloseEnds
  \/ \E t \in Turns : TurnStep(t) \/ Resolve(t) \/ Gone(t) \/ Slow(t)
  \/ TailStep \/ Tick
  \/ Post \/ Resume \/ ClientStep \/ Cut

Spec == Init /\ [][Next]_vars

\* A driver ends every hop, a tail is polled by its own timer, a browser reads
\* what arrives and sees connections end.
FairSpec ==
  /\ Spec
  /\ \A t \in Turns : WF_vars(TurnStep(t))
  /\ WF_vars(Analyze) /\ WF_vars(Poll) /\ WF_vars(EmitRow)
  /\ WF_vars(Tick)
  /\ WF_vars(TakePost) /\ WF_vars(PostEnds) /\ WF_vars(Reconnect)
  /\ WF_vars(SegmentEnds)

-----------------------------------------------------------------------------
(* Properties.                                                               *)

Followed == INSTANCE Feed WITH
  Followable <- 0..MaxTurns, Frames <- Nat, sent <- feed,
  view <- [turn |-> client.of, seen |-> client.shown]

\* A client that follows a turn through GET /attach is shown that turn's frames
\* from the first on, in order, none twice and none left out, whatever other
\* turns write meanwhile and however often it reconnects (AttachStream.ts:
\* startCursor, the cursor of runTail; atoms.ts: attachTail's fresh seed).
FollowsFeed == Followed!FeedSpec

\* The tail gives a live turn up as stale only when a tool call of it has been
\* silent for longer than a hop, or its rows were wiped (AttachStream.ts
\* STALENESS_CUTOFF_MILLIS).
HealthyTurnIsNotStale ==
  [][(tail'.why = "stale" /\ tail.why # "stale") =>
       ~\E t \in Turns : /\ t = tail.target /\ turns[t].st = "live"
                         /\ ~turns[t].slow /\ ~turns[t].wiped]_vars

\* A response that the driver has ended, rather than a fault, has told the
\* client so, even if the sliding queue has dropped some of its parts: no
\* needless reconnect (StreamingTurn.ts Queue.sliding; atoms.ts recordTerminal).
EndedPostIsKnown ==
  [][(client.pc = "post" /\ PostEnds /\ post.by # "gone") => client'.saw]_vars

\* Every POST and every resume comes to its end, whatever becomes of the turn:
\* a tail never polls a dead turn for good (atoms.ts MAX_ATTACH_ATTEMPTS,
\* AttachStream.ts staleness and cap).
ClientSettles == client.pc \in {"post", "gap", "tail"} ~> client.pc = "idle"
=============================================================================
