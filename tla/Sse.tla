--------------------------------- MODULE Sse ---------------------------------
(* The event stream of a tool server as its client reads it (Mcp.ts).        *)
(*                                                                           *)
(* Text is a sequence of characters: nl, cr, data (which opens a data line), *)
(* other, and Piece(m, k, n), the k-th of the n data lines that hold message *)
(* m.  A message is a pair whose first component is the id it answers.       *)
EXTENDS Integers, Sequences, FiniteSets, FiniteSetsExt

nl == <<"nl">>
cr == <<"cr">>
data == <<"data">>
other == <<"other">>
Piece(m, k, n) == <<"piece", m, k, n>>

-----------------------------------------------------------------------------
(* The lines of a text and its events, by the places where they end.         *)

StripCr(line) == IF line # <<>> /\ line[Len(line)] = cr THEN SubSeq(line, 1, Len(line) - 1) ELSE line

Newlines(text) == {i \in DOMAIN text : text[i] = nl}

\* The last of the places before i, 0 without any.
Behind(places, i) == Max({0} \cup {j \in places : j < i})

LineAt(text, i) == StripCr(SubSeq(text, Behind(Newlines(text), i) + 1, i - 1))

\* A blank line completes the event before it.
Blanks(text) == {i \in Newlines(text) : LineAt(text, i) = <<>>}

DataLineValue(line) == Tail(line)

\* The payload of the lines that end at places: by those places, the values
\* of the data lines; <<>> without any.
FramePayload(text, places) ==
  [i \in {i \in places : LineAt(text, i) # <<>> /\ LineAt(text, i)[1] = data}
     |-> DataLineValue(LineAt(text, i))]

\* By the places where they end, the payloads of the complete events.  One
\* that is <<>> parses to nothing.
Frames(buffer) ==
  [b \in Blanks(buffer) |->
     FramePayload(buffer, {i \in Newlines(buffer) : Behind(Blanks(buffer), b) < i /\ i < b})]

\* Mutant: the rest starts with the last line, not with the last event.
ParseByLine(buffer) ==
  [frames |-> Frames(buffer),
   rest |-> SubSeq(buffer, Behind(Newlines(buffer), Len(buffer) + 1) + 1, Len(buffer))]

\* parseSseFrames: the complete events, and the text behind them.
ParseSseFrames(buffer) ==
  [frames |-> Frames(buffer),
   rest |-> SubSeq(buffer, Behind(Blanks(buffer), Len(buffer) + 1) + 1, Len(buffer))]

\* The last event of a stream may lack its blank line, or the end of its line.
FlushSseFrame(rest) == FramePayload(Append(rest, nl), Newlines(Append(rest, nl)))

\* A payload is message m: its values are the pieces of m, in their order.
Whole(payload, m, n) ==
  /\ \A i \in DOMAIN payload : \E k \in 1..n : payload[i] = <<Piece(m, k, n)>>
  /\ \A k \in 1..n : \E i \in DOMAIN payload : payload[i] = <<Piece(m, k, n)>>
  /\ \A i, j \in DOMAIN payload : i < j => payload[i][1][3] < payload[j][1][3]

\* The message a payload parses to, <<>> if it is not JSON.
TryParse(payload) ==
  LET values == {payload[i] : i \in DOMAIN payload}
      pieces == {v[1] : v \in {v \in values : Len(v) = 1 /\ v[1][1] = "piece"}}
      whole == {p \in pieces : Whole(payload, p[2], p[4])}
  IN IF whole = {} THEN <<>> ELSE (CHOOSE p \in whole : TRUE)[2]

\* The first of the frames that parses to a message with the id.
MatchFrameById(frames, id) ==
  LET hits == {b \in DOMAIN frames : TryParse(frames[b]) # <<>> /\ TryParse(frames[b])[1] = id}
  IN IF hits = {} THEN <<>> ELSE TryParse(frames[Min(hits)])

-----------------------------------------------------------------------------
(* What the server streams.  An event is [of, start, n]: n lines that open   *)
(* with start and hold the message of, or hold no JSON (<<>>), and a blank   *)
(* line; every line is two characters and eol.                               *)

Width(eol) == 2 + Len(eol)

EventLength(e, eol) == e.n * Width(eol) + Len(eol)

EventText(e, eol) ==
  [p \in 1..EventLength(e, eol) |->
     LET line == 1 + ((p - 1) \div Width(eol))
         at == 1 + ((p - 1) % Width(eol))
     IN CASE line > e.n -> eol[at]
          [] line <= e.n /\ at = 1 -> e.start
          [] line <= e.n /\ at = 2 -> IF e.of = <<>> THEN other ELSE Piece(e.of, line, e.n)
          [] OTHER -> eol[at - 2]]

\* The place where each of the events ends, 0 before the first.
Bounds(events, eol) ==
  LET bounds[k \in 0..Len(events)] ==
        IF k = 0 THEN 0 ELSE bounds[k - 1] + EventLength(events[k], eol)
  IN bounds

Encoded(events, eol) ==
  LET bounds == Bounds(events, eol)
      Of(p) == Min({k \in DOMAIN events : p <= bounds[k]})
  IN [p \in 1..bounds[Len(events)] |-> EventText(events[Of(p)], eol)[p - bounds[Of(p) - 1]]]
=============================================================================
