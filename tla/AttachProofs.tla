---------------------------- MODULE AttachProofs ------------------------------
(***************************************************************************)
(* Whoever follows a turn through GET /attach is shown that turn's frames  *)
(* from the first on, in order, none twice and none left out (Attach       *)
(* implements Feed); a client learns that its own POST has ended; and no   *)
(* tail gives up a turn that is merely silent.  For any number of turns,   *)
(* rows, faults and attempts, and any sizes of pages and queues.           *)
(***************************************************************************)
EXTENDS Attach, TLAPS, SequenceTheorems, WellFoundedInduction

-----------------------------------------------------------------------------
(* The inductive invariant.                                                  *)

Tags == {"user", "resolved", "closed"} \cup Frame

Row == [seq: Nat, tag: Tags, turn: 0..MaxTurns]

TurnState == [st: {"none", "live", "parked", "ended", "gone"}, idle: Nat, slow: BOOLEAN,
              wiped: BOOLEAN]

\* The rows are numbered without a gap, from the last wipe on.
RowsAreNumbered ==
  /\ next \in Nat \ {0} /\ rows \in Seq(Row)
  /\ \A i \in DOMAIN rows : rows[i].seq = next - Len(rows) + i - 1

Ascends(f) == \A i, j \in DOMAIN f : i < j => f[i] < f[j]

\* A turn's frames are in the order of their rows, and in the journal unless
\* the turn was wiped.
FeedIsOrdered ==
  /\ turns \in [Turns -> TurnState]
  /\ feed \in [0..MaxTurns -> Seq(Nat)] /\ feed[0] = <<>>
  /\ \A t \in Turns :
       /\ Ascends(feed[t])
       /\ \A i \in DOMAIN feed[t] : feed[t][i] < next
       /\ turns[t].st = "none" => feed[t] = <<>>
       /\ \A i \in DOMAIN feed[t] :
            turns[t].wiped <=> ~\E j \in DOMAIN rows : rows[j].seq = feed[t][i]

\* The rows that are in the journal, or that the tail has read of it.
Known == ToSet(rows) \cup tail.acc \cup ToSet(tail.batch)

\* They have numbers of their own; a turn's message comes before its frames,
\* and a frame's row is marked as one.
KnownIsSound ==
  /\ \A r \in Known :
       /\ r \in Row /\ r.seq < next
       /\ r.tag = "user" => r.turn \in Turns /\ \A i \in DOMAIN feed[r.turn] : r.seq < feed[r.turn][i]
       /\ \A t \in Turns : \A i \in DOMAIN feed[t] : feed[t][i] = r.seq => r.tag \in Frame
  /\ \A r, q \in Known : r.seq = q.seq => r = q

TailFields == DOMAIN NoTail

ClientFields == DOMAIN NoClient

Shapes ==
  /\ DOMAIN tail = TailFields /\ DOMAIN client = ClientFields
  /\ tail.pc \in {"none", "analyze", "check", "sleep", "emit", "done"}
  /\ tail.scan \in Nat /\ tail.after \in Nat /\ tail.after < next /\ tail.batch \in Seq(Row)
  /\ client.of \in 0..MaxTurns /\ client.shown \in Seq(Nat)
  /\ tail.pc # "none" => client.pc = "tail"
  /\ tail.pc = "analyze" => client.of = 0 /\ client.shown = <<>>
  /\ tail.pc \in {"check", "sleep"} => tail.batch = <<>>
  /\ tail.pc = "emit" => tail.batch # <<>>

\* What the client was shown is the head of the feed, before the page at hand.
ShownIsHead ==
  LET f == feed[client.of] IN
  /\ Len(client.shown) <= Len(f)
  /\ \A i \in 1..Len(client.shown) :
       /\ client.shown[i] = f[i] /\ f[i] <= tail.after
       /\ \A b \in DOMAIN tail.batch : f[i] < tail.batch[b].seq

PageIsOrdered ==
  /\ \A b \in DOMAIN tail.batch : tail.batch[b].seq <= tail.after
  /\ \A b, c \in DOMAIN tail.batch : b < c => tail.batch[b].seq < tail.batch[c].seq

\* A frame not yet shown is on the page, or beyond the cursor, or it was wiped
\* and nothing of the turn will come any more.
Comes(m) ==
  LET f == feed[client.of] IN
  \/ \E b \in DOMAIN tail.batch : tail.batch[b].seq = f[m]
  \/ tail.after < f[m]
  \/ /\ turns[client.of].wiped
     /\ \A b \in DOMAIN tail.batch : \A i \in DOMAIN f : tail.batch[b].seq # f[i]

Following ==
  tail.pc \in {"check", "sleep", "emit"} =>
    /\ ShownIsHead /\ PageIsOrdered
    /\ \A m \in DOMAIN feed[client.of] : m > Len(client.shown) => Comes(m)

AttachInv == RowsAreNumbered /\ FeedIsOrdered /\ KnownIsSound /\ Shapes /\ Following

-----------------------------------------------------------------------------
(* Numbers, sequences and pages.                                             *)

\* A set of numbers below a bound has a largest one.
LEMMA Largest ==
  ASSUME NEW n \in Nat, NEW S, S \subseteq 0..n, S # {}
  PROVE  \E s \in S : \A u \in S : u <= s
<1> DEFINE T == {n - s : s \in S}
<1>1. T \subseteq Nat /\ T # {}
  <2>1. \A s \in S : n - s \in Nat
    OBVIOUS
  <2>2. PICK s \in S : TRUE
    OBVIOUS
  <2>3. n - s \in T
    OBVIOUS
  <2> QED
    BY <2>1, <2>3
<1>2. PICK x \in T : \A y \in T : ~ (<<y, x>> \in OpToRel(<, Nat))
  BY <1>1, WFMin, NatLessThanWellFounded
<1>3. \A y \in T : ~(y < x)
  BY <1>1, <1>2 DEF OpToRel
<1>4. PICK s \in S : x = n - s
  OBVIOUS
<1>5. \A u \in S : ~(n - u < n - s)
  BY <1>3, <1>4
<1> QED
  BY <1>5

LEMMA AppendIs ==
  ASSUME NEW S, NEW s \in Seq(S), NEW e \in S
  PROVE  /\ Append(s, e) \in Seq(S) /\ Len(Append(s, e)) = Len(s) + 1
         /\ DOMAIN Append(s, e) = 1..Len(s) + 1 /\ DOMAIN s = 1..Len(s) /\ Len(s) \in Nat
         /\ \A i \in DOMAIN s : Append(s, e)[i] = s[i]
         /\ Append(s, e)[Len(s) + 1] = e
<1>1. /\ Append(s, e) \in Seq(S) /\ Len(Append(s, e)) = Len(s) + 1
      /\ \A i \in 1..Len(s) : Append(s, e)[i] = s[i] /\ Append(s, e)[Len(s) + 1] = e
      /\ Append(s, e)[Len(s) + 1] = e
  BY AppendProperties
<1> QED
  BY <1>1, LenProperties

\* A page is the rows that follow the cursor, as many as it has room for.
LEMMA PageIs ==
  ASSUME RowsAreNumbered, NEW after \in Nat
  PROVE  \E n \in 0..Len(rows) :
           LET page == PageAfter(after) IN
           /\ \A i \in DOMAIN rows : rows[i].seq > after <=> i > n
           /\ page \in Seq(Row) /\ Len(page) <= PageLimit
           /\ n + Len(page) <= Len(rows) /\ (Len(page) < PageLimit => n + Len(page) = Len(rows))
           /\ \A i \in DOMAIN page : page[i] = rows[n + i]
<1> DEFINE P(n) == \A i \in DOMAIN rows : rows[i].seq > after <=> i > n
<1>1. /\ rows \in Seq(Row) /\ Len(rows) \in Nat /\ DOMAIN rows = 1..Len(rows) /\ next \in Nat \ {0}
      /\ \A i \in 1..Len(rows) : rows[i].seq = next - Len(rows) + i - 1 /\ rows[i] \in Row
  BY LenProperties, ElementOfSeq DEF RowsAreNumbered
<1>2. \E n \in 0..Len(rows) : P(n)
  <2> DEFINE m == after + 1 + Len(rows) - next
  <2>1. m \in Int
    BY <1>1
  <2>2. CASE m < 0
    <3>1. P(0)
      BY <1>1, <2>1, <2>2
    <3> QED
      BY <1>1, <3>1
  <2>3. CASE m > Len(rows)
    <3>1. \A i \in 1..Len(rows) : i <= Len(rows) /\ ~(rows[i].seq > after)
      BY <1>1, <2>3
    <3>2. P(Len(rows))
      BY <1>1, <3>1
    <3>3. Len(rows) \in 0..Len(rows)
      BY <1>1
    <3> WITNESS Len(rows) \in 0..Len(rows)
    <3> QED
      BY <3>2
  <2>4. CASE m >= 0 /\ m <= Len(rows)
    <3>1. P(m)
      BY <1>1, <2>1, <2>4
    <3> QED
      BY <1>1, <2>1, <2>4, <3>1
  <2> QED
    BY SMTT(30), <1>1, <2>1, <2>2, <2>3, <2>4
<1> DEFINE n == CHOOSE k \in 0..Len(rows) : P(k)
           last == IF Len(rows) < n + PageLimit THEN Len(rows) ELSE n + PageLimit
<1>3. n \in 0..Len(rows) /\ P(n)
  BY <1>2
<1> DEFINE L == Len(rows)
<1>4. PageAfter(after) = SubSeq(rows, n + 1, last)
  BY DEF PageAfter
<1>b. \A i \in 1..L : rows[i] \in Row
  BY <1>1
<1>a. L \in Nat /\ n \in 0..L
  BY <1>1, <1>3
<1> HIDE DEF n, P, L
<1>5. PageLimit \in Nat \ {0}
  BY AttachAssumption
<1>6. last \in n..L /\ last - n <= PageLimit /\ (last - n < PageLimit => last = L)
  BY <1>a, <1>5 DEF L
<1> HIDE DEF last
<1>7. \A i \in n + 1..last : rows[i] \in Row
  <2> SUFFICES ASSUME NEW i \in n + 1..last PROVE rows[i] \in Row
    OBVIOUS
  <2>1. i \in 1..L
    BY <1>a, <1>6
  <2> QED
    BY <1>b, <2>1
<1> DEFINE page == SubSeq(rows, n + 1, last)
<1>8. /\ page \in Seq(Row) /\ Len(page) = last - n
      /\ \A i \in 1..last - n : page[i] = rows[n + i]
  <2>1. n \in Int /\ last \in Int /\ n + 1 \in Int
    BY <1>a, <1>6
  <2>2. /\ page \in Seq(Row) /\ Len(page) = IF n + 1 <= last THEN last - (n + 1) + 1 ELSE 0
        /\ \A i \in 1..last - (n + 1) + 1 : page[i] = rows[n + 1 + i - 1]
    BY <1>7, <2>1, SubSeqProperties
  <2>3. last - (n + 1) + 1 = last - n /\ \A i \in Int : n + 1 + i - 1 = n + i
    BY <2>1
  <2> QED
    BY <1>6, <2>1, <2>2, <2>3
<1>9. DOMAIN page = 1..last - n
  BY <1>8, LenProperties
<1> HIDE DEF page
<1>10. /\ Len(page) <= PageLimit /\ n + Len(page) <= Len(rows)
       /\ (Len(page) < PageLimit => n + Len(page) = Len(rows))
  BY <1>a, <1>5, <1>6, <1>8 DEF L
<1>11. PageAfter(after) = page
  BY <1>4 DEF page
<1> QED
  BY <1>3, <1>8, <1>9, <1>10, <1>11 DEF P, L

-----------------------------------------------------------------------------
(* The journal grows, and is wiped.                                          *)

TurnsGoOn ==
  /\ turns' \in [Turns -> TurnState]
  /\ \A t \in Turns : turns'[t].wiped = turns[t].wiped /\ (turns'[t].st = "none" => turns[t].st = "none")

Framed(row) ==
  /\ row.tag \in Frame /\ row.turn \in Turns
  /\ ~turns[row.turn].wiped /\ turns'[row.turn].st # "none"
  /\ feed' = [feed EXCEPT ![row.turn] = Append(@, next)]

\* A row is journaled; the first of a turn is its message.
Arrives(row) ==
  /\ row \in Row /\ row.seq = next /\ rows' = Append(rows, row) /\ next' = next + 1
  /\ TurnsGoOn /\ (feed' = feed \/ Framed(row))
  /\ row.tag = "user" => row.turn \in Turns /\ feed[row.turn] = <<>>

FeedGrows(row) ==
  \A t \in 0..MaxTurns :
    \/ feed'[t] = feed[t]
    \/ /\ t \in Turns /\ t = row.turn /\ ~turns[t].wiped /\ row.tag \in Frame
       /\ Len(feed[t]) \in Nat /\ DOMAIN feed[t] = 1..Len(feed[t])
       /\ Len(feed'[t]) = Len(feed[t]) + 1 /\ DOMAIN feed'[t] = 1..Len(feed[t]) + 1
       /\ \A i \in DOMAIN feed[t] : feed'[t][i] = feed[t][i]
       /\ feed'[t][Len(feed[t]) + 1] = next

LEMMA TurnsAre == Turns \subseteq 0..MaxTurns /\ 0 \notin Turns /\ MaxTurns \in Nat
  BY AttachAssumption DEF Turns

LEMMA FeedsAre ==
  ASSUME FeedIsOrdered, NEW t \in 0..MaxTurns
  PROVE  /\ feed[t] \in Seq(Nat) /\ Len(feed[t]) \in Nat /\ DOMAIN feed[t] = 1..Len(feed[t])
         /\ \A i \in DOMAIN feed[t] : feed[t][i] \in Nat
<1>1. feed[t] \in Seq(Nat)
  BY DEF FeedIsOrdered
<1> QED
  BY <1>1, LenProperties, ElementOfSeq

LEMMA FeedDoesGrow ==
  ASSUME RowsAreNumbered, FeedIsOrdered, NEW row, Arrives(row)
  PROVE  FeedGrows(row) /\ feed' \in [0..MaxTurns -> Seq(Nat)] /\ feed'[0] = <<>>
<1>1. CASE feed' = feed
  BY <1>1 DEF FeedGrows, FeedIsOrdered
<1>2. CASE Framed(row)
  <2> DEFINE t == row.turn
             f == feed[t]
             g == Append(f, next)
  <2>1. t \in Turns /\ t \in 0..MaxTurns /\ t # 0 /\ ~turns[t].wiped /\ row.tag \in Frame
    BY <1>2, TurnsAre DEF Framed
  <2>2. feed' = [feed EXCEPT ![t] = g]
    BY <1>2 DEF Framed
  <2>3. f \in Seq(Nat) /\ next \in Nat
    BY <2>1, FeedsAre DEF RowsAreNumbered
  <2> HIDE DEF t, f
  <2>4. /\ g \in Seq(Nat) /\ Len(g) = Len(f) + 1 /\ DOMAIN g = 1..Len(f) + 1 /\ DOMAIN f = 1..Len(f)
        /\ Len(f) \in Nat /\ (\A i \in DOMAIN f : g[i] = f[i]) /\ g[Len(f) + 1] = next
    BY <2>3, AppendIs
  <2> HIDE DEF g
  <2>5. feed \in [0..MaxTurns -> Seq(Nat)] /\ feed[0] = <<>> /\ feed[t] = f
    BY DEF FeedIsOrdered, f
  <2>6. feed'[t] = g /\ \A s \in 0..MaxTurns \ {t} : feed'[s] = feed[s]
    BY <2>1, <2>2, <2>5
  <2>7. feed' \in [0..MaxTurns -> Seq(Nat)] /\ feed'[0] = <<>>
    BY <2>1, <2>2, <2>4, <2>5, <2>6, TurnsAre
  <2>8. FeedGrows(row)
    BY <2>1, <2>4, <2>5, <2>6 DEF FeedGrows, t
  <2> QED
    BY <2>7, <2>8
<1> QED
  BY <1>1, <1>2 DEF Arrives

LEMMA ArrivesInOrder ==
  ASSUME RowsAreNumbered, FeedIsOrdered, NEW row, Arrives(row)
  PROVE  RowsAreNumbered' /\ FeedIsOrdered'
<1>1. /\ rows' \in Seq(Row) /\ Len(rows') = Len(rows) + 1 /\ DOMAIN rows' = 1..Len(rows) + 1
      /\ DOMAIN rows = 1..Len(rows) /\ Len(rows) \in Nat
      /\ (\A i \in DOMAIN rows : rows'[i] = rows[i]) /\ rows'[Len(rows) + 1] = row
  BY AppendIs DEF Arrives, RowsAreNumbered
<1>2. next \in Nat \ {0} /\ next' = next + 1 /\ row.seq = next
  BY DEF Arrives, RowsAreNumbered
<1>3. RowsAreNumbered'
  <2>1. ASSUME NEW i \in DOMAIN rows' PROVE rows'[i].seq = next' - Len(rows') + i - 1
    <3>1. CASE i \in DOMAIN rows
      <4>1. rows'[i].seq = next - Len(rows) + i - 1
        BY <1>1, <3>1 DEF RowsAreNumbered
      <4> QED
        BY <1>1, <1>2, <2>1, <4>1
    <3>2. CASE i = Len(rows) + 1
      BY <1>1, <1>2, <3>2
    <3> QED
      BY <1>1, <2>1, <3>1, <3>2
  <2> QED
    BY <1>1, <1>2, <2>1 DEF RowsAreNumbered
<1>4. FeedGrows(row) /\ feed' \in [0..MaxTurns -> Seq(Nat)] /\ feed'[0] = <<>>
  BY FeedDoesGrow
<1>5. turns' \in [Turns -> TurnState]
  BY DEF Arrives, TurnsGoOn
<1>6. ASSUME NEW t \in Turns
      PROVE  /\ Ascends(feed'[t])
             /\ \A i \in DOMAIN feed'[t] : feed'[t][i] < next'
             /\ turns'[t].st = "none" => feed'[t] = <<>>
             /\ \A i \in DOMAIN feed'[t] :
                  turns'[t].wiped <=> ~\E j \in DOMAIN rows' : rows'[j].seq = feed'[t][i]
  <2> DEFINE f == feed[t]
             g == feed'[t]
  <2>1. /\ Ascends(f) /\ (\A i \in DOMAIN f : f[i] < next) /\ (turns[t].st = "none" => f = <<>>)
        /\ \A i \in DOMAIN f : turns[t].wiped <=> ~\E j \in DOMAIN rows : rows[j].seq = f[i]
    BY DEF FeedIsOrdered
  <2>2. \A i \in DOMAIN f : f[i] \in Nat
    BY FeedsAre, TurnsAre
  <2>3. turns'[t].wiped = turns[t].wiped /\ (turns'[t].st = "none" => turns[t].st = "none")
    BY DEF Arrives, TurnsGoOn
  <2>4. \A i \in DOMAIN f :
          (\E j \in DOMAIN rows' : rows'[j].seq = f[i]) <=> \E j \in DOMAIN rows : rows[j].seq = f[i]
    <3> SUFFICES ASSUME NEW i \in DOMAIN f
                 PROVE  (\E j \in DOMAIN rows' : rows'[j].seq = f[i]) <=>
                          \E j \in DOMAIN rows : rows[j].seq = f[i]
      OBVIOUS
    <3>1. f[i] # next
      BY <1>2, <2>1, <2>2
    <3>2. \A j \in DOMAIN rows' : j \in DOMAIN rows \/ rows'[j].seq = next
      BY <1>1, <1>2
    <3> QED
      BY <1>1, <3>1, <3>2
  <2>5. CASE g = f
    <3>1. \A i \in DOMAIN g : g[i] < next'
      BY <1>2, <2>1, <2>2, <2>5
    <3> QED
      BY <2>1, <2>3, <2>4, <2>5, <3>1
  <2>6. CASE g # f
    <3>1. /\ Len(f) \in Nat /\ DOMAIN f = 1..Len(f) /\ DOMAIN g = 1..Len(f) + 1
          /\ (\A i \in DOMAIN f : g[i] = f[i]) /\ g[Len(f) + 1] = next
          /\ ~turns[t].wiped /\ t = row.turn
      BY <1>4, <2>6, TurnsAre DEF FeedGrows
    <3>2. turns'[t].st # "none"
      BY <2>6, <3>1 DEF Arrives, Framed
    <3>3. Ascends(g) /\ \A i \in DOMAIN g : g[i] < next'
      <4> HIDE DEF f, g
      <4>1. ASSUME NEW i \in DOMAIN g, NEW j \in DOMAIN g, i < j PROVE g[i] < g[j]
        <5>1. i \in DOMAIN f /\ g[i] = f[i]
          BY <3>1, <4>1
        <5>2. CASE j \in DOMAIN f
          BY <2>1, <3>1, <4>1, <5>1, <5>2 DEF Ascends
        <5>3. CASE j = Len(f) + 1
          BY <2>1, <3>1, <5>1, <5>3
        <5> QED
          BY <3>1, <4>1, <5>2, <5>3
      <4>2. ASSUME NEW i \in DOMAIN g PROVE g[i] < next'
        <5>1. CASE i \in DOMAIN f
          BY <1>2, <2>1, <2>2, <3>1, <5>1
        <5>2. CASE i = Len(f) + 1
          BY <1>2, <3>1, <5>2
        <5> QED
          BY <3>1, <4>2, <5>1, <5>2
      <4> QED
        BY <4>1, <4>2 DEF Ascends
    <3>4. rows'[Len(rows) + 1].seq = next /\ Len(rows) + 1 \in DOMAIN rows'
      BY <1>1, <1>2
    <3>5. \A i \in DOMAIN g : \E j \in DOMAIN rows' : rows'[j].seq = g[i]
      <4> SUFFICES ASSUME NEW i \in DOMAIN g PROVE \E j \in DOMAIN rows' : rows'[j].seq = g[i]
        OBVIOUS
      <4>1. CASE i \in DOMAIN f
        BY <2>1, <2>4, <3>1, <4>1
      <4>2. CASE i = Len(f) + 1
        BY <3>1, <3>4, <4>2
      <4> QED
        BY <3>1, <4>1, <4>2
    <3> QED
      BY <2>3, <3>1, <3>2, <3>3, <3>5
  <2> QED
    BY <2>5, <2>6
<1>7. FeedIsOrdered'
  BY <1>4, <1>5, <1>6 DEF FeedIsOrdered
<1> QED
  BY <1>3, <1>7

LEMMA ArrivesAmongKnown ==
  ASSUME RowsAreNumbered, FeedIsOrdered, KnownIsSound, NEW row, Arrives(row), tail' = tail
  PROVE  KnownIsSound'
<1>1. /\ rows \in Seq(Row) /\ row \in Row /\ DOMAIN rows' = 1..Len(rows) + 1
      /\ DOMAIN rows = 1..Len(rows) /\ Len(rows) \in Nat
      /\ (\A i \in DOMAIN rows : rows'[i] = rows[i]) /\ rows'[Len(rows) + 1] = row
  BY AppendIs DEF Arrives, RowsAreNumbered
<1>2. \A r \in Known' : r \in Known \/ r = row
  BY <1>1 DEF Known, ToSet
<1>3. next \in Nat \ {0} /\ next' = next + 1 /\ row.seq = next
  BY DEF Arrives, RowsAreNumbered
<1>4. \A r \in Known : r \in Row /\ r.seq < next /\ r.seq \in Nat
  BY DEF KnownIsSound, Row
<1>5. FeedGrows(row)
  BY FeedDoesGrow
<1>6. \A t \in Turns : \A i \in DOMAIN feed'[t] :
        (i \in DOMAIN feed[t] /\ feed'[t][i] = feed[t][i]) \/ (feed'[t][i] = next /\ row.tag \in Frame)
  <2> SUFFICES ASSUME NEW t \in Turns, NEW i \in DOMAIN feed'[t]
               PROVE  \/ i \in DOMAIN feed[t] /\ feed'[t][i] = feed[t][i]
                      \/ feed'[t][i] = next /\ row.tag \in Frame
    OBVIOUS
  <2> QED
    BY <1>5, TurnsAre DEF FeedGrows
<1>7. ASSUME NEW r \in Known'
      PROVE  /\ r \in Row /\ r.seq < next'
             /\ r.tag = "user" => r.turn \in Turns /\ \A i \in DOMAIN feed'[r.turn] : r.seq < feed'[r.turn][i]
             /\ \A t \in Turns : \A i \in DOMAIN feed'[t] : feed'[t][i] = r.seq => r.tag \in Frame
  <2>1. CASE r \in Known
    <3>1. /\ r.tag = "user" => r.turn \in Turns /\ \A i \in DOMAIN feed[r.turn] : r.seq < feed[r.turn][i]
          /\ \A t \in Turns : \A i \in DOMAIN feed[t] : feed[t][i] = r.seq => r.tag \in Frame
      BY <2>1 DEF KnownIsSound
    <3>2. r \in Row /\ r.seq < next /\ r.seq \in Nat /\ r.seq # next /\ r.seq < next'
      BY <1>3, <1>4, <2>1
    <3>3. r.tag = "user" => \A i \in DOMAIN feed'[r.turn] : r.seq < feed'[r.turn][i]
      BY <1>6, <3>1, <3>2
    <3>4. \A t \in Turns : \A i \in DOMAIN feed'[t] : feed'[t][i] = r.seq => r.tag \in Frame
      BY <1>6, <3>1, <3>2
    <3> QED
      BY <3>1, <3>2, <3>3, <3>4
  <2>2. CASE r = row
    <3>1. r.tag = "user" => r.turn \in Turns /\ feed[r.turn] = <<>> /\ feed' = feed
      BY <2>2 DEF Arrives, Framed, Frame, Terminal
    <3>2. \A t \in Turns : \A i \in DOMAIN feed[t] : feed[t][i] # r.seq
      <4> SUFFICES ASSUME NEW t \in Turns, NEW i \in DOMAIN feed[t] PROVE feed[t][i] # next
        BY <1>3, <2>2
      <4>1. feed[t][i] < next /\ feed[t][i] \in Nat
        BY FeedsAre, TurnsAre DEF FeedIsOrdered
      <4> QED
        BY <1>3, <4>1
    <3>3. \A t \in Turns : \A i \in DOMAIN feed'[t] : feed'[t][i] = r.seq => r.tag \in Frame
      BY <1>6, <2>2, <3>2
    <3>4. r.tag = "user" => r.turn \in Turns /\ \A i \in DOMAIN feed'[r.turn] : r.seq < feed'[r.turn][i]
      BY <3>1
    <3> QED
      BY <1>1, <1>3, <2>2, <3>3, <3>4
  <2> QED
    BY <1>2, <2>1, <2>2
<1>8. ASSUME NEW r \in Known', NEW q \in Known', r.seq = q.seq PROVE r = q
  <2>1. \A k \in Known : k.seq # next
    BY <1>3, <1>4
  <2> QED
    BY <1>2, <1>3, <1>8, <2>1 DEF KnownIsSound
<1> QED
  BY <1>7, <1>8 DEF KnownIsSound

\* The turns go on beside the tail: what it has read stays a page.
LEMMA FollowingOn ==
  ASSUME FeedIsOrdered, Shapes, Following, NEW row, FeedGrows(row),
         \A t \in Turns : turns[t].wiped => turns'[t].wiped,
         tail'.batch = tail.batch, tail'.after = tail.after,
         client'.of = client.of, client'.shown = client.shown,
         tail'.pc \in {"check", "sleep", "emit"} => tail.pc \in {"check", "sleep", "emit"}
  PROVE  Following'
<1> DEFINE f == feed[client.of]
           g == feed'[client.of]
           n == Len(client.shown)
<1> SUFFICES ASSUME tail'.pc \in {"check", "sleep", "emit"}
             PROVE  /\ ShownIsHead' /\ PageIsOrdered'
                    /\ \A m \in DOMAIN g : m > n => Comes(m)'
  BY DEF Following
<1>1. /\ ShownIsHead /\ PageIsOrdered
      /\ \A m \in DOMAIN f : m > n => Comes(m)
  BY DEF Following
<1>2. client.of \in 0..MaxTurns /\ tail.after \in Nat /\ tail.after < next /\ n \in Nat
  BY LenProperties DEF Shapes
<1>3. PageIsOrdered'
  BY <1>1 DEF PageIsOrdered
<1>4. CASE g = f
  <2>1. ShownIsHead'
    BY <1>1, <1>4 DEF ShownIsHead
  <2>2. ASSUME NEW m \in DOMAIN g, m > n PROVE Comes(m)'
    <3>1. client.of \in Turns
      BY <1>2, <1>4, <2>2 DEF FeedIsOrdered, Turns
    <3>2. Comes(m)
      BY <1>1, <1>4, <2>2
    <3> QED
      BY <1>4, <3>1, <3>2 DEF Comes
  <2> QED
    BY <1>3, <2>1, <2>2
<1>5. CASE g # f
  <2>1. /\ client.of \in Turns /\ ~turns[client.of].wiped
        /\ Len(f) \in Nat /\ DOMAIN f = 1..Len(f) /\ Len(g) = Len(f) + 1 /\ DOMAIN g = 1..Len(f) + 1
        /\ (\A i \in DOMAIN f : g[i] = f[i]) /\ g[Len(f) + 1] = next
    BY <1>2, <1>5 DEF FeedGrows
  <2>2. n <= Len(f)
    BY <1>1 DEF ShownIsHead
  <2>3. ShownIsHead'
    <3>1. \A i \in 1..n : g[i] = f[i]
      BY <1>2, <2>1, <2>2
    <3>2. n <= Len(g)
      BY <1>2, <2>1, <2>2
    <3> QED
      BY <1>1, <3>1, <3>2 DEF ShownIsHead
  <2>4. ASSUME NEW m \in DOMAIN g, m > n PROVE Comes(m)'
    <3>1. CASE m \in DOMAIN f
      <4>1. Comes(m) /\ g[m] = f[m]
        BY <1>1, <2>1, <2>4, <3>1
      <4>2. (\E b \in DOMAIN tail.batch : tail.batch[b].seq = g[m]) \/ tail.after < g[m]
        BY <2>1, <4>1 DEF Comes
      <4> QED
        BY <4>2 DEF Comes
    <3>2. CASE m = Len(f) + 1
      <4>1. tail.after < g[m]
        BY <1>2, <2>1, <3>2
      <4> QED
        BY <4>1 DEF Comes
    <3> QED
      BY <2>1, <2>4, <3>1, <3>2
  <2> QED
    BY <1>3, <2>3, <2>4
<1> QED
  BY <1>4, <1>5

\* The journal stays, whatever becomes of turns and tails.
LEMMA JournalStays ==
  ASSUME RowsAreNumbered, FeedIsOrdered, KnownIsSound, UNCHANGED <<rows, next, feed>>,
         TurnsGoOn, Known' \subseteq Known
  PROVE  RowsAreNumbered' /\ FeedIsOrdered' /\ KnownIsSound' /\ \A row : FeedGrows(row)
<1>1. RowsAreNumbered'
  BY DEF RowsAreNumbered
<1>2. FeedIsOrdered'
  BY DEF FeedIsOrdered, TurnsGoOn
<1>3. KnownIsSound'
  BY DEF KnownIsSound
<1> QED
  BY <1>1, <1>2, <1>3 DEF FeedGrows

\* The tail and the client stay as they are while a row is journaled.
LEMMA ArrivesKeeps ==
  ASSUME AttachInv, NEW row, Arrives(row), UNCHANGED <<tail, client>>
  PROVE  AttachInv'
<1>1. RowsAreNumbered' /\ FeedIsOrdered' /\ KnownIsSound' /\ FeedGrows(row)
  BY ArrivesInOrder, ArrivesAmongKnown, FeedDoesGrow DEF AttachInv
<1>2. next \in Nat /\ next' = next + 1
  BY DEF AttachInv, RowsAreNumbered, Arrives
<1>3. Shapes'
  BY <1>2 DEF AttachInv, Shapes
<1>4. Following'
  BY <1>1, FollowingOn DEF AttachInv, Arrives, TurnsGoOn
<1> QED
  BY <1>1, <1>3, <1>4 DEF AttachInv

FeedMoves ==
  Followed!FeedNext \/ UNCHANGED <<feed, [turn |-> client.of, seen |-> client.shown]>>

LEMMA ArrivesIsSent ==
  ASSUME AttachInv, NEW row, Arrives(row), UNCHANGED client PROVE FeedMoves
<1>1. CASE feed' = feed
  BY <1>1 DEF FeedMoves
<1>2. CASE Framed(row)
  <2> DEFINE t == row.turn
  <2>1. t \in Turns /\ t \in 0..MaxTurns /\ feed' = [feed EXCEPT ![t] = Append(@, next)]
    BY <1>2, TurnsAre DEF Framed
  <2>2. next \in Nat
    BY DEF AttachInv, RowsAreNumbered
  <2>3. /\ feed[t] \in Seq(Nat) /\ DOMAIN feed[t] = 1..Len(feed[t]) /\ Len(feed[t]) \in Nat
        /\ \A i \in DOMAIN feed[t] : feed[t][i] < next /\ feed[t][i] \in Nat
    BY <2>1, FeedsAre DEF AttachInv, FeedIsOrdered
  <2> HIDE DEF t
  <2>4. feed'[t] = Append(feed[t], next)
    BY <2>1 DEF AttachInv, FeedIsOrdered
  <2>5. feed'[t][Len(feed[t]) + 1] = next /\ Len(feed[t]) + 1 \in DOMAIN feed'[t]
    BY <2>2, <2>3, <2>4, AppendIs
  <2>6. next \in ToSet(feed'[t]) \ ToSet(feed[t])
    BY <2>2, <2>3, <2>5 DEF ToSet
  <2>7. Followed!Send(t)
    BY <2>1, <2>2, <2>6 DEF Followed!Send, Followed!ToSet, ToSet
  <2> QED
    BY <2>1, <2>7 DEF FeedMoves, Followed!FeedNext
<1> QED
  BY <1>1, <1>2 DEF Arrives

LEMMA TurnIs ==
  ASSUME FeedIsOrdered, NEW t \in Turns, NEW new \in TurnState, turns' = [turns EXCEPT ![t] = new],
         new.wiped = turns[t].wiped, new.st = "none" => turns[t].st = "none"
  PROVE  TurnsGoOn /\ turns'[t] = new
  BY DEF FeedIsOrdered, TurnsGoOn

LEMMA TurnsStay == ASSUME FeedIsOrdered, turns' = turns PROVE TurnsGoOn
  BY DEF FeedIsOrdered, TurnsGoOn

\* A step that the journal and the feed do not take part in.
LEMMA BesideKeeps ==
  ASSUME AttachInv, UNCHANGED <<rows, next, feed>>, TurnsGoOn, Known' \subseteq Known, Shapes',
         tail'.batch = tail.batch, tail'.after = tail.after,
         client'.of = client.of, client'.shown = client.shown,
         tail'.pc \in {"check", "sleep", "emit"} => tail.pc \in {"check", "sleep", "emit"}
  PROVE  AttachInv' /\ FeedMoves
<1>1. RowsAreNumbered' /\ FeedIsOrdered' /\ KnownIsSound' /\ \A row : FeedGrows(row)
  BY JournalStays DEF AttachInv
<1>2. Following'
  BY <1>1, FollowingOn DEF AttachInv, TurnsGoOn
<1>3. FeedMoves
  BY DEF FeedMoves
<1> QED
  BY <1>1, <1>2, <1>3 DEF AttachInv

\* The client starts over, and follows no tail yet or any more.
LEMMA StartsOver ==
  ASSUME AttachInv, UNCHANGED <<rows, next, feed>>, TurnsGoOn, Known' \subseteq Known, Shapes',
         client'.shown = <<>>, tail'.pc \notin {"check", "sleep", "emit"}
  PROVE  AttachInv' /\ FeedMoves
<1>1. RowsAreNumbered' /\ FeedIsOrdered' /\ KnownIsSound'
  BY JournalStays DEF AttachInv
<1>2. Following'
  BY DEF Following
<1>3. client'.of \in 0..MaxTurns
  BY DEF Shapes
<1>4. Followed!StartOver(client'.of)
  BY DEF Followed!StartOver
<1>5. FeedMoves
  BY <1>3, <1>4 DEF FeedMoves, Followed!FeedNext
<1> QED
  BY <1>1, <1>2, <1>5 DEF AttachInv

-----------------------------------------------------------------------------
(* The turns.                                                                *)

LEMMA FrameTags == Frame \subseteq Tags /\ {"user", "resolved", "closed"} \subseteq Tags /\ "user" \notin Frame /\ "resolved" \notin Frame
  BY DEF Tags, Frame, Terminal

\* A row of a turn that has been opened.
LEMMA JournalArrives ==
  ASSUME AttachInv, NEW t \in Turns, NEW tag \in Tags, Journal(tag, t), TurnsGoOn,
         turns'[t].st # "none", tag = "user" => feed[t] = <<>>
  PROVE  Arrives([seq |-> next, tag |-> tag, turn |-> t])
<1> DEFINE row == [seq |-> next, tag |-> tag, turn |-> t]
<1>1. next \in Nat /\ t \in 0..MaxTurns
  BY TurnsAre DEF AttachInv, RowsAreNumbered
<1>2. row \in Row /\ row.seq = next /\ row.tag = tag /\ row.turn = t
  BY <1>1 DEF Row
<1>3. rows' = Append(rows, row) /\ next' = next + 1
  BY DEF Journal
<1>4. feed' = IF tag \in Frame /\ ~turns[t].wiped THEN [feed EXCEPT ![t] = Append(@, next)] ELSE feed
  BY DEF Journal
<1> HIDE DEF row
<1>5. feed' = feed \/ Framed(row)
  BY <1>2, <1>4 DEF Framed
<1>6. Arrives(row)
  BY <1>2, <1>3, <1>5 DEF Arrives
<1> QED
  BY <1>6 DEF row

LEMMA JournalKeeps ==
  ASSUME AttachInv, NEW t \in Turns, NEW tag \in Tags, Journal(tag, t), TurnsGoOn,
         turns'[t].st # "none", tag = "user" => feed[t] = <<>>, UNCHANGED <<tail, client>>
  PROVE  AttachInv' /\ FeedMoves
  BY JournalArrives, ArrivesKeeps, ArrivesIsSent

LEMMA OpenGoesOn ==
  ASSUME FeedIsOrdered, NEW t \in Turns, Open(t)
  PROVE  TurnsGoOn /\ turns'[t].st # "none" /\ feed[t] = <<>> /\ Journal("user", t)
<1> DEFINE new == [turns[t] EXCEPT !.st = "live"]
<1>1. turns[t] \in TurnState /\ turns[t].st = "none" /\ feed[t] = <<>>
  BY DEF Open, FeedIsOrdered
<1>2. new \in TurnState /\ new.wiped = turns[t].wiped /\ new.st = "live"
  BY <1>1 DEF TurnState
<1>3. turns' = [turns EXCEPT ![t] = new] /\ Journal("user", t)
  BY DEF Open
<1> HIDE DEF new
<1> QED
  BY <1>1, <1>2, <1>3, TurnIs

LEMMA TouchGoesOn ==
  ASSUME FeedIsOrdered, NEW t \in Turns, NEW st \in {"live", "parked", "ended"}, Touch(t, st)
  PROVE  TurnsGoOn /\ turns'[t].st = st
<1> DEFINE slow == turns[t].slow /\ st # "ended"
           new == [turns[t] EXCEPT !.st = st, !.idle = 0, !.slow = slow]
<1>1. turns[t] \in TurnState /\ slow \in BOOLEAN
  BY DEF FeedIsOrdered
<1>2. turns' = [turns EXCEPT ![t] = new]
  BY DEF Touch
<1> HIDE DEF slow
<1>3. new \in TurnState /\ new.wiped = turns[t].wiped /\ new.st = st
  BY <1>1 DEF TurnState
<1> HIDE DEF new
<1> QED
  BY <1>2, <1>3, TurnIs

LEMMA OpenBesideKeeps == ASSUME AttachInv, OpenBeside PROVE AttachInv' /\ FeedMoves
<1>1. PICK t \in Turns : Open(t) /\ UNCHANGED <<tail, client>>
  BY DEF OpenBeside
<1>2. TurnsGoOn /\ turns'[t].st # "none" /\ feed[t] = <<>> /\ Journal("user", t)
  BY <1>1, OpenGoesOn DEF AttachInv
<1> QED
  BY <1>1, <1>2, FrameTags, JournalKeeps

LEMMA EmitKeeps == ASSUME AttachInv, NEW t \in Turns, Emit(t) PROVE AttachInv' /\ FeedMoves
<1>1. TurnsGoOn /\ turns'[t].st = "live"
  BY TouchGoesOn DEF Emit, AttachInv
<1>2. Journal("part", t) /\ UNCHANGED <<tail, client>> /\ "part" \in Frame
  BY DEF Emit, Frame
<1> QED
  BY <1>1, <1>2, FrameTags, JournalKeeps

LEMMA EndKeeps == ASSUME AttachInv, NEW t \in Turns, End(t) PROVE AttachInv' /\ FeedMoves
<1>1. PICK tag \in Terminal \cup {"ask"} :
        Journal(tag, t) /\ Touch(t, IF tag = "ask" THEN "parked" ELSE "ended")
  BY DEF End
<1>2. TurnsGoOn /\ turns'[t].st # "none"
  BY <1>1, TouchGoesOn DEF AttachInv
<1>3. tag \in Frame /\ UNCHANGED <<tail, client>>
  BY DEF End, Frame
<1> QED
  BY <1>1, <1>2, <1>3, FrameTags, JournalKeeps

LEMMA ResolveKeeps == ASSUME AttachInv, NEW t \in Turns, Resolve(t) PROVE AttachInv' /\ FeedMoves
<1>1. TurnsGoOn /\ turns'[t].st = "live"
  BY TouchGoesOn DEF Resolve, AttachInv
<1>2. Journal("resolved", t) /\ UNCHANGED <<tail, client>>
  BY DEF Resolve
<1> QED
  BY <1>1, <1>2, FrameTags, JournalKeeps

LEMMA GoneKeeps == ASSUME AttachInv, NEW t \in Turns, Gone(t) PROVE AttachInv' /\ FeedMoves
<1> DEFINE new == [turns[t] EXCEPT !.st = "gone"]
<1>1. turns[t] \in TurnState
  BY DEF AttachInv, FeedIsOrdered
<1>2. new \in TurnState /\ new.wiped = turns[t].wiped /\ new.st = "gone"
  BY <1>1 DEF TurnState
<1>3. turns' = [turns EXCEPT ![t] = new] /\ UNCHANGED <<rows, next, feed, tail, client>>
  BY DEF Gone
<1> HIDE DEF new
<1>4. TurnsGoOn
  BY <1>2, <1>3, TurnIs DEF AttachInv
<1>5. Known' = Known /\ Shapes'
  BY <1>3 DEF Known, Shapes, AttachInv
<1> QED
  BY <1>3, <1>4, <1>5, BesideKeeps

LEMMA SlowKeeps == ASSUME AttachInv, NEW t \in Turns, Slow(t) PROVE AttachInv' /\ FeedMoves
<1> DEFINE new == [turns[t] EXCEPT !.slow = TRUE]
<1>1. turns[t] \in TurnState
  BY DEF AttachInv, FeedIsOrdered
<1>2. new \in TurnState /\ new.wiped = turns[t].wiped /\ new.st = turns[t].st
  BY <1>1 DEF TurnState
<1>3. turns' = [turns EXCEPT ![t] = new] /\ UNCHANGED <<rows, next, feed, tail, client>>
  BY DEF Slow
<1> HIDE DEF new
<1>4. TurnsGoOn
  BY <1>2, <1>3, TurnIs DEF AttachInv
<1>5. Known' = Known /\ Shapes'
  BY <1>3 DEF Known, Shapes, AttachInv
<1> QED
  BY <1>3, <1>4, <1>5, BesideKeeps

LEMMA TickKeeps == ASSUME AttachInv, Tick PROVE AttachInv' /\ FeedMoves
<1>1. UNCHANGED <<rows, next, client, feed>>
  BY DEF Tick
<1>2. turns' = [t \in Turns |->
       IF turns[t].st = "live" /\ turns[t].idle < Hop
       THEN [turns[t] EXCEPT !.idle = turns[t].idle + 1] ELSE turns[t]]
  BY DEF Tick
<1>3. TurnsGoOn
  <2>1. ASSUME NEW t \in Turns
        PROVE  /\ turns'[t] \in TurnState /\ turns'[t].wiped = turns[t].wiped
               /\ turns'[t].st = turns[t].st
    <3>1. turns[t] \in TurnState
      BY DEF AttachInv, FeedIsOrdered
    <3>2. turns'[t] = turns[t] \/ turns'[t] = [turns[t] EXCEPT !.idle = turns[t].idle + 1]
      BY <1>2
    <3> QED
      BY <3>1, <3>2 DEF TurnState
  <2> QED
    BY <1>2, <2>1 DEF TurnsGoOn
<1>4. DOMAIN tail = TailFields
  BY DEF AttachInv, Shapes
<1>5. /\ DOMAIN tail' = TailFields /\ tail'.pc = tail.pc /\ tail'.scan = tail.scan
      /\ tail'.after = tail.after /\ tail'.batch = tail.batch /\ tail'.acc = tail.acc
  <2> DEFINE quiet == IF tail.quiet < Stale THEN tail.quiet + 1 ELSE tail.quiet
             age == IF tail.age < Cap THEN tail.age + 1 ELSE tail.age
  <2>1. tail' = [tail EXCEPT !.polled = FALSE, !.quiet = quiet, !.age = age]
    BY DEF Tick
  <2> HIDE DEF quiet, age
  <2> QED
    BY <1>4, <2>1 DEF TailFields, NoTail
<1>6. Known' = Known /\ Shapes'
  BY <1>1, <1>5 DEF Known, Shapes, AttachInv
<1> QED
  BY <1>1, <1>3, <1>5, <1>6, BesideKeeps

-----------------------------------------------------------------------------
(* Wipes and closes.                                                         *)

LEMMA WipeKeeps == ASSUME AttachInv, Wipe PROVE AttachInv' /\ FeedMoves
<1>1. rows' = <<>> /\ UNCHANGED <<next, feed, tail, client>>
  BY DEF Wipe
<1>2. turns' = [t \in Turns |-> IF turns[t].st = "none" THEN turns[t]
                                ELSE [turns[t] EXCEPT !.wiped = TRUE]]
  BY DEF Wipe
<1>3. ASSUME NEW t \in Turns
      PROVE  /\ turns'[t] \in TurnState /\ turns'[t].st = turns[t].st
             /\ turns[t].wiped => turns'[t].wiped
             /\ turns[t].st # "none" => turns'[t].wiped
  <2>1. turns[t] \in TurnState
    BY DEF AttachInv, FeedIsOrdered
  <2>2. turns'[t] = IF turns[t].st = "none" THEN turns[t] ELSE [turns[t] EXCEPT !.wiped = TRUE]
    BY <1>2
  <2> QED
    BY <2>1, <2>2 DEF TurnState
<1>4. RowsAreNumbered'
  BY <1>1, EmptySeq DEF AttachInv, RowsAreNumbered
<1>5. FeedIsOrdered'
  <2>1. turns' \in [Turns -> TurnState]
    BY <1>2, <1>3
  <2>2. \A t \in Turns : \A i \in DOMAIN feed[t] : turns'[t].wiped
    BY <1>3 DEF AttachInv, FeedIsOrdered
  <2>3. DOMAIN rows' = {}
    BY <1>1
  <2> QED
    BY <1>1, <1>3, <2>1, <2>2, <2>3 DEF AttachInv, FeedIsOrdered
<1>6. KnownIsSound'
  <2>1. Known' \subseteq Known
    BY <1>1 DEF Known, ToSet
  <2> QED
    BY <1>1, <2>1 DEF AttachInv, KnownIsSound
<1>7. Shapes'
  BY <1>1 DEF AttachInv, Shapes
<1>8. \A row : FeedGrows(row)
  BY <1>1 DEF FeedGrows
<1>9. Following'
  BY <1>1, <1>3, <1>8, FollowingOn DEF AttachInv
<1>10. FeedMoves
  BY <1>1 DEF FeedMoves
<1> QED
  BY <1>4, <1>5, <1>6, <1>7, <1>9, <1>10 DEF AttachInv

LEMMA CloseKeeps == ASSUME AttachInv, Close PROVE AttachInv' /\ FeedMoves
<1> DEFINE row == [seq |-> next, tag |-> "closed", turn |-> 0]
<1>1. next \in Nat /\ 0 \in 0..MaxTurns
  BY TurnsAre DEF AttachInv, RowsAreNumbered
<1>2. row \in Row /\ row.seq = next /\ row.tag # "user"
  BY <1>1, FrameTags DEF Row
<1>3. rows' = Append(rows, row) /\ next' = next + 1 /\ UNCHANGED <<turns, feed, tail, client>>
  BY DEF Close
<1> HIDE DEF row
<1>4. Arrives(row)
  BY <1>2, <1>3, TurnsStay DEF Arrives, AttachInv
<1> QED
  BY <1>3, <1>4, ArrivesKeeps, ArrivesIsSent

-----------------------------------------------------------------------------
(* The client.                                                               *)

LEMMA NoClientIs ==
  /\ DOMAIN NoClient = ClientFields /\ NoClient.of = 0 /\ NoClient.shown = <<>> /\ NoClient.pc = "idle"
  /\ DOMAIN NoTail = TailFields /\ NoTail.pc = "none" /\ NoTail.scan = 0 /\ NoTail.after = 0
  /\ NoTail.batch = <<>> /\ NoTail.acc = {}
  BY DEF NoClient, ClientFields, NoTail, TailFields

LEMMA GapIs ==
  ASSUME NEW c, DOMAIN c = ClientFields
  PROVE  /\ DOMAIN Gap(c) = ClientFields /\ Gap(c).of = c.of /\ Gap(c).shown = c.shown
         /\ Gap(c).pc = "gap"
  BY DEF Gap, ClientFields, NoClient

\* The client is between two segments, without a tail.
LEMMA NoTailKeeps ==
  ASSUME AttachInv, UNCHANGED <<rows, next, feed, turns>>, tail' = NoTail,
         DOMAIN client' = ClientFields,
         \/ client'.of = client.of /\ client'.shown = client.shown
         \/ client'.of = 0 /\ client'.shown = <<>>
  PROVE  AttachInv' /\ FeedMoves
<1>1. TurnsGoOn
  BY TurnsStay DEF AttachInv
<1>2. Known' \subseteq Known
  BY NoClientIs DEF Known, ToSet
<1>3. Shapes'
  <2>1. 0 \in 0..MaxTurns /\ <<>> \in Seq(Nat) /\ <<>> \in Seq(Row) /\ 0 \in Nat
    BY TurnsAre, EmptySeq
  <2>2. 0 < next
    BY DEF AttachInv, RowsAreNumbered
  <2> QED
    BY <2>1, <2>2, NoClientIs DEF AttachInv, Shapes
<1>4. RowsAreNumbered' /\ FeedIsOrdered' /\ KnownIsSound'
  BY <1>1, <1>2, JournalStays DEF AttachInv
<1>5. Following'
  BY NoClientIs DEF Following
<1>6. FeedMoves
  <2>1. CASE client'.of = 0 /\ client'.shown = <<>>
    BY <1>1, <1>2, <1>3, <2>1, NoClientIs, StartsOver
  <2>2. CASE client'.of = client.of /\ client'.shown = client.shown
    BY <2>2 DEF FeedMoves
  <2> QED
    BY <2>1, <2>2
<1> QED
  BY <1>3, <1>4, <1>5, <1>6 DEF AttachInv

\* The tail stays, or there is none; so does what the client was shown.
LEMMA ClientKeeps ==
  ASSUME AttachInv, UNCHANGED <<rows, next, feed, turns, tail>>, DOMAIN client' = ClientFields,
         client'.of = client.of, client'.shown = client.shown, tail.pc = "none"
  PROVE  AttachInv' /\ FeedMoves
<1>1. TurnsGoOn
  BY TurnsStay DEF AttachInv
<1>2. Known' \subseteq Known
  BY DEF Known
<1>3. Shapes'
  BY DEF AttachInv, Shapes
<1> QED
  BY <1>1, <1>2, <1>3, BesideKeeps

LEMMA FreshClientKeeps ==
  ASSUME AttachInv, UNCHANGED <<rows, next, feed, turns, tail>>, DOMAIN client' = ClientFields,
         client'.of = 0, client'.shown = <<>>, tail.pc = "none"
  PROVE  AttachInv' /\ FeedMoves
<1>1. TurnsGoOn
  BY TurnsStay DEF AttachInv
<1>2. Known' \subseteq Known
  BY DEF Known
<1>3. 0 \in 0..MaxTurns /\ <<>> \in Seq(Nat)
  BY TurnsAre, EmptySeq
<1>4. Shapes'
  BY <1>3 DEF AttachInv, Shapes
<1> QED
  BY <1>1, <1>2, <1>4, StartsOver

LEMMA PostKeeps == ASSUME AttachInv, Post PROVE AttachInv' /\ FeedMoves
<1>1. client.pc = "idle" /\ tail' = tail /\ tail.pc = "none"
  BY DEF Post, AttachInv, Shapes
<1>2. ASSUME NEW t \in Turns, Open(t), client' = [NoClient EXCEPT !.pc = "post", !.own = t]
      PROVE  AttachInv' /\ FeedMoves
  <2> DEFINE row == [seq |-> next, tag |-> "user", turn |-> t]
  <2>1. /\ DOMAIN client' = ClientFields /\ client'.of = 0 /\ client'.shown = <<>>
    BY <1>2 DEF NoClient, ClientFields
  <2>2. TurnsGoOn /\ turns'[t].st # "none" /\ feed[t] = <<>> /\ Journal("user", t)
    BY <1>2, OpenGoesOn DEF AttachInv
  <2>3. feed' = feed /\ next' = next + 1 /\ next \in Nat
    BY <2>2, FrameTags DEF Journal, AttachInv, RowsAreNumbered
  <2>4. Arrives(row)
    BY <2>2, FrameTags, JournalArrives
  <2>5. RowsAreNumbered' /\ FeedIsOrdered' /\ KnownIsSound'
    BY <1>1, <2>4, ArrivesInOrder, ArrivesAmongKnown DEF AttachInv
  <2>6. 0 \in 0..MaxTurns /\ <<>> \in Seq(Nat)
    BY TurnsAre, EmptySeq
  <2>7. Shapes' /\ Following'
    BY <1>1, <2>1, <2>3, <2>6 DEF AttachInv, Shapes, Following
  <2>8. Followed!StartOver(0)
    BY <2>1, <2>3 DEF Followed!StartOver
  <2> QED
    BY <2>5, <2>6, <2>7, <2>8 DEF AttachInv, FeedMoves, Followed!FeedNext
<1>3. ASSUME client' = Gap(NoClient), UNCHANGED <<rows, next, turns, feed>>
      PROVE  AttachInv' /\ FeedMoves
  BY <1>1, <1>3, NoClientIs, GapIs, FreshClientKeeps
<1> QED
  BY <1>2, <1>3 DEF Post

LEMMA ResumeKeeps == ASSUME AttachInv, Resume PROVE AttachInv' /\ FeedMoves
<1>1. client.pc = "idle" /\ client' = Gap(NoClient) /\ UNCHANGED <<rows, next, turns, feed, tail>>
  BY DEF Resume, Unheard
<1>2. tail.pc = "none"
  BY <1>1 DEF AttachInv, Shapes
<1> QED
  BY <1>1, <1>2, NoClientIs, GapIs, FreshClientKeeps

LEMMA TakePostKeeps == ASSUME AttachInv, TakePost PROVE AttachInv' /\ FeedMoves
<1> DEFINE saw == client.saw \/ Head(post.queue) # "part"
<1>1. client' = [client EXCEPT !.saw = saw] /\ client.pc = "post" /\ UNCHANGED <<rows, next, turns, feed, tail>>
  BY DEF TakePost, Unheard
<1> HIDE DEF saw
<1>2. tail.pc = "none" /\ DOMAIN client = ClientFields
  BY <1>1 DEF AttachInv, Shapes
<1>3. DOMAIN client' = ClientFields /\ client'.of = client.of /\ client'.shown = client.shown
  BY <1>1, <1>2 DEF ClientFields, NoClient
<1> QED
  BY <1>1, <1>2, <1>3, ClientKeeps

LEMMA PostEndsKeeps == ASSUME AttachInv, PostEnds PROVE AttachInv' /\ FeedMoves
<1> DEFINE saw == client.saw \/ post.by = "error"
           c == [client EXCEPT !.saw = saw]
<1>1. client' = Gap(c) /\ client.pc = "post" /\ UNCHANGED <<rows, next, turns, feed, tail>>
  BY DEF PostEnds, Unheard
<1> HIDE DEF saw
<1>2. tail.pc = "none" /\ DOMAIN client = ClientFields
  BY <1>1 DEF AttachInv, Shapes
<1>3. DOMAIN c = ClientFields /\ c.of = client.of /\ c.shown = client.shown
  BY <1>1, <1>2 DEF ClientFields, NoClient
<1> HIDE DEF c
<1> QED
  BY <1>1, <1>2, <1>3, GapIs, ClientKeeps

LEMMA ReconnectKeeps == ASSUME AttachInv, Reconnect PROVE AttachInv' /\ FeedMoves
<1>1. client.pc = "gap" /\ UNCHANGED <<rows, next, turns, feed>>
  BY DEF Reconnect, Unheard
<1>2. tail.pc = "none" /\ DOMAIN client = ClientFields
  BY <1>1 DEF AttachInv, Shapes
<1>3. CASE client' = NoClient /\ UNCHANGED tail
  BY <1>1, <1>2, <1>3, NoClientIs, FreshClientKeeps
<1>4. CASE /\ client' = [client EXCEPT !.pc = "tail", !.of = 0, !.shown = <<>>,
                                      !.stopped = FALSE, !.progress = FALSE]
           /\ tail' = [NoTail EXCEPT !.pc = "analyze"]
  <2>1. DOMAIN client' = ClientFields /\ client'.of = 0 /\ client'.shown = <<>> /\ client'.pc = "tail"
    BY <1>2, <1>4 DEF ClientFields, NoClient
  <2>2. /\ DOMAIN tail' = TailFields /\ tail'.pc = "analyze" /\ tail'.scan = 0 /\ tail'.after = 0
        /\ tail'.batch = <<>> /\ tail'.acc = {}
    BY <1>4 DEF TailFields, NoTail
  <2>3. TurnsGoOn
    BY <1>1, TurnsStay DEF AttachInv
  <2>4. Known' \subseteq Known
    BY <1>1, <2>2 DEF Known, ToSet
  <2>5. 0 \in 0..MaxTurns /\ <<>> \in Seq(Nat) /\ <<>> \in Seq(Row) /\ 0 < next
    BY TurnsAre, EmptySeq DEF AttachInv, RowsAreNumbered
  <2>6. Shapes'
    BY <1>1, <2>1, <2>2, <2>5 DEF Shapes
  <2> QED
    BY <1>1, <2>1, <2>2, <2>3, <2>4, <2>6, StartsOver
<1> QED
  BY <1>3, <1>4 DEF Reconnect

LEMMA ContinueIs ==
  ASSUME NEW c, DOMAIN c = ClientFields
  PROVE  /\ DOMAIN Continue(c) = ClientFields
         /\ \/ Continue(c).of = c.of /\ Continue(c).shown = c.shown
            \/ Continue(c).of = 0 /\ Continue(c).shown = <<>>
<1> DEFINE left == c.left - 1
           d == [c EXCEPT !.pc = "gap", !.left = left]
<1>1. Continue(c) \in {NoClient, d}
  BY DEF Continue
<1> HIDE DEF left
<1>2. DOMAIN d = ClientFields /\ d.of = c.of /\ d.shown = c.shown
  BY DEF ClientFields, NoClient
<1> HIDE DEF d
<1> QED
  BY <1>1, <1>2, NoClientIs

LEMMA SegmentEndsKeeps == ASSUME AttachInv, SegmentEnds PROVE AttachInv' /\ FeedMoves
<1>1. client' = Continue(client) /\ tail' = NoTail /\ UNCHANGED <<rows, next, turns, feed>>
  BY DEF SegmentEnds, Unheard
<1> QED
  BY <1>1, ContinueIs, NoTailKeeps DEF AttachInv, Shapes

LEMMA CutKeeps == ASSUME AttachInv, Cut PROVE AttachInv' /\ FeedMoves
<1>1. /\ client' \in {Gap(client), Continue(client)} /\ tail' = NoTail
      /\ UNCHANGED <<rows, next, turns, feed>>
  BY DEF Cut, Unheard
<1> QED
  BY <1>1, ContinueIs, GapIs, NoTailKeeps DEF AttachInv, Shapes

-----------------------------------------------------------------------------
(* The tail.                                                                 *)

LEMMA PageIsKnown ==
  ASSUME RowsAreNumbered, NEW after \in Nat
  PROVE  /\ PageAfter(after) \in Seq(Row) /\ ToSet(PageAfter(after)) \subseteq ToSet(rows)
         /\ DOMAIN PageAfter(after) = 1..Len(PageAfter(after)) /\ Len(PageAfter(after)) \in Nat
<1> DEFINE page == PageAfter(after)
<1>1. PICK n \in 0..Len(rows) :
        /\ page \in Seq(Row) /\ n + Len(page) <= Len(rows)
        /\ \A i \in DOMAIN page : page[i] = rows[n + i]
  BY PageIs
<1>2. /\ DOMAIN page = 1..Len(page) /\ Len(page) \in Nat
      /\ DOMAIN rows = 1..Len(rows) /\ Len(rows) \in Nat
  BY <1>1, LenProperties DEF RowsAreNumbered
<1> HIDE DEF page
<1>3. \A i \in DOMAIN page : n + i \in DOMAIN rows
  BY <1>1, <1>2
<1>4. ToSet(page) \subseteq ToSet(rows)
  BY <1>1, <1>3 DEF ToSet
<1> QED
  BY <1>1, <1>2, <1>4 DEF page

\* The turn to follow is none, or one whose frames come after its message.
LEMMA TargetIs ==
  ASSUME AttachInv, NEW acc, acc \subseteq Known
  PROVE  LET s == Target(acc)
             t == TurnAt(acc, s)
         IN  \/ s = 0 /\ t = 0
             \/ /\ t \in Turns /\ s \in Nat \ {0} /\ s < next
                /\ \E r \in acc : r.turn = t
                /\ \A i \in DOMAIN feed[t] : s < feed[t][i]
<1> DEFINE users == {r.seq : r \in {r \in acc : r.tag = "user"}}
           s == Target(acc)
           t == TurnAt(acc, s)
<1>1. next \in Nat /\ \A r \in acc : r.seq \in 0..next /\ r.seq < next
  BY DEF AttachInv, KnownIsSound, Row, RowsAreNumbered
<1>2. CASE users = {}
  <2>1. s = 0
    BY <1>2 DEF Target
  <2> QED
    BY <2>1 DEF TurnAt
<1>3. CASE users # {}
  <2>1. users \subseteq 0..next
    BY <1>1
  <2>2. \E u \in users : \A v \in users : v <= u
    BY <1>1, <1>3, <2>1, Largest
  <2>3. s = CHOOSE u \in users : \A v \in users : v <= u
    BY <1>3 DEF Target
  <2>4. s \in users
    BY <2>2, <2>3
  <2>5. PICK r \in acc : r.tag = "user" /\ r.seq = s
    BY <2>4
  <2> HIDE DEF users, s
  <2>6. CASE s = 0
    BY <2>6 DEF TurnAt, s
  <2>7. CASE s # 0
    <3> DEFINE q == CHOOSE k \in acc : k.seq = s
    <3>1. q \in acc /\ q.seq = s
      BY <2>5
    <3>2. q = r
      BY <2>5, <3>1 DEF AttachInv, KnownIsSound
    <3>3. t = q.turn
      BY <2>7 DEF TurnAt
    <3>4. r.turn \in Turns /\ \A i \in DOMAIN feed[r.turn] : r.seq < feed[r.turn][i]
      BY <2>5 DEF AttachInv, KnownIsSound
    <3>5. s \in Nat \ {0} /\ s < next
      BY <1>1, <2>5, <2>7
    <3> QED
      BY <2>5, <3>2, <3>3, <3>4, <3>5 DEF s
  <2> QED
    BY <2>6, <2>7
<1> QED
  BY <1>2, <1>3

LEMMA AnalyzeKeeps == ASSUME AttachInv, Analyze PROVE AttachInv' /\ FeedMoves
<1> DEFINE page == PageAfter(tail.scan)
           acc == tail.acc \cup ToSet(page)
           scan == Last(page).seq
<1>1. /\ DOMAIN tail = TailFields /\ DOMAIN client = ClientFields /\ tail.scan \in Nat
      /\ tail.pc = "analyze" /\ client.of = 0 /\ client.shown = <<>> /\ client.pc = "tail"
  BY DEF Analyze, AttachInv, Shapes
<1>2. /\ page \in Seq(Row) /\ ToSet(page) \subseteq ToSet(rows)
      /\ DOMAIN page = 1..Len(page) /\ Len(page) \in Nat
  BY <1>1, PageIsKnown DEF AttachInv
<1>3. UNCHANGED <<rows, next, turns, feed>>
  BY DEF Analyze
<1>4. TurnsGoOn
  BY <1>3, TurnsStay DEF AttachInv
<1> HIDE DEF page
<1>5. acc \subseteq Known
  BY <1>2 DEF Known
<1>6. CASE Len(page) = PageLimit
  <2>1. tail' = [tail EXCEPT !.acc = acc, !.scan = scan] /\ UNCHANGED client
    BY <1>6 DEF Analyze, page
  <2>2. scan \in Nat
    <3>1. Len(page) \in DOMAIN page
      BY <1>2, <1>6, AttachAssumption
    <3>2. page[Len(page)] \in Row
      BY <1>2, <3>1, ElementOfSeq
    <3> QED
      BY <3>2 DEF Last, Row
  <2> HIDE DEF acc, scan
  <2>3. /\ DOMAIN tail' = TailFields /\ tail'.pc = tail.pc /\ tail'.scan = scan
        /\ tail'.after = tail.after /\ tail'.batch = tail.batch /\ tail'.acc = acc
    BY <1>1, <2>1 DEF TailFields, NoTail
  <2>4. Known' \subseteq Known
    BY <1>3, <1>5, <2>3 DEF Known
  <2>5. Shapes'
    BY <1>3, <2>1, <2>2, <2>3 DEF AttachInv, Shapes
  <2> QED
    BY <1>3, <1>4, <2>1, <2>3, <2>4, <2>5, BesideKeeps
<1>7. CASE Len(page) # PageLimit
  <2> DEFINE s == Target(acc)
             t == TurnAt(acc, s)
             open == InFlight(acc)
             after == IF s = 0 THEN 0 ELSE s - 1
  <2>1. /\ tail' = [NoTail EXCEPT !.pc = "check", !.target = t, !.open = open, !.after = after]
        /\ client' = [client EXCEPT !.of = t]
    BY <1>7 DEF Analyze, page
  <2>2. \/ s = 0 /\ t = 0
        \/ t \in Turns /\ s \in Nat \ {0} /\ s < next /\ \A i \in DOMAIN feed[t] : s < feed[t][i]
    BY <1>5, TargetIs
  <2> HIDE DEF t, s, open
  <2>3. next \in Nat \ {0} /\ t \in 0..MaxTurns /\ after \in Nat /\ after < next
    <3>1. next \in Nat \ {0}
      BY DEF AttachInv, RowsAreNumbered
    <3>2. CASE s = 0 /\ t = 0
      BY <3>1, <3>2, TurnsAre
    <3>3. CASE t \in Turns /\ s \in Nat \ {0} /\ s < next
      <4>1. s - 1 \in Nat /\ s - 1 < next /\ s # 0
        BY <3>1, <3>3
      <4> QED
        BY <3>1, <3>3, <4>1, TurnsAre
    <3> QED
      BY <2>2, <3>2, <3>3
  <2>4. \A i \in DOMAIN feed[t] : after < feed[t][i]
    <3>1. feed[0] = <<>> /\ \A i \in DOMAIN feed[t] : feed[t][i] \in Nat
      BY <2>3, FeedsAre DEF AttachInv, FeedIsOrdered
    <3> QED
      BY <2>2, <3>1
  <2> HIDE DEF after
  <2>5. /\ DOMAIN tail' = TailFields /\ tail'.pc = "check" /\ tail'.scan = 0
        /\ tail'.after = after /\ tail'.batch = <<>> /\ tail'.acc = {}
    BY <2>1 DEF TailFields, NoTail
  <2>6. DOMAIN client' = ClientFields /\ client'.of = t /\ client'.shown = <<>> /\ client'.pc = "tail"
    BY <1>1, <2>1 DEF ClientFields, NoClient
  <2>7. Known' \subseteq Known
    BY <1>3, <2>5 DEF Known, ToSet
  <2>8. Shapes'
    <3>1. <<>> \in Seq(Row) /\ <<>> \in Seq(Nat) /\ 0 \in Nat
      BY EmptySeq
    <3> QED
      BY <1>3, <2>3, <2>5, <2>6, <3>1 DEF Shapes
  <2>9. RowsAreNumbered' /\ FeedIsOrdered' /\ KnownIsSound'
    BY <1>3, <1>4, <2>7, JournalStays DEF AttachInv
  <2>10. Following'
    <3>1. Len(client'.shown) = 0 /\ DOMAIN tail'.batch = {}
      BY <2>5, <2>6
    <3>2. feed' = feed /\ feed'[client'.of] = feed[t] /\ Len(feed[t]) \in Nat
      BY <1>3, <2>3, <2>6, FeedsAre DEF AttachInv
    <3>3. ShownIsHead' /\ PageIsOrdered'
      BY <3>1, <3>2 DEF ShownIsHead, PageIsOrdered
    <3>4. \A m \in DOMAIN feed'[client'.of] : Comes(m)'
      BY <2>4, <2>5, <3>2 DEF Comes
    <3> QED
      BY <3>3, <3>4 DEF Following
  <2>11. Followed!StartOver(t)
    BY <1>3, <2>6 DEF Followed!StartOver
  <2> QED
    BY <2>3, <2>8, <2>9, <2>10, <2>11 DEF AttachInv, FeedMoves, Followed!FeedNext
<1> QED
  BY <1>6, <1>7

LEMMA SettledIs ==
  ASSUME NEW t, DOMAIN t = TailFields, NEW why
  PROVE  /\ DOMAIN Settled(t, why) = TailFields /\ Settled(t, why).pc = "done"
         /\ Settled(t, why).scan = t.scan /\ Settled(t, why).after = t.after
         /\ Settled(t, why).batch = t.batch /\ Settled(t, why).acc = t.acc
  BY DEF Settled, TailFields, NoTail

LEMMA PageDoneIs ==
  ASSUME NEW t, DOMAIN t = TailFields
  PROVE  /\ DOMAIN PageDone(t) = TailFields /\ PageDone(t).pc \in {"done", "check", "sleep"}
         /\ PageDone(t).scan = t.scan /\ PageDone(t).after = t.after
         /\ PageDone(t).batch = t.batch /\ PageDone(t).acc = t.acc
         /\ t.stop => PageDone(t).pc = "done"
<1> DEFINE quiet == IF t.got THEN 0 ELSE t.quiet
           read == [t EXCEPT !.quiet = quiet]
           check == [read EXCEPT !.pc = "check"]
           sleep == [read EXCEPT !.pc = "sleep"]
<1>1. PageDone(t) \in {Settled(read, "stop"), check, Settled(read, "still"), Settled(read, "parked"), sleep}
  BY DEF PageDone
<1>5. t.stop => PageDone(t) = Settled(read, "stop")
  BY DEF PageDone
<1> HIDE DEF quiet
<1>2. /\ DOMAIN read = TailFields /\ read.scan = t.scan /\ read.after = t.after
      /\ read.batch = t.batch /\ read.acc = t.acc
  BY DEF TailFields, NoTail
<1> HIDE DEF read
<1>3. /\ DOMAIN check = TailFields /\ check.scan = t.scan /\ check.after = t.after
      /\ check.batch = t.batch /\ check.acc = t.acc /\ check.pc = "check"
  BY <1>2 DEF TailFields, NoTail
<1>4. /\ DOMAIN sleep = TailFields /\ sleep.scan = t.scan /\ sleep.after = t.after
      /\ sleep.batch = t.batch /\ sleep.acc = t.acc /\ sleep.pc = "sleep"
  BY <1>2 DEF TailFields, NoTail
<1> HIDE DEF check, sleep
<1> QED
  BY <1>1, <1>2, <1>3, <1>4, <1>5, SettledIs

\* A page that has rows is the next part of the feed, and what else comes is
\* behind it.
LEMMA PageFollows ==
  ASSUME AttachInv, tail.pc \in {"check", "sleep"}, UNCHANGED <<rows, next, feed, turns, client>>,
         PageAfter(tail.after) # <<>>,
         tail'.batch = PageAfter(tail.after), tail'.after = Last(PageAfter(tail.after)).seq
  PROVE  tail'.after \in Nat /\ tail'.after < next /\ Following'
<1> DEFINE page == PageAfter(tail.after)
           last == Len(page)
           f == feed[client.of]
           n == Len(client.shown)
<1>1. /\ tail.after \in Nat /\ tail.batch = <<>> /\ client.of \in 0..MaxTurns
      /\ n \in Nat
  BY LenProperties DEF AttachInv, Shapes
<1>2. PICK k \in 0..Len(rows) :
        /\ \A i \in DOMAIN rows : rows[i].seq > tail.after <=> i > k
        /\ page \in Seq(Row) /\ k + Len(page) <= Len(rows)
        /\ \A i \in DOMAIN page : page[i] = rows[k + i]
  BY <1>1, PageIs DEF AttachInv
<1>3. /\ DOMAIN page = 1..last /\ last \in Nat \ {0}
      /\ DOMAIN rows = 1..Len(rows) /\ Len(rows) \in Nat /\ next \in Nat
      /\ \A i \in 1..Len(rows) : rows[i].seq = next - Len(rows) + i - 1
  BY <1>2, LenProperties, EmptySeq DEF AttachInv, RowsAreNumbered
<1>4. page[last] \in Row /\ tail'.after = page[last].seq /\ tail'.batch = page
  BY <1>2, <1>3, ElementOfSeq DEF Last
<1> HIDE DEF page
<1>5. \A i \in 1..last : /\ k + i \in 1..Len(rows) /\ page[i].seq = next - Len(rows) + k + i - 1
                         /\ page[i].seq > tail.after
  <2> SUFFICES ASSUME NEW i \in 1..last
               PROVE  /\ k + i \in 1..Len(rows) /\ page[i].seq = next - Len(rows) + k + i - 1
                      /\ page[i].seq > tail.after
    OBVIOUS
  <2>1. k + i \in 1..Len(rows) /\ k + i > k
    BY <1>2, <1>3
  <2>2. page[i] = rows[k + i]
    BY <1>2, <1>3
  <2>3. rows[k + i].seq = next - Len(rows) + (k + i) - 1 /\ rows[k + i].seq > tail.after
    BY <1>2, <1>3, <2>1
  <2> QED
    BY <1>3, <2>1, <2>2, <2>3
<1> DEFINE base == next - Len(rows) + k - 1
<1>6. base \in Int /\ \A i \in 1..last : page[i].seq = base + i
  BY <1>3, <1>5
<1>7. tail'.after = base + last /\ tail'.after < next /\ tail'.after \in Nat
  <2> HIDE DEF base
  <2>a. last \in 1..last
    BY <1>3
  <2>1. k + last \in 1..Len(rows) /\ page[last].seq = base + last
    BY <1>5, <1>6, <2>a
  <2>2. base + last < next
    BY <1>2, <1>3, <2>1 DEF base
  <2> QED
    BY <1>4, <2>1, <2>2 DEF Row
<1>8. \A i \in DOMAIN rows : rows[i].seq > tail.after =>
        rows[i].seq > tail'.after \/ \E b \in 1..last : page[b].seq = rows[i].seq
  <2> SUFFICES ASSUME NEW i \in DOMAIN rows, rows[i].seq > tail.after, ~(rows[i].seq > tail'.after)
               PROVE  \E b \in 1..last : page[b].seq = rows[i].seq
    OBVIOUS
  <2>a. i > k
    BY <1>2
  <2>b. rows[i].seq = next - Len(rows) + i - 1 /\ i \in Int /\ k \in Int /\ next - Len(rows) \in Int
    BY <1>3
  <2>1. i > k /\ rows[i].seq = base + (i - k)
    BY <2>a, <2>b
  <2>2. i - k \in 1..last
    BY <1>3, <1>6, <1>7, <2>1
  <2> QED
    BY <1>6, <2>1, <2>2
<1> HIDE DEF base
<1>9. /\ ShownIsHead /\ PageIsOrdered
      /\ \A m \in DOMAIN f : m > n => Comes(m)
  BY DEF AttachInv, Following
<1>10. f \in Seq(Nat) /\ Len(f) \in Nat /\ DOMAIN f = 1..Len(f) /\ \A i \in DOMAIN f : f[i] \in Nat
  BY <1>1, FeedsAre DEF AttachInv
<1>11. PageIsOrdered'
  <2>1. \A b \in 1..last : page[b].seq <= tail'.after
    BY <1>3, <1>6, <1>7
  <2>2. \A b, c \in 1..last : b < c => page[b].seq < page[c].seq
    BY <1>3, <1>6
  <2> QED
    BY <1>3, <1>4, <2>1, <2>2 DEF PageIsOrdered
<1>12. ShownIsHead'
  <2>1. tail.after < tail'.after
    BY <1>3, <1>4, <1>5
  <2>2. ASSUME NEW i \in 1..n
        PROVE  /\ client.shown[i] = f[i] /\ f[i] <= tail'.after
               /\ \A b \in 1..last : f[i] < page[b].seq
    <3>1. client.shown[i] = f[i] /\ f[i] <= tail.after /\ n <= Len(f)
      BY <1>9, <2>2 DEF ShownIsHead
    <3>2. f[i] \in Nat
      BY <1>1, <1>10, <2>2, <3>1, SMTT(30)
    <3>3. \A b \in 1..last : page[b].seq \in Int /\ page[b].seq > tail.after
      BY <1>5, <1>6
    <3>4. tail.after \in Int /\ tail'.after \in Int
      BY <1>1, <1>7
    <3>5. f[i] <= tail'.after
      BY <2>1, <3>1, <3>2, <3>4
    <3>6. \A b \in 1..last : f[i] < page[b].seq
      BY <3>1, <3>2, <3>3, <3>4
    <3> QED
      BY <3>1, <3>5, <3>6
  <2>3. n <= Len(f)
    BY <1>9 DEF ShownIsHead
  <2> QED
    BY <1>3, <1>4, <2>2, <2>3 DEF ShownIsHead
<1>13. ASSUME NEW m \in DOMAIN f, m > n PROVE Comes(m)'
  <2>1. client.of \in Turns
    BY <1>1, <1>10, <1>13 DEF AttachInv, FeedIsOrdered, Turns
  <2>2. \A i \in DOMAIN f : turns[client.of].wiped <=> ~\E j \in DOMAIN rows : rows[j].seq = f[i]
    BY <2>1 DEF AttachInv, FeedIsOrdered
  <2>3. CASE turns[client.of].wiped
    <3>1. \A b \in 1..last : \A i \in DOMAIN f : page[b].seq # f[i]
      <4> SUFFICES ASSUME NEW b \in 1..last, NEW i \in DOMAIN f PROVE page[b].seq # f[i]
        OBVIOUS
      <4>1. page[b] = rows[k + b] /\ k + b \in DOMAIN rows
        BY <1>2, <1>3, <1>5
      <4> QED
        BY <2>2, <2>3, <4>1
    <3> QED
      BY <1>3, <1>4, <2>3, <3>1 DEF Comes
  <2>4. CASE ~turns[client.of].wiped
    <3>1. tail.after < f[m]
      BY <1>1, <1>9, <1>13, <2>4 DEF Comes
    <3>2. PICK j \in DOMAIN rows : rows[j].seq = f[m]
      BY <1>13, <2>2, <2>4
    <3>3. rows[j].seq > tail'.after \/ \E b \in 1..last : page[b].seq = rows[j].seq
      BY <1>1, <1>8, <1>10, <1>13, <3>1, <3>2
    <3> QED
      BY <1>3, <1>4, <1>7, <1>10, <1>13, <3>2, <3>3 DEF Comes
  <2> QED
    BY <2>3, <2>4
<1>14. Following'
  BY <1>11, <1>12, <1>13 DEF Following
<1> QED
  BY <1>7, <1>14

LEMMA PollKeeps == ASSUME AttachInv, Poll PROVE AttachInv' /\ FeedMoves
<1> DEFINE page == PageAfter(tail.after)
           got == page # <<>>
           more == Len(page) = PageLimit
           after == IF page = <<>> THEN tail.after ELSE Last(page).seq
           read == [tail EXCEPT !.pc = "emit", !.batch = page, !.got = got, !.more = more,
                                !.polled = TRUE, !.after = after]
<1>1. /\ tail.pc \in {"check", "sleep"} /\ UNCHANGED <<rows, next, turns, client, feed>>
      /\ tail' \in {Settled(tail, "cap"), Settled(tail, "stale"),
                    IF page = <<>> THEN PageDone(read) ELSE read}
  BY DEF Poll
<1>2. /\ DOMAIN tail = TailFields /\ tail.batch = <<>> /\ tail.after \in Nat /\ client.pc = "tail"
  BY <1>1 DEF AttachInv, Shapes
<1>3. TurnsGoOn
  BY <1>1, TurnsStay DEF AttachInv
<1>4. page \in Seq(Row) /\ ToSet(page) \subseteq ToSet(rows)
  BY <1>2, PageIsKnown DEF AttachInv
<1> HIDE DEF page, got, more, after
<1>5. /\ DOMAIN read = TailFields /\ read.pc = "emit" /\ read.scan = tail.scan
      /\ read.after = after /\ read.batch = page /\ read.acc = tail.acc
  BY <1>2 DEF TailFields, NoTail
<1> HIDE DEF read
<1>6. ASSUME DOMAIN tail' = TailFields, tail'.pc \in {"done", "check", "sleep"}, tail'.scan = tail.scan,
             tail'.after = tail.after, tail'.batch = tail.batch, tail'.acc = tail.acc
      PROVE  AttachInv' /\ FeedMoves
  <2>1. Known' \subseteq Known
    BY <1>1, <1>6 DEF Known
  <2>2. Shapes'
    BY <1>1, <1>2, <1>6 DEF AttachInv, Shapes
  <2> QED
    BY <1>1, <1>3, <1>6, <2>1, <2>2, BesideKeeps
<1>7. CASE tail' \in {Settled(tail, "cap"), Settled(tail, "stale")}
  BY <1>2, <1>6, <1>7, SettledIs
<1>8. CASE page = <<>> /\ tail' = PageDone(read)
  BY <1>2, <1>5, <1>6, <1>8, PageDoneIs DEF after
<1>9. CASE page # <<>> /\ tail' = read
  <2>1. tail'.after \in Nat /\ tail'.after < next /\ Following'
    BY <1>1, <1>5, <1>9, PageFollows DEF page, after
  <2>2. Known' \subseteq Known
    BY <1>1, <1>4, <1>5, <1>9 DEF Known
  <2>3. Shapes'
    BY <1>1, <1>2, <1>4, <1>5, <1>9, <2>1 DEF AttachInv, Shapes
  <2>4. RowsAreNumbered' /\ FeedIsOrdered' /\ KnownIsSound'
    BY <1>1, <1>3, <2>2, JournalStays DEF AttachInv
  <2> QED
    BY <1>1, <2>1, <2>3, <2>4 DEF AttachInv, FeedMoves
<1> QED
  BY <1>1, <1>7, <1>8, <1>9

\* One row of the page is gone through: what the client was shown is still the
\* head of the feed, one frame longer if the row is a frame of the turn.
LEMMA RowFollows ==
  ASSUME AttachInv, tail.pc = "emit", NEW batch \in {<<>>, Tail(tail.batch)}, NEW shown,
         shown = IF Head(tail.batch).seq \in ToSet(feed[client.of])
                 THEN Append(client.shown, Head(tail.batch).seq) ELSE client.shown,
         UNCHANGED <<feed, turns>>, tail'.after = tail.after, tail'.batch = batch,
         client'.of = client.of, client'.shown = shown
  PROVE  /\ shown \in Seq(Nat)
         /\ batch = Tail(tail.batch) => Following'
         /\ FeedMoves
<1> DEFINE b == tail.batch
           row == Head(b)
           f == feed[client.of]
           n == Len(client.shown)
<1>1. /\ b \in Seq(Row) /\ b # <<>> /\ tail.after \in Nat /\ client.of \in 0..MaxTurns
      /\ client.shown \in Seq(Nat) /\ n \in Nat /\ DOMAIN client.shown = 1..n
  BY LenProperties DEF AttachInv, Shapes
<1>2. /\ DOMAIN b = 1..Len(b) /\ Len(b) \in Nat \ {0} /\ row = b[1] /\ row \in Row
      /\ \A i \in 1..Len(b) : b[i] \in Row
      /\ Tail(b) \in Seq(Row) /\ Len(Tail(b)) = Len(b) - 1 /\ DOMAIN Tail(b) = 1..Len(b) - 1
      /\ \A i \in 1..Len(b) - 1 : Tail(b)[i] = b[i + 1]
  BY <1>1, HeadTailProperties, LenProperties, ElementOfSeq, EmptySeq
<1>3. /\ f \in Seq(Nat) /\ Len(f) \in Nat /\ DOMAIN f = 1..Len(f) /\ \A i \in DOMAIN f : f[i] \in Nat
  BY <1>1, FeedsAre DEF AttachInv
<1>4. Ascends(f)
  <2>1. feed[0] = <<>> /\ \A t \in Turns : Ascends(feed[t])
    BY DEF AttachInv, FeedIsOrdered
  <2> QED
    BY <1>1, <2>1 DEF Turns, Ascends
<1>5. ShownIsHead /\ PageIsOrdered /\ \A m \in DOMAIN f : m > n => Comes(m)
  BY DEF AttachInv, Following
<1>6. /\ n <= Len(f)
      /\ \A i \in 1..n : /\ client.shown[i] = f[i] /\ f[i] <= tail.after
                         /\ \A c \in 1..Len(b) : f[i] < b[c].seq
  BY <1>2, <1>5 DEF ShownIsHead
<1>7. /\ \A c \in 1..Len(b) : b[c].seq <= tail.after /\ b[c].seq \in Nat
      /\ \A c, d \in 1..Len(b) : c < d => b[c].seq < b[d].seq
  BY <1>2, <1>5 DEF PageIsOrdered, Row
<1>8. \A m \in 1..Len(f) : m > n =>
        \/ \E c \in 1..Len(b) : b[c].seq = f[m]
        \/ tail.after < f[m]
        \/ turns[client.of].wiped /\ \A c \in 1..Len(b) : \A i \in 1..Len(f) : b[c].seq # f[i]
  BY <1>2, <1>3, <1>5 DEF Comes
<1>9. ToSet(f) = {f[i] : i \in 1..Len(f)}
  BY <1>3 DEF ToSet
<1>10. row.seq = b[1].seq /\ 1 \in 1..Len(b)
  BY <1>2
<1> HIDE DEF b, row, f, n
<1>11. CASE row.seq \in ToSet(f)
  <2>1. PICK j \in 1..Len(f) : f[j] = b[1].seq
    BY <1>9, <1>10, <1>11
  <2>2. j > n
    <3>1. \A i \in 1..n : f[i] < b[1].seq /\ f[i] \in Nat
      BY <1>1, <1>3, <1>6, <1>10, SMTT(30)
    <3> QED
      BY <1>1, <1>7, <1>10, <2>1, <3>1
  <2>3. n + 1 \in 1..Len(f) /\ n + 1 > n
    BY <1>1, <1>3, <2>1, <2>2
  <2>4. j = n + 1
    <3> SUFFICES ASSUME j # n + 1 PROVE FALSE
      OBVIOUS
    <3>1. f[n + 1] < b[1].seq /\ f[n + 1] \in Nat
      <4>1. n + 1 < j
        BY <1>1, <1>3, <2>1, <2>2, <2>3
      <4> QED
        BY <1>3, <1>4, <2>1, <2>3, <4>1 DEF Ascends
    <3>2. \A c \in 1..Len(b) : b[1].seq <= b[c].seq
      <4> SUFFICES ASSUME NEW c \in 1..Len(b) PROVE b[1].seq <= b[c].seq
        OBVIOUS
      <4>1. CASE c = 1
        BY <1>7, <1>10, <4>1
      <4>2. CASE 1 < c
        BY <1>7, <1>10, <4>2
      <4> QED
        BY <1>2, <4>1, <4>2
    <3>3. ~\E c \in 1..Len(b) : b[c].seq = f[n + 1]
      BY <1>7, <1>10, <3>1, <3>2
    <3>4. ~(tail.after < f[n + 1])
      BY <1>1, <1>7, <1>10, <3>1
    <3>5. ~\A c \in 1..Len(b) : \A i \in 1..Len(f) : b[c].seq # f[i]
      BY <1>10, <2>1
    <3> QED
      BY <1>8, <2>3, <3>3, <3>4, <3>5
  <2>5. shown = Append(client.shown, f[n + 1]) /\ f[n + 1] \in Nat /\ f[n + 1] = b[1].seq
    BY <1>3, <1>10, <1>11, <2>1, <2>3, <2>4 DEF row, b, f
  <2>6. /\ shown \in Seq(Nat) /\ Len(shown) = n + 1
        /\ \A i \in 1..n : shown[i] = f[i]
        /\ shown[n + 1] = f[n + 1]
    BY <1>1, <1>6, <2>5, AppendIs DEF n
  <2>7. Following' \/ batch # Tail(b)
    <3> SUFFICES ASSUME batch = Tail(b) PROVE Following'
      OBVIOUS
    <3>1. tail'.batch = Tail(b) /\ DOMAIN tail'.batch = 1..Len(b) - 1
      BY <1>2
    <3>2. PageIsOrdered'
      <4>1. \A c \in 1..Len(b) - 1 : Tail(b)[c].seq <= tail.after
        BY <1>2, <1>7
      <4>2. ASSUME NEW c \in 1..Len(b) - 1, NEW d \in 1..Len(b) - 1, c < d
            PROVE  Tail(b)[c].seq < Tail(b)[d].seq
        <5>1. c + 1 \in 1..Len(b) /\ d + 1 \in 1..Len(b) /\ c + 1 < d + 1
          BY <1>2, <4>2
        <5> QED
          BY <1>2, <1>7, <5>1
      <4> QED
        BY <3>1, <4>1, <4>2 DEF PageIsOrdered
    <3>3. ShownIsHead'
      <4>1. \A c \in 1..Len(b) - 1 : c + 1 \in 1..Len(b) /\ 1 < c + 1 /\ Tail(b)[c] = b[c + 1]
        BY <1>2
      <4>2. \A c \in 1..Len(b) - 1 : f[n + 1] < Tail(b)[c].seq
        BY <1>7, <1>10, <2>5, <4>1
      <4>3. \A i \in 1..n : \A c \in 1..Len(b) - 1 : f[i] < Tail(b)[c].seq
        BY <1>6, <4>1
      <4>4. f[n + 1] <= tail.after
        BY <1>7, <1>10, <2>5
      <4>5. ASSUME NEW i \in 1..n + 1
            PROVE  /\ shown[i] = f[i] /\ f[i] <= tail.after
                   /\ \A c \in 1..Len(b) - 1 : f[i] < Tail(b)[c].seq
        <5>1. i \in 1..n \/ i = n + 1
          BY <1>1
        <5> QED
          BY <1>6, <2>6, <4>2, <4>3, <4>4, <5>1
      <4>6. n + 1 <= Len(f)
        BY <2>3, <1>3
      <4> QED
        BY <2>6, <3>1, <4>5, <4>6 DEF ShownIsHead, f
    <3>4. ASSUME NEW m \in 1..Len(f), m > n + 1 PROVE Comes(m)'
      <4>1. m > n /\ f[n + 1] < f[m]
        BY <1>1, <1>3, <1>4, <2>3, <3>4 DEF Ascends
      <4>2. CASE \E c \in 1..Len(b) : b[c].seq = f[m]
        <5>1. PICK c \in 1..Len(b) : b[c].seq = f[m]
          BY <4>2
        <5>2. c # 1
          BY <1>3, <2>3, <2>5, <4>1, <5>1
        <5>3. c - 1 \in 1..Len(b) - 1 /\ Tail(b)[c - 1] = b[c]
          BY <1>2, <5>2
        <5> QED
          BY <3>1, <5>1, <5>3 DEF Comes, f
      <4>3. CASE tail.after < f[m]
        BY <4>3 DEF Comes, f
      <4>4. CASE \A c \in 1..Len(b) : \A i \in 1..Len(f) : b[c].seq # f[i]
        BY <1>10, <2>1, <4>4
      <4> QED
        BY <1>8, <4>1, <4>2, <4>3, <4>4
    <3> QED
      BY <1>3, <2>6, <3>2, <3>3, <3>4 DEF Following, f
  <2>8. FeedMoves
    <3>1. /\ SubSeq(f, 1, n + 1) \in Seq(Nat) /\ Len(SubSeq(f, 1, n + 1)) = n + 1
          /\ \A i \in 1..n + 1 : SubSeq(f, 1, n + 1)[i] = f[i]
      <4>1. \A i \in 1..n + 1 : f[i] \in Nat
        BY <1>1, <1>3, <2>3, SMTT(30)
      <4>2. /\ SubSeq(f, 1, n + 1) \in Seq(Nat)
            /\ Len(SubSeq(f, 1, n + 1)) = IF 1 <= n + 1 THEN (n + 1) - 1 + 1 ELSE 0
            /\ \A i \in 1..(n + 1) - 1 + 1 : SubSeq(f, 1, n + 1)[i] = f[1 + i - 1]
        BY <1>1, <4>1, SubSeqProperties
      <4>3. (n + 1) - 1 + 1 = n + 1 /\ 1 <= n + 1 /\ \A i \in 1..n + 1 : 1 + i - 1 = i
        BY <1>1
      <4> QED
        BY <4>2, <4>3
    <3>2. \A i \in 1..n + 1 : shown[i] = f[i]
      BY <1>1, <2>6
    <3>3. shown = SubSeq(f, 1, n + 1)
      BY <2>6, <3>1, <3>2, SeqEqual
    <3>4. n < Len(f)
      BY <1>1, <1>3, <2>3
    <3>a. client'.of = client.of /\ client'.shown = SubSeq(f, 1, n + 1) /\ feed' = feed
      BY <3>3
    <3>5. Followed!See
      <4> DEFINE v == [turn |-> client.of, seen |-> client.shown]
      <4>1. v.turn = client.of /\ v.seen = client.shown
        OBVIOUS
      <4>2. v' = [turn |-> client.of, seen |-> SubSeq(f, 1, n + 1)]
        BY <3>a
      <4>3. DOMAIN v = {"turn", "seen"}
        OBVIOUS
      <4>4. Len(v.seen) < Len(feed[v.turn])
        BY <3>4, <4>1 DEF f, n
      <4>5. v' = [v EXCEPT !.seen = SubSeq(feed[v.turn], 1, Len(v.seen) + 1)]
        <5> HIDE DEF v
        <5> DEFINE s == SubSeq(feed[v.turn], 1, Len(v.seen) + 1)
        <5>1. v' = [turn |-> v.turn, seen |-> s]
          BY <4>1, <4>2 DEF f, n
        <5> HIDE DEF s
        <5>2. [v EXCEPT !.seen = s] = [turn |-> v.turn, seen |-> s]
          BY <4>3
        <5>3. v' = [v EXCEPT !.seen = s]
          BY <5>1, <5>2
        <5> QED
          BY <5>3 DEF s
      <4> QED
        BY <3>a, <4>4, <4>5 DEF Followed!See
    <3> QED
      BY <3>5 DEF FeedMoves, Followed!FeedNext
  <2> QED
    BY <2>6, <2>7, <2>8 DEF b
<1>12. CASE row.seq \notin ToSet(f)
  <2>1. shown = client.shown
    BY <1>12 DEF row, b, f
  <2>2. Following' \/ batch # Tail(b)
    <3> SUFFICES ASSUME batch = Tail(b) PROVE Following'
      OBVIOUS
    <3>1. tail'.batch = Tail(b) /\ DOMAIN tail'.batch = 1..Len(b) - 1
      BY <1>2
    <3>2. PageIsOrdered'
      <4>1. \A c \in 1..Len(b) - 1 : Tail(b)[c].seq <= tail.after
        BY <1>2, <1>7
      <4>2. ASSUME NEW c \in 1..Len(b) - 1, NEW d \in 1..Len(b) - 1, c < d
            PROVE  Tail(b)[c].seq < Tail(b)[d].seq
        <5>1. c + 1 \in 1..Len(b) /\ d + 1 \in 1..Len(b) /\ c + 1 < d + 1
          BY <1>2, <4>2
        <5> QED
          BY <1>2, <1>7, <5>1
      <4> QED
        BY <3>1, <4>1, <4>2 DEF PageIsOrdered
    <3>3. ShownIsHead'
      <4>1. \A c \in 1..Len(b) - 1 : c + 1 \in 1..Len(b) /\ Tail(b)[c] = b[c + 1]
        BY <1>2
      <4>2. \A i \in 1..n : \A c \in 1..Len(b) - 1 : f[i] < Tail(b)[c].seq
        BY <1>6, <4>1
      <4> QED
        BY <1>6, <2>1, <3>1, <4>2 DEF ShownIsHead, f, n
    <3>4. ASSUME NEW m \in 1..Len(f), m > n PROVE Comes(m)'
      <4>1. CASE \E c \in 1..Len(b) : b[c].seq = f[m]
        <5>1. PICK c \in 1..Len(b) : b[c].seq = f[m]
          BY <4>1
        <5>2. c # 1
          BY <1>9, <1>10, <1>12, <5>1
        <5>3. c - 1 \in 1..Len(b) - 1 /\ Tail(b)[c - 1] = b[c]
          BY <1>2, <5>2
        <5> QED
          BY <3>1, <5>1, <5>3 DEF Comes, f
      <4>2. CASE tail.after < f[m]
        BY <4>2 DEF Comes, f
      <4>3. CASE turns[client.of].wiped /\ \A c \in 1..Len(b) : \A i \in 1..Len(f) : b[c].seq # f[i]
        <5>1. \A c \in 1..Len(b) - 1 : \A i \in 1..Len(f) : Tail(b)[c].seq # f[i]
          <6>1. \A c \in 1..Len(b) - 1 : c + 1 \in 1..Len(b) /\ Tail(b)[c] = b[c + 1]
            BY <1>2
          <6> QED
            BY <4>3, <6>1
        <5>2. /\ client'.of = client.of /\ turns' = turns /\ feed' = feed /\ feed[client.of] = f
              /\ DOMAIN f = 1..Len(f)
          BY <1>3 DEF f
        <5>3. \A c \in DOMAIN tail'.batch : \A i \in DOMAIN f : tail'.batch[c].seq # f[i]
          BY <3>1, <5>1, <5>2
        <5>4. turns'[client'.of].wiped
          BY <4>3, <5>2
        <5> QED
          BY <5>2, <5>3, <5>4 DEF Comes
      <4> QED
        BY <1>8, <3>4, <4>1, <4>2, <4>3
    <3> QED
      BY <1>3, <2>1, <3>2, <3>3, <3>4 DEF Following, f, n
  <2>3. FeedMoves
    BY <2>1 DEF FeedMoves
  <2> QED
    BY <1>1, <2>1, <2>2, <2>3 DEF b
<1> QED
  BY <1>11, <1>12

LEMMA EmitRowKeeps == ASSUME AttachInv, EmitRow PROVE AttachInv' /\ FeedMoves
<1> DEFINE row == Head(tail.batch)
           followed == row.turn = tail.target
           stops == row.tag = "closed" \/ (row.tag \in Terminal /\ followed)
           pend == \/ tail.pend /\ ~(row.tag = "resolved" /\ followed)
                   \/ row.tag = "ask" /\ followed
           batch == IF stops THEN <<>> ELSE Tail(tail.batch)
           emit == [tail EXCEPT !.pend = pend, !.stop = stops, !.batch = batch]
           shown == IF row.seq \in ToSet(feed[client.of]) THEN Append(client.shown, row.seq)
                    ELSE client.shown
           saw == client.saw \/ row.tag \in Terminal
           stopped == client.stopped \/ row.tag # "part"
           seen == [client EXCEPT !.shown = shown, !.progress = TRUE, !.saw = saw,
                                  !.stopped = stopped]
<1>1. tail.pc = "emit" /\ UNCHANGED <<rows, next, turns, feed>>
  BY DEF EmitRow
<1>2. tail' = IF emit.batch = <<>> THEN PageDone(emit) ELSE emit
  BY DEF EmitRow
<1>3. client' = IF row.tag \notin Frame THEN client ELSE seen
  BY DEF EmitRow
<1>4. /\ DOMAIN tail = TailFields /\ DOMAIN client = ClientFields /\ client.pc = "tail"
      /\ tail.batch \in Seq(Row) /\ tail.batch # <<>>
  BY <1>1 DEF AttachInv, Shapes
<1>5. row \in ToSet(tail.batch) /\ batch \in Seq(Row) /\ ToSet(batch) \subseteq ToSet(tail.batch)
  <2>1. /\ row = tail.batch[1] /\ Len(tail.batch) \in Nat \ {0}
        /\ DOMAIN tail.batch = 1..Len(tail.batch)
    BY <1>4, HeadTailProperties, LenProperties, EmptySeq
  <2>2. row \in ToSet(tail.batch)
    BY <2>1 DEF ToSet
  <2> HIDE DEF batch, stops
  <2>3. CASE batch = <<>>
    <3>1. batch \in Seq(Row) /\ DOMAIN batch = {}
      BY <2>3, EmptySeq
    <3>2. ToSet(batch) = {}
      BY <3>1 DEF ToSet
    <3> QED
      BY <2>2, <3>1, <3>2
  <2>4. CASE batch = Tail(tail.batch)
    <3> DEFINE b == tail.batch
    <3>a. b \in Seq(Row) /\ b # <<>>
      BY <1>4
    <3>b. batch = Tail(b)
      BY <2>4
    <3> HIDE DEF b
    <3>c. /\ Tail(b) \in Seq(Row) /\ Len(Tail(b)) = Len(b) - 1
          /\ \A i \in 1..Len(b) - 1 : Tail(b)[i] = b[i + 1]
      BY <3>a, HeadTailProperties
    <3>1. /\ batch \in Seq(Row) /\ DOMAIN batch = 1..Len(tail.batch) - 1
          /\ \A i \in 1..Len(tail.batch) - 1 : batch[i] = tail.batch[i + 1]
      BY <3>b, <3>c, LenProperties DEF b
    <3>2. \A i \in DOMAIN batch : batch[i] = tail.batch[i + 1] /\ i + 1 \in DOMAIN tail.batch
      BY <2>1, <3>1
    <3> HIDE DEF batch
    <3>3. ToSet(batch) \subseteq ToSet(tail.batch)
      BY <3>2 DEF ToSet
    <3> QED
      BY <2>2, <3>1, <3>3
  <2> QED
    BY <2>3, <2>4 DEF batch
<1>6. batch \in {<<>>, Tail(tail.batch)} /\ (~stops => batch = Tail(tail.batch))
  OBVIOUS
<1> HIDE DEF pend, stops, batch
<1>7. /\ DOMAIN emit = TailFields /\ emit.pc = "emit" /\ emit.scan = tail.scan
      /\ emit.after = tail.after /\ emit.batch = batch /\ emit.acc = tail.acc /\ emit.stop = stops
  BY <1>1, <1>4 DEF TailFields, NoTail
<1> HIDE DEF emit
<1>8. /\ DOMAIN tail' = TailFields /\ tail'.pc \in {"done", "check", "sleep", "emit"}
      /\ tail'.scan = tail.scan /\ tail'.after = tail.after /\ tail'.batch = batch
      /\ tail'.acc = tail.acc
      /\ tail'.pc \in {"check", "sleep"} => batch = <<>>
      /\ tail'.pc = "emit" => batch # <<>>
      /\ tail'.pc # "done" => batch = Tail(tail.batch)
  <2>1. CASE batch = <<>>
    <3>1. tail' = PageDone(emit)
      BY <1>2, <1>7, <2>1
    <3> QED
      BY <1>6, <1>7, <2>1, <3>1, PageDoneIs
  <2>2. CASE batch # <<>>
    <3>1. tail' = emit
      BY <1>2, <1>7, <2>2
    <3> QED
      BY <1>6, <1>7, <2>2, <3>1
  <2> QED
    BY <2>1, <2>2
<1>9. row.tag \in Frame \/ row.seq \notin ToSet(feed[client.of])
  <2> SUFFICES ASSUME row.tag \notin Frame, row.seq \in ToSet(feed[client.of]) PROVE FALSE
    OBVIOUS
  <2>1. row \in Known
    BY <1>5 DEF Known
  <2>2. PICK i \in DOMAIN feed[client.of] : feed[client.of][i] = row.seq
    BY DEF ToSet
  <2>3. client.of \in Turns
    BY <2>2 DEF AttachInv, Shapes, FeedIsOrdered, Turns
  <2> HIDE DEF row
  <2> QED
    BY <2>1, <2>2, <2>3 DEF AttachInv, KnownIsSound
<1>10. DOMAIN client' = ClientFields /\ client'.of = client.of /\ client'.shown = shown
       /\ client'.pc = "tail"
  <2>1. CASE row.tag \notin Frame
    BY <1>3, <1>4, <1>9, <2>1
  <2>2. CASE row.tag \in Frame
    <3> HIDE DEF shown, saw, stopped
    <3> QED
      BY <1>3, <1>4, <2>2 DEF ClientFields, NoClient
  <2> QED
    BY <2>1, <2>2
<1>11. shown \in Seq(Nat) /\ (batch = Tail(tail.batch) => Following') /\ FeedMoves
  BY <1>1, <1>6, <1>8, <1>10, RowFollows
<1> HIDE DEF shown, row
<1>12. Following'
  BY <1>8, <1>11 DEF Following
<1>13. Known' \subseteq Known
  BY <1>1, <1>5, <1>8 DEF Known
<1>14. Shapes'
  BY <1>1, <1>5, <1>8, <1>10, <1>11 DEF AttachInv, Shapes
<1>15. RowsAreNumbered' /\ FeedIsOrdered' /\ KnownIsSound'
  BY <1>1, <1>13, JournalStays, TurnsStay DEF AttachInv
<1> QED
  BY <1>11, <1>12, <1>14, <1>15 DEF AttachInv

-----------------------------------------------------------------------------
(* The theorem.                                                              *)

LEMMA AttachStarts == ASSUME Init PROVE AttachInv /\ Followed!FeedInit
<1>1. MaxTurns \in Nat /\ 0 \in 0..MaxTurns /\ Turns \subseteq 0..MaxTurns
  BY TurnsAre
<1>2. /\ rows = <<>> /\ next = 1 /\ tail = NoTail /\ client = NoClient
      /\ turns = [t \in Turns |-> NoTurn] /\ feed = [t \in 0..MaxTurns |-> <<>>]
  BY DEF Init
<1>3. <<>> \in Seq(Row) /\ <<>> \in Seq(Nat)
  BY EmptySeq
<1>4. RowsAreNumbered
  BY <1>2, <1>3 DEF RowsAreNumbered
<1>5. FeedIsOrdered
  <2>1. NoTurn \in TurnState
    BY DEF NoTurn, TurnState
  <2>2. \A t \in Turns : feed[t] = <<>> /\ turns[t] \in TurnState
    BY <1>1, <1>2, <2>1
  <2> QED
    BY <1>1, <1>2, <1>3, <2>1, <2>2 DEF FeedIsOrdered, Ascends
<1>6. KnownIsSound
  <2>1. Known = {}
    BY <1>2, NoClientIs DEF Known, ToSet
  <2> QED
    BY <2>1 DEF KnownIsSound
<1>7. Shapes
  BY <1>1, <1>2, <1>3, NoClientIs DEF Shapes
<1>8. Following
  BY <1>2, NoClientIs DEF Following
<1>9. Followed!FeedInit
  BY <1>2, NoClientIs DEF Followed!FeedInit
<1> QED
  BY <1>4, <1>5, <1>6, <1>7, <1>8, <1>9 DEF AttachInv

LEMMA NextKeeps == ASSUME AttachInv, [Next]_vars PROVE AttachInv' /\ FeedMoves
<1>1. CASE UNCHANGED vars
  <2>1. UNCHANGED <<rows, next, turns, tail, client, feed>>
    BY <1>1 DEF vars
  <2>2. TurnsGoOn
    BY <2>1, TurnsStay DEF AttachInv
  <2>3. Known' \subseteq Known /\ Shapes'
    BY <2>1 DEF Known, Shapes, AttachInv
  <2> QED
    BY <2>1, <2>2, <2>3, BesideKeeps
<1>2. CASE OpenBeside
  BY <1>2, OpenBesideKeeps
<1>3. CASE Reset \/ CloseEnds
  BY <1>3, WipeKeeps DEF Reset, CloseEnds
<1>4. CASE Close
  BY <1>4, CloseKeeps
<1>5. ASSUME NEW t \in Turns, TurnStep(t) \/ Resolve(t) \/ Gone(t) \/ Slow(t)
      PROVE  AttachInv' /\ FeedMoves
  BY <1>5, EmitKeeps, EndKeeps, ResolveKeeps, GoneKeeps, SlowKeeps DEF TurnStep
<1>6. CASE TailStep
  BY <1>6, AnalyzeKeeps, PollKeeps, EmitRowKeeps DEF TailStep
<1>7. CASE Tick
  BY <1>7, TickKeeps
<1>8. CASE Post \/ Resume
  BY <1>8, PostKeeps, ResumeKeeps
<1>9. CASE ClientStep
  BY <1>9, TakePostKeeps, PostEndsKeeps, ReconnectKeeps, SegmentEndsKeeps DEF ClientStep
<1>10. CASE Cut
  BY <1>10, CutKeeps
<1> QED
  BY <1>1, <1>2, <1>3, <1>4, <1>5, <1>6, <1>7, <1>8, <1>9, <1>10 DEF Next

\* FollowsFeed: whatever turns are opened, wiped, parked and resumed meanwhile,
\* and however often the connection breaks off, a client that follows a turn
\* through GET /attach is shown its frames from the first on, in order, once
\* each (AttachStream.ts startCursor and runTail, atoms.ts attachTail).
THEOREM TheTailFollowsTheFeed == Spec => FollowsFeed
<1>1. Init => AttachInv /\ Followed!FeedInit
  BY AttachStarts
<1>2. AttachInv /\ [Next]_vars => AttachInv' /\ [Followed!FeedNext]_<<feed, [turn |-> client.of, seen |-> client.shown]>>
  BY NextKeeps DEF FeedMoves
<1> QED
  BY <1>1, <1>2, PTL DEF Spec, FollowsFeed, Followed!FeedSpec

-----------------------------------------------------------------------------
(* The response of the client's own POST.                                    *)

\* A response that the driver has ended has told the client so, or the news is
\* the last part of its queue.
ResponseTells ==
  /\ DOMAIN post = {"queue", "by"} /\ post.queue \in Seq(Frame)
  /\ post.by \in {"none", "gone"} \cup Frame /\ post.by # "part"
  /\ client.pc = "post" /\ post.by \in {"done", "ask"} =>
       client.saw \/ (post.queue # <<>> /\ post.queue[Len(post.queue)] # "part")

LEMMA NoPostTells == ASSUME post' = NoPost PROVE ResponseTells'
<1>1. <<>> \in Seq(Frame)
  BY EmptySeq
<1>2. DOMAIN NoPost = {"queue", "by"} /\ NoPost.queue = <<>> /\ NoPost.by = "none"
  BY DEF NoPost
<1> QED
  BY <1>1, <1>2 DEF ResponseTells, Frame

LEMMA PostStaysTells ==
  ASSUME ResponseTells, UNCHANGED post,
         client'.pc = "post" => client.pc = "post" /\ (client.saw => client'.saw)
  PROVE  ResponseTells'
  BY DEF ResponseTells

\* The queue keeps its newest part, and the rest of a queue its last one.
LEMMA SlideIs ==
  ASSUME NEW q \in Seq(Frame), NEW tag \in Frame
  PROVE  LET s == Slide(Append(q, tag)) IN s \in Seq(Frame) /\ s # <<>> /\ s[Len(s)] = tag
<1> DEFINE a == Append(q, tag)
<1>1. /\ a \in Seq(Frame) /\ Len(a) = Len(q) + 1 /\ Len(q) \in Nat /\ a[Len(q) + 1] = tag
  BY AppendIs
<1> HIDE DEF a
<1>2. PostCap \in Nat \ {0}
  BY AttachAssumption
<1>3. a # <<>>
  BY <1>1, EmptySeq
<1>4. CASE Len(a) > PostCap
  <2>1. Tail(a) \in Seq(Frame) /\ Len(Tail(a)) = Len(q) /\ \A i \in 1..Len(a) - 1 : Tail(a)[i] = a[i + 1]
    BY <1>1, <1>3, HeadTailProperties
  <2>2. Len(q) \in 1..Len(a) - 1
    BY <1>1, <1>2, <1>4
  <2>3. Tail(a) # <<>> /\ Tail(a)[Len(Tail(a))] = tag
    BY <1>1, <2>1, <2>2, EmptySeq
  <2> QED
    BY <1>4, <2>1, <2>3 DEF Slide, a
<1>5. CASE ~(Len(a) > PostCap)
  BY <1>1, <1>3, <1>5 DEF Slide, a
<1> QED
  BY <1>4, <1>5

LEMMA OfferTells ==
  ASSUME ResponseTells, NEW t, NEW tag \in Frame, Offer(t, tag), UNCHANGED client
  PROVE  ResponseTells'
<1> DEFINE s == Slide(Append(post.queue, tag))
           queue == IF tag = "error" THEN post.queue ELSE s
           by == IF tag = "part" THEN "none" ELSE tag
<1>1. post.queue \in Seq(Frame)
  BY DEF ResponseTells
<1>2. s \in Seq(Frame) /\ s # <<>> /\ s[Len(s)] = tag
  BY <1>1, SlideIs
<1>3. post' = post \/ post' = [queue |-> queue, by |-> by]
  BY DEF Offer
<1> HIDE DEF s
<1>4. CASE post' = post
  BY <1>4, PostStaysTells
<1>5. CASE post' = [queue |-> queue, by |-> by]
  <2>1. DOMAIN post' = {"queue", "by"} /\ post'.queue = queue /\ post'.by = by
    BY <1>5
  <2>2. queue \in Seq(Frame) /\ by \in {"none"} \cup Frame /\ by # "part"
    BY <1>1, <1>2
  <2>3. by \in {"done", "ask"} => queue # <<>> /\ queue[Len(queue)] # "part"
    BY <1>2
  <2> QED
    BY <2>1, <2>2, <2>3 DEF ResponseTells
<1> QED
  BY <1>3, <1>4, <1>5

LEMMA GoneTells == ASSUME ResponseTells, NEW t, Gone(t) PROVE ResponseTells'
<1>1. (post' = post \/ post' = [post EXCEPT !.by = "gone"]) /\ UNCHANGED client
  BY DEF Gone
<1>2. CASE post' = [post EXCEPT !.by = "gone"]
  <2>1. DOMAIN post' = {"queue", "by"} /\ post'.queue = post.queue /\ post'.by = "gone"
    BY <1>2 DEF ResponseTells
  <2> QED
    BY <2>1 DEF ResponseTells, Frame, Terminal
<1> QED
  BY <1>1, <1>2, PostStaysTells

LEMMA TakePostTells == ASSUME AttachInv, ResponseTells, TakePost PROVE ResponseTells'
<1> DEFINE q == post.queue
           tail1 == Tail(q)
           saw == client.saw \/ Head(q) # "part"
<1>1. /\ client' = [client EXCEPT !.saw = saw] /\ post' = [post EXCEPT !.queue = tail1]
      /\ q # <<>>
  BY DEF TakePost
<1>2. DOMAIN client = ClientFields /\ q \in Seq(Frame) /\ DOMAIN post = {"queue", "by"}
  BY DEF AttachInv, Shapes, ResponseTells
<1>3. /\ Head(q) = q[1] /\ tail1 \in Seq(Frame) /\ Len(q) \in Nat \ {0} /\ Len(tail1) = Len(q) - 1
      /\ \A i \in 1..Len(q) - 1 : tail1[i] = q[i + 1]
  BY <1>1, <1>2, HeadTailProperties, LenProperties, EmptySeq
<1> HIDE DEF tail1
<1>4. DOMAIN post' = {"queue", "by"} /\ post'.queue = tail1 /\ post'.by = post.by
  BY <1>1, <1>2
<1>5. client'.pc = client.pc /\ (client'.saw <=> saw)
  <2>1. client'.pc = client.pc /\ client'.saw = saw
    <3> HIDE DEF saw
    <3> QED
      BY <1>1, <1>2 DEF ClientFields, NoClient
  <2> QED
    BY <2>1
<1> HIDE DEF q
<1>6. ASSUME client.pc = "post", post.by \in {"done", "ask"}
      PROVE  saw \/ (tail1 # <<>> /\ tail1[Len(tail1)] # "part")
  <2>1. client.saw \/ q[Len(q)] # "part"
    BY <1>6 DEF ResponseTells, q
  <2>2. CASE Len(q) = 1
    BY <1>3, <2>1, <2>2
  <2>3. CASE Len(q) # 1
    <3>1. Len(q) - 1 \in 1..Len(q) - 1 /\ Len(q) - 1 + 1 = Len(q)
      BY <1>3, <2>3
    <3>2. tail1 # <<>> /\ tail1[Len(tail1)] = q[Len(q)]
      BY <1>3, <3>1, EmptySeq
    <3> QED
      BY <2>1, <3>2
  <2> QED
    BY <2>2, <2>3
<1> HIDE DEF saw
<1> QED
  BY <1>3, <1>4, <1>5, <1>6 DEF ResponseTells

LEMMA ResponseKeeps == ASSUME AttachInv, ResponseTells, [Next]_vars PROVE ResponseTells'
<1>1. DOMAIN client = ClientFields
  BY DEF AttachInv, Shapes
<1>2. CASE UNCHANGED vars \/ OpenBeside \/ Reset \/ Close \/ CloseEnds \/ Poll \/ Tick
  <2>1. UNCHANGED <<post, client>>
    BY <1>2 DEF vars, OpenBeside, Reset, Close, CloseEnds, Wipe, Poll, Tick
  <2> QED
    BY <2>1, PostStaysTells
<1>3. ASSUME NEW t \in Turns, TurnStep(t) \/ Resolve(t) \/ Gone(t) \/ Slow(t)
      PROVE  ResponseTells'
  <2>1. CASE Emit(t)
    BY <2>1, OfferTells DEF Emit, Frame
  <2>2. CASE End(t)
    <3>1. PICK tag \in Terminal \cup {"ask"} : Offer(t, tag)
      BY <2>2 DEF End
    <3>2. tag \in Frame /\ UNCHANGED client
      BY <2>2 DEF End, Frame
    <3> QED
      BY <3>1, <3>2, OfferTells
  <2>3. CASE Resolve(t) \/ Slow(t)
    BY <2>3, PostStaysTells DEF Resolve, Slow
  <2> QED
    BY <1>3, <2>1, <2>2, <2>3, GoneTells DEF TurnStep
<1>4. CASE Analyze
  <2> DEFINE of == TurnAt(tail.acc \cup ToSet(PageAfter(tail.scan)), Target(tail.acc \cup ToSet(PageAfter(tail.scan))))
  <2>1. (client' = client \/ client' = [client EXCEPT !.of = of]) /\ UNCHANGED post
    BY <1>4 DEF Analyze
  <2> HIDE DEF of
  <2>2. client'.pc = client.pc /\ client'.saw = client.saw
    BY <1>1, <2>1 DEF ClientFields, NoClient
  <2> QED
    BY <2>1, <2>2, PostStaysTells
<1>5. CASE EmitRow
  <2>1. client.pc = "tail" /\ UNCHANGED post
    BY <1>5 DEF EmitRow, AttachInv, Shapes
  <2> DEFINE shown == IF Head(tail.batch).seq \in ToSet(feed[client.of])
                      THEN Append(client.shown, Head(tail.batch).seq) ELSE client.shown
             saw == client.saw \/ Head(tail.batch).tag \in Terminal
             stopped == client.stopped \/ Head(tail.batch).tag # "part"
             seen == [client EXCEPT !.shown = shown, !.progress = TRUE, !.saw = saw,
                                    !.stopped = stopped]
  <2>2. client' \in {client, seen}
    BY <1>5 DEF EmitRow
  <2> HIDE DEF shown, saw, stopped
  <2>3. client'.pc = "tail"
    BY <1>1, <2>1, <2>2 DEF ClientFields, NoClient
  <2> QED
    BY <2>1, <2>3, PostStaysTells
<1>6. CASE Post \/ PostEnds \/ Cut
  BY <1>6, NoPostTells DEF Post, PostEnds, Cut
<1>7. CASE Resume \/ Reconnect \/ SegmentEnds
  <2>1. UNCHANGED post
    BY <1>7 DEF Resume, Reconnect, SegmentEnds
  <2>2. client'.pc # "post"
    <3>1. CASE Resume
      BY <3>1, NoClientIs, GapIs DEF Resume
    <3>2. CASE Reconnect
      BY <1>1, <3>2, NoClientIs DEF Reconnect, ClientFields, NoClient
    <3>3. CASE SegmentEnds
      <4> DEFINE left == client.left - 1
      <4>1. client' \in {NoClient, [client EXCEPT !.pc = "gap", !.left = left]}
        BY <3>3 DEF SegmentEnds, Continue
      <4> HIDE DEF left
      <4> QED
        BY <1>1, <4>1, NoClientIs DEF ClientFields, NoClient
    <3> QED
      BY <1>7, <3>1, <3>2, <3>3
  <2> QED
    BY <2>1, <2>2, PostStaysTells
<1>8. CASE TakePost
  BY <1>8, TakePostTells
<1> QED
  BY <1>2, <1>3, <1>4, <1>5, <1>6, <1>7, <1>8 DEF Next, TailStep, ClientStep

\* EndedPostIsKnown: whatever parts the sliding queue of the response drops, a
\* client whose POST the driver has ended knows that it has (StreamingTurn.ts
\* Queue.sliding, atoms.ts recordTerminal).
THEOREM EndedResponsesAreKnown == Spec => EndedPostIsKnown
<1>1. Init => AttachInv /\ ResponseTells
  <2>1. ASSUME Init PROVE ResponseTells
    <3>1. <<>> \in Seq(Frame) /\ post = NoPost
      BY <2>1, EmptySeq DEF Init
    <3>2. DOMAIN NoPost = {"queue", "by"} /\ NoPost.queue = <<>> /\ NoPost.by = "none"
      BY DEF NoPost
    <3> QED
      BY <3>1, <3>2 DEF ResponseTells, Frame
  <2> QED
    BY <2>1, AttachStarts
<1>2. AttachInv /\ ResponseTells /\ [Next]_vars => AttachInv' /\ ResponseTells'
  BY NextKeeps, ResponseKeeps
<1>3. AttachInv /\ ResponseTells /\ [Next]_vars =>
        [(client.pc = "post" /\ PostEnds /\ post.by # "gone") => client'.saw]_vars
  <2> SUFFICES ASSUME AttachInv, ResponseTells, client.pc = "post", PostEnds, post.by # "gone"
               PROVE  client'.saw
    OBVIOUS
  <2> DEFINE saw == client.saw \/ post.by = "error"
             c == [client EXCEPT !.saw = saw]
  <2>1. client' = Gap(c) /\ post.by # "none" /\ post.queue = <<>>
    BY DEF PostEnds
  <2>2. post.by \in {"done", "ask", "error"}
    BY <2>1 DEF ResponseTells, Frame, Terminal
  <2>3. saw
    BY <2>1, <2>2 DEF ResponseTells
  <2> HIDE DEF saw
  <2>4. DOMAIN c = ClientFields /\ c.saw = saw
    BY DEF AttachInv, Shapes, ClientFields, NoClient
  <2> HIDE DEF c
  <2>5. Gap(c).saw = c.saw
    BY <2>4 DEF Gap, ClientFields, NoClient
  <2> QED
    BY <2>1, <2>3, <2>4, <2>5
<1> QED
  BY <1>1, <1>2, <1>3, PTL DEF Spec, EndedPostIsKnown

-----------------------------------------------------------------------------
(* The patience of the tail.                                                 *)

\* The rows that the tail has still to go through.
Coming == ToSet(tail.batch) \cup {r \in ToSet(rows) : r.seq > tail.after}

\* A turn journals within a hop; one whose rows are read has been opened; and
\* one that is parked has asked and was not answered.
TurnsAreHeard ==
  /\ \A t \in Turns : turns[t].idle <= Hop
  /\ \A r \in Known : r.turn \in Turns => turns[r.turn].st # "none"
  /\ \A t \in Turns : turns[t].st = "parked" /\ ~turns[t].wiped =>
       \E q \in ToSet(rows) :
         /\ q.tag = "ask" /\ q.turn = t /\ \E i \in DOMAIN feed[t] : feed[t][i] = q.seq
         /\ \A r \in ToSet(rows) : r.tag = "resolved" /\ r.turn = t => r.seq < q.seq

\* The clock of the tail, and what it waits for, before it sleeps.
TailIsAwake ==
  /\ tail.target \in 0..MaxTurns /\ tail.quiet \in Nat
  /\ tail.pc = "emit" => tail.got
  /\ tail.pc = "check" => tail.quiet = 0
  /\ tail.pc = "sleep" => ~tail.pend

\* A question of the turn that nobody has answered is still to come, or it was
\* the last of the questions and answers that the tail has gone through.
AskComes ==
  \/ /\ tail.pend
     /\ \A r \in Coming : ~(r.tag = "resolved" /\ r.turn = tail.target)
  \/ \E q \in Coming :
       /\ q.tag = "ask" /\ q.turn = tail.target
       /\ \A r \in Coming : r.tag = "resolved" /\ r.turn = tail.target => r.seq < q.seq

\* The tail has slept for no longer than the turn was silent, unless there is
\* something to read.
SleepIsShort ==
  /\ tail.quiet <= Hop + 1
  /\ tail.polled => tail.quiet <= Hop
  /\ turns[tail.target].st = "live" /\ Coming = {} => tail.quiet <= turns[tail.target].idle

TailIsPatient ==
  tail.pc \in {"check", "sleep", "emit"} /\ tail.target \in Turns =>
    /\ turns[tail.target].st # "none"
    /\ ~turns[tail.target].wiped =>
         /\ turns[tail.target].st = "parked" => AskComes
         /\ /\ tail.pc = "sleep" /\ ~turns[tail.target].slow
            /\ turns[tail.target].st \in {"live", "parked"}
            => SleepIsShort

Patience == TurnsAreHeard /\ TailIsAwake /\ TailIsPatient

\* What a row tells of its turn.
TurnHears(row) ==
  /\ \A t \in Turns : t # row.turn => turns'[t] = turns[t]
  /\ row.turn \in Turns =>
       /\ turns'[row.turn].idle <= Hop
       /\ turns'[row.turn].st = "parked" <=> row.tag = "ask"
       /\ turns'[row.turn].st # "none" /\ turns[row.turn].st \in {"none", "live", "parked"}
       /\ turns[row.turn].slow /\ turns'[row.turn].st # "ended" => turns'[row.turn].slow
       /\ row.tag = "ask" /\ ~turns[row.turn].wiped => Framed(row)

LEMMA RowsArrive ==
  ASSUME AttachInv, NEW row, Arrives(row), tail' = tail
  PROVE  /\ ToSet(rows') = ToSet(rows) \cup {row} /\ Known' = Known \cup {row}
         /\ Coming' = Coming \cup {row}
         /\ \A r \in Known : r.seq < row.seq
<1>1. /\ DOMAIN rows' = 1..Len(rows) + 1
      /\ DOMAIN rows = 1..Len(rows) /\ Len(rows) \in Nat
      /\ (\A i \in DOMAIN rows : rows'[i] = rows[i]) /\ rows'[Len(rows) + 1] = row
  BY AppendIs DEF Arrives, AttachInv, RowsAreNumbered
<1>2. ToSet(rows') = ToSet(rows) \cup {row}
  BY <1>1 DEF ToSet
<1>3. row.seq = next /\ tail.after < next /\ \A r \in Known : r.seq < next
  BY DEF Arrives, AttachInv, Shapes, KnownIsSound
<1> QED
  BY <1>2, <1>3 DEF Known, Coming

LEMMA ArrivalIsHeard ==
  ASSUME AttachInv, Patience, NEW row, Arrives(row), TurnHears(row), tail' = tail
  PROVE  Patience'
<1>1. /\ ToSet(rows') = ToSet(rows) \cup {row} /\ Known' = Known \cup {row}
      /\ Coming' = Coming \cup {row}
      /\ \A r \in Known : r.seq < row.seq
  BY RowsArrive
<1>2. /\ \A t \in Turns : turns'[t].wiped = turns[t].wiped /\ (turns'[t].st = "none" => turns[t].st = "none")
      /\ FeedGrows(row)
  BY FeedDoesGrow DEF Arrives, TurnsGoOn, AttachInv
<1>3. \A r \in Coming \cup ToSet(rows) : r.seq < row.seq /\ r.seq \in Nat
  BY <1>1 DEF AttachInv, KnownIsSound, Known, Coming, Row
<1>4. TurnsAreHeard'
  <2>1. \A t \in Turns : turns'[t].idle <= Hop
    BY DEF Patience, TurnsAreHeard, TurnHears
  <2>2. \A r \in Known' : r.turn \in Turns => turns'[r.turn].st # "none"
    BY <1>1, <1>2 DEF Patience, TurnsAreHeard, TurnHears
  <2>3. ASSUME NEW t \in Turns, turns'[t].st = "parked", ~turns'[t].wiped
        PROVE  \E q \in ToSet(rows') :
                 /\ q.tag = "ask" /\ q.turn = t /\ \E i \in DOMAIN feed'[t] : feed'[t][i] = q.seq
                 /\ \A r \in ToSet(rows') : r.tag = "resolved" /\ r.turn = t => r.seq < q.seq
    <3>1. CASE t = row.turn
      <4>1. row.tag = "ask" /\ Framed(row) /\ row \in ToSet(rows')
        BY <1>1, <1>2, <2>3, <3>1 DEF TurnHears
      <4>2. \A r \in ToSet(rows') : r.tag = "resolved" => r.seq < row.seq
        BY <1>1, <1>3, <4>1
      <4>3. feed' = [feed EXCEPT ![t] = Append(@, next)] /\ row.seq = next
        BY <3>1, <4>1 DEF Framed, Arrives
      <4>4. t \in 0..MaxTurns /\ feed[t] \in Seq(Nat) /\ next \in Nat
        BY TurnsAre DEF AttachInv, FeedIsOrdered, RowsAreNumbered
      <4>5. feed'[t] = Append(feed[t], next)
        BY <4>3, <4>4 DEF AttachInv, FeedIsOrdered
      <4>6. Len(feed[t]) + 1 \in DOMAIN feed'[t] /\ feed'[t][Len(feed[t]) + 1] = row.seq
        BY <4>3, <4>4, <4>5, AppendIs
      <4> QED
        BY <3>1, <4>1, <4>2, <4>6
    <3>2. CASE t # row.turn
      <4>1. turns[t].st = "parked" /\ ~turns[t].wiped
        BY <2>3, <3>2 DEF TurnHears
      <4>2. PICK q \in ToSet(rows) :
              /\ q.tag = "ask" /\ q.turn = t /\ \E i \in DOMAIN feed[t] : feed[t][i] = q.seq
              /\ \A r \in ToSet(rows) : r.tag = "resolved" /\ r.turn = t => r.seq < q.seq
        BY <4>1 DEF Patience, TurnsAreHeard
      <4>3. \E i \in DOMAIN feed'[t] : feed'[t][i] = q.seq
        <5>1. feed'[t] = feed[t]
          BY <1>2, <3>2, TurnsAre DEF FeedGrows
        <5> QED
          BY <4>2, <5>1
      <4> QED
        BY <1>1, <3>2, <4>2, <4>3
    <3> QED
      BY <3>1, <3>2
  <2> QED
    BY <2>1, <2>2, <2>3 DEF TurnsAreHeard
<1>5. TailIsAwake'
  BY DEF Patience, TailIsAwake
<1>6. TailIsPatient'
  <2> SUFFICES ASSUME tail.pc \in {"check", "sleep", "emit"}, tail.target \in Turns
               PROVE  /\ turns'[tail.target].st # "none"
                      /\ ~turns'[tail.target].wiped =>
                           /\ turns'[tail.target].st = "parked" => AskComes'
                           /\ /\ tail.pc = "sleep" /\ ~turns'[tail.target].slow
                              /\ turns'[tail.target].st \in {"live", "parked"}
                              => SleepIsShort'
    BY DEF TailIsPatient
  <2> DEFINE t == tail.target
  <2>1. turns[t].st # "none" /\ turns'[t].st # "none" /\ turns'[t].wiped = turns[t].wiped
    BY <1>2 DEF Patience, TailIsPatient
  <2>2. ASSUME ~turns'[t].wiped, turns'[t].st = "parked" PROVE AskComes'
    <3>1. CASE row.turn = t
      <4>1. row.tag = "ask"
        BY <2>2, <3>1 DEF TurnHears
      <4> QED
        BY <1>1, <1>3, <3>1, <4>1 DEF AskComes
    <3>2. CASE row.turn # t
      <4>1. AskComes
        BY <2>1, <2>2, <3>2 DEF TurnHears, Patience, TailIsPatient
      <4> QED
        BY <1>1, <3>2, <4>1 DEF AskComes
    <3> QED
      BY <3>1, <3>2
  <2>3. ASSUME ~turns'[t].wiped, tail.pc = "sleep", ~turns'[t].slow, turns'[t].st \in {"live", "parked"}
        PROVE  SleepIsShort'
    <3>1. turns[t].st \in {"live", "parked"} /\ ~turns[t].slow
      BY <2>1, <2>3 DEF TurnHears
    <3>2. SleepIsShort
      BY <2>1, <2>3, <3>1 DEF Patience, TailIsPatient
    <3>3. Coming' # {}
      BY <1>1
    <3> QED
      BY <3>2, <3>3 DEF SleepIsShort
  <2> QED
    BY <2>1, <2>2, <2>3
<1> QED
  BY <1>4, <1>5, <1>6 DEF Patience

LEMMA JournalIsHeard ==
  ASSUME AttachInv, Patience, NEW t \in Turns, NEW tag \in Tags, Journal(tag, t), TurnsGoOn, tail' = tail,
         tag = "user" => feed[t] = <<>>,
         \A s \in Turns : s # t => turns'[s] = turns[s],
         turns'[t].idle <= Hop, turns'[t].st = "parked" <=> tag = "ask",
         turns'[t].st # "none", turns[t].st \in {"none", "live", "parked"},
         turns[t].slow /\ turns'[t].st # "ended" => turns'[t].slow
  PROVE  Patience'
<1> DEFINE row == [seq |-> next, tag |-> tag, turn |-> t]
<1>1. Arrives(row)
  BY JournalArrives
<1>2. row.turn = t /\ row.tag = tag
  OBVIOUS
<1>3. tag = "ask" /\ ~turns[t].wiped => Framed(row)
  BY <1>2 DEF Journal, Framed, Frame
<1> HIDE DEF row
<1>4. TurnHears(row)
  BY <1>2, <1>3 DEF TurnHears
<1> QED
  BY <1>1, <1>4, ArrivalIsHeard

LEMMA OpenIsHeard == ASSUME AttachInv, Patience, NEW t \in Turns, Open(t), tail' = tail PROVE Patience'
<1> DEFINE new == [turns[t] EXCEPT !.st = "live"]
<1>1. turns[t] \in TurnState /\ turns \in [Turns -> TurnState] /\ turns[t].idle <= Hop
  BY DEF AttachInv, FeedIsOrdered, Patience, TurnsAreHeard
<1>2. new.st = "live" /\ new.idle = turns[t].idle /\ new.slow = turns[t].slow
  BY <1>1 DEF TurnState
<1>3. turns' = [turns EXCEPT ![t] = new] /\ turns[t].st = "none"
  BY DEF Open
<1> HIDE DEF new
<1>4. turns'[t] = new /\ \A s \in Turns : s # t => turns'[s] = turns[s]
  BY <1>1, <1>3
<1>5. TurnsGoOn /\ feed[t] = <<>> /\ Journal("user", t)
  BY OpenGoesOn DEF AttachInv
<1> QED
  BY <1>1, <1>2, <1>3, <1>4, <1>5, FrameTags, JournalIsHeard

LEMMA TouchIsHeard ==
  ASSUME AttachInv, Patience, NEW t \in Turns, NEW st \in {"live", "parked", "ended"},
         NEW tag \in Tags, Journal(tag, t), Touch(t, st), tail' = tail,
         st = "parked" <=> tag = "ask", tag # "user", turns[t].st \in {"live", "parked"}
  PROVE  Patience'
<1> DEFINE slow == turns[t].slow /\ st # "ended"
           new == [turns[t] EXCEPT !.st = st, !.idle = 0, !.slow = slow]
<1>1. turns[t] \in TurnState /\ turns \in [Turns -> TurnState] /\ 0 <= Hop
  BY AttachAssumption DEF AttachInv, FeedIsOrdered
<1>2. turns' = [turns EXCEPT ![t] = new]
  BY DEF Touch
<1>3. new.st = st /\ new.idle = 0 /\ (turns[t].slow /\ st # "ended" => new.slow)
  <2>1. new.slow = slow
    <3> HIDE DEF slow
    <3> QED
      BY <1>1 DEF TurnState
  <2>2. new.st = st /\ new.idle = 0
    <3> HIDE DEF slow
    <3> QED
      BY <1>1 DEF TurnState
  <2> QED
    BY <2>1, <2>2
<1> HIDE DEF new
<1>4. turns'[t] = new /\ \A s \in Turns : s # t => turns'[s] = turns[s]
  BY <1>1, <1>2
<1>5. TurnsGoOn
  BY TouchGoesOn DEF AttachInv
<1> QED
  BY <1>1, <1>3, <1>4, <1>5, JournalIsHeard

LEMMA TurnIsHeard ==
  ASSUME AttachInv, Patience, NEW t \in Turns, Emit(t) \/ End(t) \/ Resolve(t) PROVE Patience'
<1>1. CASE Emit(t)
  BY <1>1, FrameTags, TouchIsHeard DEF Emit, Frame
<1>2. CASE End(t)
  <2>1. PICK tag \in Terminal \cup {"ask"} :
          Journal(tag, t) /\ Touch(t, IF tag = "ask" THEN "parked" ELSE "ended")
    BY <1>2 DEF End
  <2>2. tag \in Tags /\ tag # "user" /\ (tag # "ask" => tag \in Terminal)
    BY FrameTags DEF Frame, Terminal
  <2>3. turns[t].st = "live" /\ tail' = tail
    BY <1>2 DEF End
  <2> DEFINE st == IF tag = "ask" THEN "parked" ELSE "ended"
  <2>4. st \in {"live", "parked", "ended"} /\ (st = "parked" <=> tag = "ask") /\ Touch(t, st)
    BY <2>1
  <2> HIDE DEF st
  <2> QED
    BY <2>1, <2>2, <2>3, <2>4, TouchIsHeard
<1>3. CASE Resolve(t)
  BY <1>3, FrameTags, TouchIsHeard DEF Resolve
<1> QED
  BY <1>1, <1>2, <1>3

LEMMA CloseIsHeard == ASSUME AttachInv, Patience, Close PROVE Patience'
<1> DEFINE row == [seq |-> next, tag |-> "closed", turn |-> 0]
<1>1. next \in Nat /\ 0 \in 0..MaxTurns /\ 0 \notin Turns
  BY TurnsAre DEF AttachInv, RowsAreNumbered
<1>2. row \in Row /\ row.seq = next /\ row.tag # "user" /\ row.turn = 0
  BY <1>1, FrameTags DEF Row
<1>3. rows' = Append(rows, row) /\ next' = next + 1 /\ UNCHANGED <<turns, feed, tail>>
  BY DEF Close
<1> HIDE DEF row
<1>4. Arrives(row)
  BY <1>2, <1>3, TurnsStay DEF Arrives, AttachInv
<1>5. TurnHears(row)
  BY <1>1, <1>2, <1>3 DEF TurnHears
<1> QED
  BY <1>3, <1>4, <1>5, ArrivalIsHeard

\* Nothing is journaled; a turn may be given up, be slow or be silent.
LEMMA SilenceIsHeard ==
  ASSUME AttachInv, Patience, UNCHANGED <<rows, feed>>, Known' \subseteq Known,
         \A t \in Turns : /\ turns'[t].idle <= Hop /\ turns'[t].wiped = turns[t].wiped
                          /\ turns'[t].st = "parked" => turns[t].st = "parked"
                          /\ turns'[t].st = "none" => turns[t].st = "none"
  PROVE  TurnsAreHeard'
<1>1. \A r \in Known' : r.turn \in Turns => turns'[r.turn].st # "none"
  BY DEF Patience, TurnsAreHeard
<1>2. \A t \in Turns : turns'[t].st = "parked" /\ ~turns'[t].wiped =>
       \E q \in ToSet(rows) :
         /\ q.tag = "ask" /\ q.turn = t /\ \E i \in DOMAIN feed[t] : feed[t][i] = q.seq
         /\ \A r \in ToSet(rows) : r.tag = "resolved" /\ r.turn = t => r.seq < q.seq
  BY DEF Patience, TurnsAreHeard
<1> QED
  BY <1>1, <1>2 DEF TurnsAreHeard

LEMMA FaultIsHeard == ASSUME AttachInv, Patience, NEW t \in Turns, Gone(t) \/ Slow(t) PROVE Patience'
<1> DEFINE gone == [turns[t] EXCEPT !.st = "gone"]
           slow == [turns[t] EXCEPT !.slow = TRUE]
<1>1. turns[t] \in TurnState /\ turns \in [Turns -> TurnState]
  BY DEF AttachInv, FeedIsOrdered
<1>2. /\ gone.st = "gone" /\ gone.idle = turns[t].idle /\ gone.wiped = turns[t].wiped
      /\ slow.st = turns[t].st /\ slow.idle = turns[t].idle /\ slow.wiped = turns[t].wiped /\ slow.slow
  BY <1>1 DEF TurnState
<1>3. turns' = [turns EXCEPT ![t] = gone] \/ turns' = [turns EXCEPT ![t] = slow]
  BY DEF Gone, Slow
<1>4. UNCHANGED <<rows, feed, tail>>
  BY DEF Gone, Slow
<1> HIDE DEF gone, slow
<1>5. /\ turns'[t] = gone \/ turns'[t] = slow
      /\ \A s \in Turns : s # t => turns'[s] = turns[s]
  BY <1>1, <1>3
<1>6. \A s \in Turns : turns[s].idle <= Hop
  BY DEF Patience, TurnsAreHeard
<1>7. \A s \in Turns : /\ turns'[s].idle <= Hop /\ turns'[s].wiped = turns[s].wiped
                       /\ turns'[s].idle = turns[s].idle
                       /\ turns'[s].st = "parked" => turns[s].st = "parked"
                       /\ turns'[s].st = "none" => turns[s].st = "none"
                       /\ turns'[s].st = "live" /\ ~turns'[s].slow => turns[s].st = "live" /\ ~turns[s].slow
                       /\ turns'[s].st = "parked" /\ ~turns'[s].slow => ~turns[s].slow
  BY <1>2, <1>5, <1>6
<1>8. Known' = Known /\ Coming' = Coming
  BY <1>4 DEF Known, Coming
<1>9. TurnsAreHeard'
  BY <1>4, <1>7, <1>8, SilenceIsHeard
<1>10. TailIsAwake'
  BY <1>4 DEF Patience, TailIsAwake
<1>11. (AskComes => AskComes')
  BY <1>4, <1>8 DEF AskComes
<1>12. tail.target \in Turns /\ SleepIsShort => SleepIsShort' \/ turns[tail.target].st # turns'[tail.target].st
  BY <1>4, <1>7, <1>8 DEF SleepIsShort
<1>13. TailIsPatient'
  <2>1. TailIsPatient
    BY DEF Patience
  <2>2. ASSUME tail.target \in Turns, turns'[tail.target].st \in {"live", "parked"}, ~turns'[tail.target].slow
        PROVE  turns[tail.target].st = turns'[tail.target].st /\ ~turns[tail.target].slow
    BY <1>7, <2>2
  <2> QED
    BY <1>4, <1>7, <1>11, <1>12, <2>1, <2>2 DEF TailIsPatient
<1> QED
  BY <1>9, <1>10, <1>13 DEF Patience

LEMMA WipeIsHeard == ASSUME AttachInv, Patience, Wipe PROVE Patience'
<1>1. rows' = <<>> /\ UNCHANGED <<feed, tail>>
  BY DEF Wipe
<1>2. turns' = [t \in Turns |-> IF turns[t].st = "none" THEN turns[t]
                                ELSE [turns[t] EXCEPT !.wiped = TRUE]]
  BY DEF Wipe
<1>3. ASSUME NEW t \in Turns
      PROVE  /\ turns'[t].st = turns[t].st /\ turns'[t].idle = turns[t].idle
             /\ turns[t].st # "none" => turns'[t].wiped
  <2>1. turns[t] \in TurnState
    BY DEF AttachInv, FeedIsOrdered
  <2>2. turns'[t] = IF turns[t].st = "none" THEN turns[t] ELSE [turns[t] EXCEPT !.wiped = TRUE]
    BY <1>2
  <2> QED
    BY <2>1, <2>2 DEF TurnState
<1>4. Known' \subseteq Known
  BY <1>1 DEF Known, ToSet
<1>5. TurnsAreHeard'
  <2>1. \A t \in Turns : turns'[t].idle <= Hop
    BY <1>3 DEF Patience, TurnsAreHeard
  <2>2. \A r \in Known' : r.turn \in Turns => turns'[r.turn].st # "none"
    BY <1>3, <1>4 DEF Patience, TurnsAreHeard
  <2>3. \A t \in Turns : ~(turns'[t].st = "parked" /\ ~turns'[t].wiped)
    BY <1>3
  <2> QED
    BY <2>1, <2>2, <2>3 DEF TurnsAreHeard
<1>6. TailIsAwake'
  BY <1>1 DEF Patience, TailIsAwake
<1>7. TailIsPatient'
  BY <1>1, <1>3 DEF Patience, TailIsPatient
<1> QED
  BY <1>5, <1>6, <1>7 DEF Patience

LEMMA TickIsHeard == ASSUME AttachInv, Patience, Tick PROVE Patience'
<1>1. /\ UNCHANGED <<rows, feed>>
      /\ tail.pc = "emit" \/ (tail.pc = "sleep" /\ tail.polled)
      /\ \A t \in Turns : turns[t].st = "live" => turns[t].slow \/ turns[t].idle < Hop
      /\ turns' = [t \in Turns |->
           IF turns[t].st = "live" /\ turns[t].idle < Hop
           THEN [turns[t] EXCEPT !.idle = turns[t].idle + 1] ELSE turns[t]]
  BY DEF Tick, Blocked
<1> DEFINE quiet == IF tail.quiet < Stale THEN tail.quiet + 1 ELSE tail.quiet
           age == IF tail.age < Cap THEN tail.age + 1 ELSE tail.age
<1>2. tail' = [tail EXCEPT !.polled = FALSE, !.quiet = quiet, !.age = age] /\ DOMAIN tail = TailFields
  BY DEF Tick, AttachInv, Shapes
<1>3. quiet \in Nat /\ quiet <= tail.quiet + 1 /\ tail.quiet \in Nat /\ Hop \in Nat
  BY AttachAssumption DEF Patience, TailIsAwake
<1> HIDE DEF quiet, age
<1>4. /\ tail'.polled = FALSE /\ tail'.quiet = quiet /\ tail'.pc = tail.pc /\ tail'.target = tail.target
      /\ tail'.pend = tail.pend /\ tail'.got = tail.got /\ tail'.batch = tail.batch
      /\ tail'.after = tail.after /\ tail'.acc = tail.acc
  BY <1>2 DEF TailFields, NoTail
<1>5. Known' = Known /\ Coming' = Coming
  BY <1>1, <1>4 DEF Known, Coming
<1>6. ASSUME NEW t \in Turns
      PROVE  /\ turns'[t].idle <= Hop /\ turns'[t].wiped = turns[t].wiped
             /\ turns'[t].st = turns[t].st /\ (turns'[t].slow <=> turns[t].slow)
             /\ turns[t].st = "live" /\ ~turns[t].slow => turns'[t].idle = turns[t].idle + 1
             /\ turns[t].idle \in Nat
  <2>1. turns[t] \in TurnState /\ turns[t].idle <= Hop
    BY DEF AttachInv, FeedIsOrdered, Patience, TurnsAreHeard
  <2>2. turns'[t] = IF turns[t].st = "live" /\ turns[t].idle < Hop
                    THEN [turns[t] EXCEPT !.idle = turns[t].idle + 1] ELSE turns[t]
    BY <1>1
  <2>3. turns[t].st = "live" => turns[t].slow \/ turns[t].idle < Hop
    BY <1>1
  <2>4. CASE turns[t].st = "live" /\ turns[t].idle < Hop
    BY <1>3, <2>1, <2>2, <2>4 DEF TurnState
  <2>5. CASE ~(turns[t].st = "live" /\ turns[t].idle < Hop)
    BY <2>1, <2>2, <2>3, <2>5 DEF TurnState
  <2> QED
    BY <2>4, <2>5
<1>7. TurnsAreHeard'
  BY <1>1, <1>5, <1>6, SilenceIsHeard
<1>8. TailIsAwake'
  BY <1>1, <1>3, <1>4 DEF Patience, TailIsAwake
<1>9. AskComes => AskComes'
  BY <1>4, <1>5 DEF AskComes
<1>10. ASSUME tail.target \in Turns, tail.pc = "sleep", SleepIsShort, ~turns[tail.target].slow
       PROVE  SleepIsShort'
  <2>1. tail.quiet <= Hop
    BY <1>1, <1>10 DEF SleepIsShort
  <2>2. quiet <= Hop + 1
    BY <1>3, <2>1
  <2>3. turns[tail.target].st = "live" /\ Coming = {} => quiet <= turns'[tail.target].idle
    BY <1>3, <1>6, <1>10 DEF SleepIsShort
  <2> QED
    BY <1>4, <1>5, <1>6, <1>10, <2>2, <2>3 DEF SleepIsShort
<1>11. TailIsPatient'
  BY <1>4, <1>6, <1>9, <1>10 DEF Patience, TailIsPatient
<1> QED
  BY <1>7, <1>8, <1>11 DEF Patience

LEMMA RestIsHeard ==
  ASSUME AttachInv, Patience, UNCHANGED <<rows, feed, turns>>, Known' \subseteq Known
  PROVE  TurnsAreHeard'
<1>1. \A t \in Turns : turns[t].idle <= Hop
  BY DEF Patience, TurnsAreHeard
<1> QED
  BY <1>1, SilenceIsHeard

LEMMA SettledRests ==
  ASSUME NEW t, DOMAIN t = TailFields, NEW why
  PROVE  /\ Settled(t, why).pc = "done" /\ Settled(t, why).why = why
         /\ Settled(t, why).target = t.target /\ Settled(t, why).quiet = t.quiet
         /\ Settled(t, why).got = t.got /\ Settled(t, why).pend = t.pend
         /\ Settled(t, why).polled = t.polled
  BY DEF Settled, TailFields, NoTail

LEMMA PageDoneRests ==
  ASSUME NEW t, DOMAIN t = TailFields
  PROVE  /\ PageDone(t).target = t.target /\ PageDone(t).polled = t.polled
         /\ PageDone(t).quiet = (IF t.got THEN 0 ELSE t.quiet)
         /\ PageDone(t).pend <=> t.pend
         /\ PageDone(t).got <=> t.got
         /\ PageDone(t).why \in {t.why, "stop", "still", "parked"}
         /\ PageDone(t).pc = "sleep" => ~t.pend
         /\ PageDone(t).pc = "check" => t.more
<1> DEFINE quiet == IF t.got THEN 0 ELSE t.quiet
           read == [t EXCEPT !.quiet = quiet]
           check == [read EXCEPT !.pc = "check"]
           sleep == [read EXCEPT !.pc = "sleep"]
<1>1. \/ PageDone(t) \in {Settled(read, "stop"), Settled(read, "still"), Settled(read, "parked")}
      \/ PageDone(t) = check /\ t.more
      \/ PageDone(t) = sleep /\ ~t.pend
  BY DEF PageDone
<1> HIDE DEF quiet
<1>2. /\ DOMAIN read = TailFields /\ read.target = t.target /\ read.polled = t.polled
      /\ read.quiet = quiet /\ read.pend = t.pend /\ read.got = t.got /\ read.why = t.why
  BY DEF TailFields, NoTail
<1> HIDE DEF read
<1>3. /\ check.target = read.target /\ check.polled = read.polled /\ check.quiet = read.quiet
      /\ check.pend = read.pend /\ check.got = read.got /\ check.why = read.why /\ check.pc = "check"
  BY <1>2 DEF TailFields, NoTail
<1>4. /\ sleep.target = read.target /\ sleep.polled = read.polled /\ sleep.quiet = read.quiet
      /\ sleep.pend = read.pend /\ sleep.got = read.got /\ sleep.why = read.why /\ sleep.pc = "sleep"
  BY <1>2 DEF TailFields, NoTail
<1> HIDE DEF check, sleep
<1>8. /\ \A why : (Settled(read, why).pend <=> read.pend) /\ (Settled(read, why).got <=> read.got)
      /\ (check.pend <=> read.pend) /\ (check.got <=> read.got)
      /\ (sleep.pend <=> read.pend) /\ (sleep.got <=> read.got)
      /\ (read.pend <=> t.pend) /\ (read.got <=> t.got)
  BY <1>2, <1>3, <1>4, SettledRests
<1>5. CASE PageDone(t) \in {Settled(read, "stop"), Settled(read, "still"), Settled(read, "parked")}
  BY <1>2, <1>5, SettledRests, <1>8 DEF quiet
<1>6. CASE PageDone(t) = check /\ t.more
  BY <1>2, <1>3, <1>6, <1>8 DEF quiet
<1>7. CASE PageDone(t) = sleep /\ ~t.pend
  BY <1>2, <1>4, <1>7, <1>8 DEF quiet
<1> QED
  BY <1>1, <1>5, <1>6, <1>7

LEMMA AnalyzeIsHeard == ASSUME AttachInv, Patience, Analyze PROVE Patience'
<1> DEFINE page == PageAfter(tail.scan)
           acc == tail.acc \cup ToSet(page)
           scan == Last(page).seq
           s == Target(acc)
           t == TurnAt(acc, s)
           open == InFlight(acc)
           after == IF s = 0 THEN 0 ELSE s - 1
<1>1. /\ DOMAIN tail = TailFields /\ tail.scan \in Nat /\ tail.pc = "analyze"
  BY DEF Analyze, AttachInv, Shapes
<1>2. ToSet(page) \subseteq ToSet(rows)
  BY <1>1, PageIsKnown DEF AttachInv
<1>3. UNCHANGED <<rows, feed, turns>>
  BY DEF Analyze
<1>4. \/ tail' = [tail EXCEPT !.acc = acc, !.scan = scan]
      \/ tail' = [NoTail EXCEPT !.pc = "check", !.target = t, !.open = open, !.after = after]
  BY DEF Analyze
<1> HIDE DEF page
<1>5. acc \subseteq Known
  BY <1>2 DEF Known
<1>6. \/ s = 0 /\ t = 0
      \/ /\ t \in Turns /\ s \in Nat \ {0}
         /\ \E r \in acc : r.turn = t
         /\ \A i \in DOMAIN feed[t] : s < feed[t][i]
  BY <1>5, TargetIs
<1> HIDE DEF scan, open, t
<1>7. CASE tail' = [tail EXCEPT !.acc = acc, !.scan = scan]
  <2> HIDE DEF acc
  <2>1. /\ tail'.acc = acc /\ tail'.batch = tail.batch /\ tail'.pc = tail.pc
        /\ tail'.target = tail.target /\ tail'.quiet = tail.quiet
    BY <1>1, <1>7 DEF TailFields, NoTail
  <2>2. Known' \subseteq Known
    BY <1>3, <1>5, <2>1 DEF Known
  <2>3. TurnsAreHeard'
    BY <1>3, <2>2, RestIsHeard
  <2> QED
    BY <1>1, <2>1, <2>3 DEF Patience, TailIsAwake, TailIsPatient
<1>8. CASE tail' = [NoTail EXCEPT !.pc = "check", !.target = t, !.open = open, !.after = after]
  <2> HIDE DEF acc, s
  <2>a. t = 0 \/ t \in Turns
    BY <1>6
  <2>b. 0 \in 0..MaxTurns /\ Turns \subseteq 0..MaxTurns
    BY TurnsAre
  <2>1. t \in 0..MaxTurns
    <3>1. CASE t = 0
      BY <2>b, <3>1
    <3>2. CASE t \in Turns
      BY <2>b, <3>2
    <3> QED
      BY <2>a, <3>1, <3>2
  <2>2. /\ tail'.acc = {} /\ tail'.batch = <<>> /\ tail'.pc = "check"
        /\ tail'.target = t /\ tail'.quiet = 0 /\ tail'.after = after
    <3> HIDE DEF after
    <3> QED
      BY <1>8 DEF TailFields, NoTail
  <2>3. Known' \subseteq Known
    BY <1>3, <2>2 DEF Known, ToSet
  <2>4. TurnsAreHeard'
    BY <1>3, <2>3, RestIsHeard
  <2>5. TailIsAwake'
    BY <2>1, <2>2 DEF TailIsAwake
  <2>6. ASSUME t \in Turns PROVE turns[t].st # "none"
    <3>1. t # 0
      BY <2>6, TurnsAre
    <3> QED
      BY <1>5, <1>6, <2>6, <3>1 DEF Patience, TurnsAreHeard
  <2>7. ASSUME t \in Turns, turns[t].st = "parked", ~turns[t].wiped PROVE AskComes'
    <3>1. t # 0
      BY <2>7, TurnsAre
    <3>2. PICK q \in ToSet(rows) :
            /\ q.tag = "ask" /\ q.turn = t /\ \E i \in DOMAIN feed[t] : feed[t][i] = q.seq
            /\ \A r \in ToSet(rows) : r.tag = "resolved" /\ r.turn = t => r.seq < q.seq
      BY <2>7 DEF Patience, TurnsAreHeard
    <3>3. q.seq \in Nat
      BY <3>2 DEF AttachInv, KnownIsSound, Known, Row
    <3>4. q.seq > after
      <4>1. s \in Nat \ {0} /\ s < q.seq
        BY <1>6, <3>1, <3>2
      <4> QED
        BY <3>3, <4>1
    <3>5. Coming' = {r \in ToSet(rows) : r.seq > after}
      BY <1>3, <2>2 DEF Coming, ToSet
    <3> QED
      BY <2>2, <3>2, <3>4, <3>5 DEF AskComes
  <2>8. TailIsPatient'
    BY <1>3, <2>2, <2>6, <2>7 DEF TailIsPatient
  <2> QED
    BY <2>4, <2>5, <2>8 DEF Patience
<1> QED
  BY <1>4, <1>7, <1>8

\* The rows beyond a cursor are those of the page and those beyond its last.
LEMMA PageSplits ==
  ASSUME RowsAreNumbered, NEW after \in Nat
  PROVE  LET page == PageAfter(after) IN
         /\ page = <<>> => Len(page) # PageLimit /\ \A r \in ToSet(rows) : ~(r.seq > after)
         /\ page # <<>> => \A r \in ToSet(rows) :
                             r.seq > after <=> r.seq > Last(page).seq \/ r \in ToSet(page)
<1> DEFINE page == PageAfter(after)
           L == Len(page)
           N == Len(rows)
<1>1. PICK k \in 0..N :
        /\ \A i \in DOMAIN rows : rows[i].seq > after <=> i > k
        /\ page \in Seq(Row) /\ L <= PageLimit
        /\ k + L <= N /\ (L < PageLimit => k + L = N)
        /\ \A i \in DOMAIN page : page[i] = rows[k + i]
  BY PageIs
<1> HIDE DEF page
<1>2. /\ DOMAIN page = 1..L /\ L \in Nat /\ PageLimit \in Nat \ {0}
      /\ DOMAIN rows = 1..N /\ N \in Nat /\ next \in Nat
      /\ \A i \in 1..N : rows[i].seq = next - N + i - 1
  BY <1>1, LenProperties, AttachAssumption DEF RowsAreNumbered
<1>3. ToSet(rows) = {rows[i] : i \in 1..N} /\ ToSet(page) = {page[i] : i \in 1..L}
  BY <1>2 DEF ToSet
<1>4. page = <<>> => L = 0
  OBVIOUS
<1>5. L = 0 => page = <<>>
  BY <1>1, EmptySeq
<1>6. Last(page) = page[L]
  BY DEF Last
<1> HIDE DEF L, N
<1>7. ASSUME L = 0 PROVE L # PageLimit /\ \A i \in 1..N : ~(rows[i].seq > after)
  <2>1. k = N /\ L # PageLimit
    BY <1>1, <1>2, <1>7
  <2>2. \A i \in 1..N : (rows[i].seq > after <=> i > N) /\ ~(i > N)
    BY <1>1, <1>2, <2>1
  <2> QED
    BY <2>1, <2>2
<1>8. ASSUME L # 0 PROVE \A i \in 1..N : rows[i].seq > after <=> rows[i].seq > page[L].seq \/ \E b \in 1..L : page[b] = rows[i]
  <2>1. L \in 1..L /\ k + L \in 1..N
    BY <1>1, <1>2, <1>8
  <2>2. page[L].seq = next - N + (k + L) - 1
    <3>1. page[L] = rows[k + L]
      BY <1>1, <1>2, <2>1
    <3> QED
      BY <1>2, <2>1, <3>1
  <2>3. k \in Int /\ next - N \in Int
    BY <1>1, <1>2
  <2>4. \A i \in 1..N : rows[i].seq > page[L].seq <=> i > k + L
    <3> DEFINE base == next - N
    <3>1. \A i \in 1..N : rows[i].seq = base + i - 1
      BY <1>2
    <3>2. page[L].seq = base + (k + L) - 1 /\ base \in Int
      BY <2>2, <2>3
    <3> HIDE DEF base
    <3> QED
      BY <1>2, <2>3, <3>1, <3>2
  <2> SUFFICES ASSUME NEW i \in 1..N
               PROVE  i > k <=> i > k + L \/ \E b \in 1..L : page[b] = rows[i]
    BY <1>1, <1>2, <2>4
  <2>5. ASSUME i > k, ~(i > k + L) PROVE \E b \in 1..L : page[b] = rows[i]
    <3>1. i - k \in 1..L /\ k + (i - k) = i
      BY <1>2, <2>3, <2>5
    <3>2. page[i - k] = rows[k + (i - k)]
      BY <1>1, <1>2, <3>1
    <3> QED
      BY <3>1, <3>2
  <2>6. ASSUME NEW b \in 1..L, page[b] = rows[i] PROVE i > k
    <3>1. k + b \in 1..N /\ k + b > k
      BY <1>1, <1>2, <2>3
    <3>2. page[b] = rows[k + b]
      BY <1>1, <1>2
    <3>3. rows[k + b].seq > after
      BY <1>1, <1>2, <3>1
    <3> QED
      BY <1>1, <1>2, <2>6, <3>2, <3>3
  <2>7. i > k + L => i > k
    BY <1>2, <2>3
  <2> QED
    BY <2>5, <2>6, <2>7
<1>9. L = 0 => L # PageLimit /\ \A r \in ToSet(rows) : ~(r.seq > after)
  BY <1>3, <1>7
<1>10. L # 0 => \A r \in ToSet(rows) : r.seq > after <=> r.seq > Last(page).seq \/ r \in ToSet(page)
  BY <1>3, <1>6, <1>8
<1> QED
  BY <1>4, <1>5, <1>9, <1>10 DEF page, L

LEMMA PollIsHeard == ASSUME AttachInv, Patience, Poll PROVE Patience'
<1> DEFINE page == PageAfter(tail.after)
           got == page # <<>>
           more == Len(page) = PageLimit
           after == IF page = <<>> THEN tail.after ELSE Last(page).seq
           read == [tail EXCEPT !.pc = "emit", !.batch = page, !.got = got, !.more = more,
                                !.polled = TRUE, !.after = after]
<1>1. /\ tail.pc \in {"check", "sleep"} /\ UNCHANGED <<rows, next, turns, client, feed>>
      /\ tail' \in {Settled(tail, "cap"), Settled(tail, "stale"),
                    IF page = <<>> THEN PageDone(read) ELSE read}
  BY DEF Poll
<1>2. /\ DOMAIN tail = TailFields /\ tail.batch = <<>> /\ tail.after \in Nat
  BY <1>1 DEF AttachInv, Shapes
<1>3. /\ page = <<>> => Len(page) # PageLimit /\ \A r \in ToSet(rows) : ~(r.seq > tail.after)
      /\ page # <<>> => \A r \in ToSet(rows) :
                          r.seq > tail.after <=> r.seq > Last(page).seq \/ r \in ToSet(page)
  BY <1>2, PageSplits DEF AttachInv
<1>5. ToSet(page) \subseteq ToSet(rows)
  BY <1>2, PageIsKnown DEF AttachInv
<1>6. Coming = {r \in ToSet(rows) : r.seq > tail.after}
  BY <1>2 DEF Coming, ToSet
<1> HIDE DEF page
<1>7. page = <<>> => ~more /\ Coming = {}
  BY <1>3, <1>6
<1> HIDE DEF got, more, after
<1>8. /\ DOMAIN read = TailFields /\ read.pc = "emit" /\ read.target = tail.target
      /\ read.after = after /\ read.batch = page /\ read.acc = tail.acc /\ read.got = got
      /\ read.more = more /\ read.polled = TRUE /\ read.quiet = tail.quiet /\ read.pend = tail.pend
  BY <1>2 DEF TailFields, NoTail
<1> HIDE DEF read
<1>9. CASE tail' \in {Settled(tail, "cap"), Settled(tail, "stale")}
  <2>1. /\ tail'.pc = "done" /\ tail'.target = tail.target /\ tail'.quiet = tail.quiet
        /\ tail'.batch = tail.batch /\ tail'.acc = tail.acc
    BY <1>2, <1>9, SettledIs, SettledRests
  <2>2. Known' \subseteq Known
    BY <1>1, <2>1 DEF Known
  <2>3. TurnsAreHeard'
    BY <1>1, <2>2, RestIsHeard
  <2> QED
    BY <2>1, <2>3 DEF Patience, TailIsAwake, TailIsPatient
<1>10. CASE page = <<>> /\ tail' = PageDone(read)
  <2>1. /\ ~read.got /\ ~read.more /\ after = tail.after
    BY <1>7, <1>8, <1>10 DEF got, after
  <2>2. /\ tail'.pc \in {"sleep", "done"} /\ tail'.target = tail.target /\ tail'.quiet = tail.quiet
        /\ tail'.batch = <<>> /\ tail'.acc = tail.acc /\ tail'.after = tail.after
        /\ tail'.pend <=> tail.pend
        /\ tail'.pc = "sleep" => ~tail'.pend
    <3>1. read.pend <=> tail.pend
      BY <1>8
    <3> QED
      BY <1>8, <1>10, <2>1, <3>1, PageDoneIs, PageDoneRests
  <2>3. Known' \subseteq Known /\ Coming' = Coming
    BY <1>1, <1>2, <2>2 DEF Known, Coming
  <2>4. TurnsAreHeard'
    BY <1>1, <2>3, RestIsHeard
  <2>5. TailIsAwake'
    BY <2>2 DEF Patience, TailIsAwake
  <2>6. ASSUME tail.target \in Turns, ~turns[tail.target].wiped, tail'.pc = "sleep"
        PROVE  /\ turns[tail.target].st = "parked" => AskComes'
               /\ /\ ~turns[tail.target].slow /\ turns[tail.target].st \in {"live", "parked"}
                  => SleepIsShort'
    <3>1. turns[tail.target].st = "parked" => AskComes
      BY <1>1, <2>6 DEF Patience, TailIsPatient
    <3>2. turns[tail.target].st = "parked" => FALSE
      BY <1>7, <1>10, <2>2, <2>6, <3>1 DEF AskComes
    <3>3. ASSUME ~turns[tail.target].slow, turns[tail.target].st = "live" PROVE SleepIsShort'
      <4>1. tail.quiet <= turns[tail.target].idle
        <5>1. CASE tail.pc = "check"
          BY <2>6, <5>1 DEF Patience, TailIsAwake, AttachInv, FeedIsOrdered, TurnState
        <5>2. CASE tail.pc = "sleep"
          BY <1>7, <1>10, <2>6, <3>3, <5>2 DEF Patience, TailIsPatient, SleepIsShort
        <5> QED
          BY <1>1, <5>1, <5>2
      <4>2. turns[tail.target].idle <= Hop /\ turns[tail.target].idle \in Nat /\ tail.quiet \in Nat /\ Hop \in Nat
        BY <2>6, AttachAssumption DEF Patience, TurnsAreHeard, TailIsAwake, AttachInv, FeedIsOrdered, TurnState
      <4>3. tail.quiet <= Hop /\ tail.quiet <= Hop + 1
        BY <4>1, <4>2
      <4> QED
        BY <1>1, <2>2, <4>1, <4>3 DEF SleepIsShort
    <3> QED
      BY <3>2, <3>3
  <2>7. TailIsPatient'
    BY <1>1, <2>2, <2>6 DEF Patience, TailIsPatient
  <2> QED
    BY <2>4, <2>5, <2>7 DEF Patience
<1>11. CASE page # <<>> /\ tail' = read
  <2>1. tail'.pc = "emit" /\ tail'.target = tail.target /\ tail'.got /\ tail'.quiet = tail.quiet
        /\ tail'.batch = page /\ tail'.after = after /\ tail'.acc = tail.acc /\ tail'.pend = tail.pend
    BY <1>8, <1>11 DEF got
  <2>2. Known' \subseteq Known
    BY <1>1, <1>5, <2>1 DEF Known
  <2>3. TurnsAreHeard'
    BY <1>1, <2>2, RestIsHeard
  <2>4. TailIsAwake'
    BY <2>1 DEF Patience, TailIsAwake
  <2>5. Coming' = Coming
    <3>6. Coming' = ToSet(page) \cup {r \in ToSet(rows) : r.seq > after}
      BY <1>1, <2>1 DEF Coming
    <3>7. \A r : r \in Coming' <=> r \in ToSet(rows) /\ r.seq > tail.after
      BY <1>3, <1>5, <1>11, <3>6 DEF after
    <3> QED
      BY <1>6, <3>7
  <2>6. AskComes => AskComes'
    BY <2>1, <2>5 DEF AskComes
  <2>7. TailIsPatient'
    BY <1>1, <2>1, <2>6 DEF Patience, TailIsPatient
  <2> QED
    BY <2>3, <2>4, <2>7 DEF Patience
<1> QED
  BY <1>1, <1>9, <1>10, <1>11

LEMMA EmitRowIsHeard == ASSUME AttachInv, Patience, EmitRow PROVE Patience'
<1> DEFINE row == Head(tail.batch)
           followed == row.turn = tail.target
           stops == row.tag = "closed" \/ (row.tag \in Terminal /\ followed)
           pend == \/ tail.pend /\ ~(row.tag = "resolved" /\ followed)
                   \/ row.tag = "ask" /\ followed
           batch == IF stops THEN <<>> ELSE Tail(tail.batch)
           emit == [tail EXCEPT !.pend = pend, !.stop = stops, !.batch = batch]
<1>1. tail.pc = "emit" /\ UNCHANGED <<rows, next, turns, feed>>
  BY DEF EmitRow
<1>2. tail' = IF emit.batch = <<>> THEN PageDone(emit) ELSE emit
  BY DEF EmitRow
<1>3. /\ DOMAIN tail = TailFields /\ tail.batch \in Seq(Row) /\ tail.batch # <<>> /\ tail.got
      /\ PageIsOrdered
  BY <1>1 DEF AttachInv, Shapes, Following, Patience, TailIsAwake
<1>4. \/ stops /\ batch = <<>>
      \/ ~stops /\ batch = Tail(tail.batch)
  OBVIOUS
<1>5. /\ row \in ToSet(tail.batch) /\ ToSet(tail.batch) = ToSet(Tail(tail.batch)) \cup {row}
      /\ \A r \in ToSet(Tail(tail.batch)) : row.seq < r.seq
      /\ row.seq <= tail.after
  <2> DEFINE b == tail.batch
             L == Len(b)
  <2>1. /\ b \in Seq(Row) /\ b # <<>> /\ row = Head(b)
    BY <1>3
  <2>2. /\ \A i \in DOMAIN b : b[i].seq <= tail.after
        /\ \A i, j \in DOMAIN b : i < j => b[i].seq < b[j].seq
    BY <1>3 DEF PageIsOrdered
  <2> HIDE DEF b
  <2>3. /\ row = b[1] /\ L \in Nat \ {0} /\ DOMAIN b = 1..L
        /\ Tail(b) \in Seq(Row) /\ Len(Tail(b)) = L - 1
        /\ \A i \in 1..L - 1 : Tail(b)[i] = b[i + 1]
    BY <2>1, HeadTailProperties, LenProperties, EmptySeq
  <2>4. DOMAIN Tail(b) = 1..L - 1
    BY <2>3, LenProperties
  <2> HIDE DEF L, row
  <2>5. 1 \in 1..L /\ \A i \in 1..L - 1 : i + 1 \in 1..L /\ 1 < i + 1
    BY <2>3
  <2>6. ToSet(b) = {b[i] : i \in 1..L} /\ ToSet(Tail(b)) = {b[i + 1] : i \in 1..L - 1}
    BY <2>3, <2>4 DEF ToSet
  <2>7. \A i \in 1..L : i = 1 \/ (i - 1 \in 1..L - 1 /\ (i - 1) + 1 = i)
    BY <2>3
  <2>8. ToSet(b) = ToSet(Tail(b)) \cup {row}
    <3>1. ASSUME NEW i \in 1..L PROVE b[i] \in ToSet(Tail(b)) \cup {row}
      <4>1. CASE i = 1
        BY <2>3, <4>1
      <4>2. CASE i # 1
        <5>1. i - 1 \in 1..L - 1 /\ (i - 1) + 1 = i
          BY <2>7, <4>2
        <5>2. b[(i - 1) + 1] \in ToSet(Tail(b))
          BY <2>6, <5>1
        <5> QED
          BY <5>1, <5>2
      <4> QED
        BY <4>1, <4>2
    <3>2. ToSet(Tail(b)) \subseteq ToSet(b) /\ row \in ToSet(b)
      BY <2>3, <2>5, <2>6
    <3> QED
      BY <2>6, <3>1, <3>2
  <2>9. \A r \in ToSet(Tail(b)) : row.seq < r.seq
    BY <2>2, <2>3, <2>5, <2>6
  <2>10. row.seq <= tail.after
    BY <2>2, <2>3, <2>5
  <2> QED
    BY <2>8, <2>9, <2>10 DEF b
<1> HIDE DEF batch
<1>6. /\ DOMAIN emit = TailFields /\ emit.pc = "emit" /\ emit.target = tail.target
      /\ emit.after = tail.after /\ emit.batch = batch /\ emit.acc = tail.acc /\ emit.got
      /\ emit.quiet = tail.quiet /\ emit.polled = tail.polled
  <2> HIDE DEF pend, stops
  <2> QED
    BY <1>1, <1>3 DEF TailFields, NoTail
<1>7. (emit.pend <=> pend) /\ (emit.stop <=> stops)
  <2>1. emit.pend = pend /\ emit.stop = stops
    <3> HIDE DEF pend, stops
    <3> QED
      BY <1>3 DEF TailFields, NoTail
  <2> HIDE DEF emit
  <2> QED
    BY <2>1
<1> HIDE DEF emit, stops
<1>8. /\ tail'.target = tail.target /\ tail'.after = tail.after /\ tail'.batch = batch
      /\ tail'.acc = tail.acc /\ tail'.got /\ tail'.quiet \in {tail.quiet, 0}
      /\ tail'.pend <=> pend
      /\ tail'.pc \in {"done", "check", "sleep", "emit"}
      /\ tail'.pc # "done" => batch = Tail(tail.batch)
      /\ tail'.pc \in {"check", "sleep"} => tail'.quiet = 0
      /\ tail'.pc = "sleep" => ~tail'.pend
  <2> HIDE DEF pend
  <2>1. CASE batch = <<>>
    <3>1. tail' = PageDone(emit)
      BY <1>2, <1>6, <2>1
    <3>2. stops => tail'.pc = "done"
      BY <1>6, <1>7, <3>1, PageDoneIs
    <3>3. /\ tail'.target = emit.target /\ tail'.quiet = 0
          /\ tail'.pend <=> emit.pend
          /\ tail'.got <=> emit.got
          /\ tail'.pc = "sleep" => ~emit.pend
      BY <1>6, <3>1, PageDoneRests
    <3>4. /\ tail'.after = emit.after /\ tail'.batch = batch /\ tail'.acc = emit.acc
          /\ tail'.pc \in {"done", "check", "sleep"}
      BY <1>6, <3>1, PageDoneIs
    <3>5. (tail'.pend <=> pend) /\ tail'.got /\ (tail'.pc = "sleep" => ~tail'.pend)
      BY <1>6, <1>7, <3>3
    <3> QED
      BY <1>4, <1>6, <3>2, <3>3, <3>4, <3>5
  <2>2. CASE batch # <<>>
    <3>1. tail' = emit
      BY <1>2, <1>6, <2>2
    <3> QED
      BY <1>4, <1>6, <1>7, <2>2, <3>1
  <2> QED
    BY <2>1, <2>2
<1>9. Known' \subseteq Known
  <2>1. ToSet(batch) \subseteq ToSet(tail.batch)
    <3>1. ToSet(<<>>) = {}
      BY DEF ToSet
    <3> QED
      BY <1>4, <1>5, <3>1
  <2> QED
    BY <1>1, <1>8, <2>1 DEF Known
<1>10. TurnsAreHeard'
  BY <1>1, <1>9, RestIsHeard
<1>11. TailIsAwake'
  BY <1>8 DEF Patience, TailIsAwake
<1>12. ASSUME batch = Tail(tail.batch), AskComes PROVE AskComes'
  <2>1. /\ Coming = Coming' \cup {row}
        /\ \A r \in Coming' : row.seq < r.seq
    <3>1. Coming' = ToSet(Tail(tail.batch)) \cup {r \in ToSet(rows) : r.seq > tail.after}
      BY <1>1, <1>8, <1>12 DEF Coming
    <3>2. row \in Row /\ \A r \in ToSet(rows) : r \in Row
      BY <1>5 DEF AttachInv, KnownIsSound, Known
    <3>3. \A r \in ToSet(rows) : r.seq > tail.after => row.seq < r.seq
      BY <1>5, <3>2 DEF Row, AttachInv, Shapes
    <3> QED
      BY <1>5, <3>1, <3>3 DEF Coming
  <2>2. \A r \in Coming : r.seq \in Nat
    BY DEF Coming, AttachInv, KnownIsSound, Known, Row
  <2> HIDE DEF row
  <2>3. CASE tail.pend /\ \A r \in Coming : ~(r.tag = "resolved" /\ r.turn = tail.target)
    <3>1. tail'.pend
      BY <1>8, <2>1, <2>3
    <3> QED
      BY <1>8, <2>1, <2>3, <3>1 DEF AskComes
  <2>4. ASSUME NEW q \in Coming, q.tag = "ask", q.turn = tail.target,
               \A r \in Coming : r.tag = "resolved" /\ r.turn = tail.target => r.seq < q.seq
        PROVE  AskComes'
    <3>1. CASE q = row
      <4>1. tail'.pend
        BY <1>8, <2>4, <3>1
      <4>2. \A r \in Coming' : ~(r.tag = "resolved" /\ r.turn = tail.target)
        <5> SUFFICES ASSUME NEW r \in Coming', r.tag = "resolved" /\ r.turn = tail.target PROVE FALSE
          OBVIOUS
        <5>1. r.seq < q.seq /\ q.seq < r.seq /\ r.seq \in Nat /\ q.seq \in Nat
          BY <2>1, <2>2, <2>4, <3>1
        <5> QED
          BY <5>1
      <4> QED
        BY <1>8, <4>1, <4>2 DEF AskComes
    <3>2. CASE q # row
      <4>1. q \in Coming'
        BY <2>1, <3>2
      <4> QED
        BY <1>8, <2>1, <2>4, <4>1 DEF AskComes
    <3> QED
      BY <3>1, <3>2
  <2> QED
    BY <1>12, <2>3, <2>4 DEF AskComes
<1>13. ASSUME tail.target \in Turns, tail'.pc = "sleep" PROVE SleepIsShort'
  <2>1. tail'.quiet = 0 /\ turns'[tail'.target].idle \in Nat /\ Hop \in Nat
    BY <1>1, <1>8, <1>13, AttachAssumption DEF AttachInv, FeedIsOrdered, TurnState
  <2> QED
    BY <2>1 DEF SleepIsShort
<1>14. TailIsPatient'
  <2> SUFFICES ASSUME tail'.pc \in {"check", "sleep", "emit"}, tail.target \in Turns
               PROVE  /\ turns[tail.target].st # "none"
                      /\ ~turns[tail.target].wiped =>
                           /\ turns[tail.target].st = "parked" => AskComes'
                           /\ tail'.pc = "sleep" => SleepIsShort'
    BY <1>1, <1>8 DEF TailIsPatient
  <2>1. /\ turns[tail.target].st # "none"
        /\ ~turns[tail.target].wiped /\ turns[tail.target].st = "parked" => AskComes
    BY <1>1 DEF Patience, TailIsPatient
  <2> QED
    BY <1>8, <1>12, <1>13, <2>1
<1> QED
  BY <1>10, <1>11, <1>14 DEF Patience

\* The client has no tail, or starts one.
LEMMA ClientIsHeard ==
  ASSUME AttachInv, Patience, UNCHANGED <<rows, feed, turns>>,
         tail' \in {tail, NoTail, [NoTail EXCEPT !.pc = "analyze"]}
  PROVE  Patience'
<1>1. CASE tail' = tail
  <2>1. Known' = Known /\ Coming' = Coming
    BY <1>1 DEF Known, Coming
  <2>2. TurnsAreHeard'
    BY <2>1, RestIsHeard
  <2>3. (AskComes => AskComes') /\ (SleepIsShort => SleepIsShort')
    BY <1>1, <2>1 DEF AskComes, SleepIsShort
  <2> QED
    BY <1>1, <2>2, <2>3 DEF Patience, TailIsAwake, TailIsPatient
<1>2. CASE tail' # tail
  <2>1. /\ tail'.pc \in {"none", "analyze"} /\ tail'.target = 0 /\ tail'.quiet = 0
        /\ tail'.batch = <<>> /\ tail'.acc = {}
    BY <1>2 DEF NoTail
  <2>2. Known' \subseteq Known
    BY <2>1 DEF Known, ToSet
  <2>3. TurnsAreHeard'
    BY <2>2, RestIsHeard
  <2> QED
    BY <2>1, <2>3, TurnsAre DEF Patience, TailIsAwake, TailIsPatient
<1> QED
  BY <1>1, <1>2

LEMMA PatienceKeeps == ASSUME AttachInv, Patience, [Next]_vars PROVE Patience'
<1>1. CASE UNCHANGED vars
  BY <1>1, ClientIsHeard DEF vars
<1>2. CASE OpenBeside
  BY <1>2, OpenIsHeard DEF OpenBeside
<1>3. CASE Reset \/ CloseEnds
  BY <1>3, WipeIsHeard DEF Reset, CloseEnds
<1>4. CASE Close
  BY <1>4, CloseIsHeard
<1>5. ASSUME NEW t \in Turns, TurnStep(t) \/ Resolve(t) \/ Gone(t) \/ Slow(t)
      PROVE  Patience'
  BY <1>5, TurnIsHeard, FaultIsHeard DEF TurnStep
<1>6. CASE TailStep
  BY <1>6, AnalyzeIsHeard, PollIsHeard, EmitRowIsHeard DEF TailStep
<1>7. CASE Tick
  BY <1>7, TickIsHeard
<1>8. CASE Post
  <2>1. tail' = tail
    BY <1>8 DEF Post
  <2>2. ASSUME NEW t \in Turns, Open(t) PROVE Patience'
    BY <2>1, <2>2, OpenIsHeard
  <2>3. CASE UNCHANGED <<rows, next, turns, feed>>
    BY <2>1, <2>3, ClientIsHeard
  <2> QED
    BY <1>8, <2>2, <2>3 DEF Post
<1>9. CASE Resume \/ ClientStep \/ Cut
  <2>1. UNCHANGED <<rows, feed, turns>>
    BY <1>9 DEF Resume, ClientStep, TakePost, PostEnds, Reconnect, SegmentEnds, Cut, Unheard
  <2>2. tail' \in {tail, NoTail, [NoTail EXCEPT !.pc = "analyze"]}
    BY <1>9 DEF Resume, ClientStep, TakePost, PostEnds, Reconnect, SegmentEnds, Cut
  <2> QED
    BY <2>1, <2>2, ClientIsHeard
<1> QED
  BY <1>1, <1>2, <1>3, <1>4, <1>5, <1>6, <1>7, <1>8, <1>9 DEF Next

LEMMA PatienceStarts == ASSUME Init PROVE Patience
<1>1. /\ rows = <<>> /\ tail = NoTail /\ turns = [t \in Turns |-> NoTurn]
  BY DEF Init
<1>2. NoTail.pc = "none" /\ NoTail.target = 0 /\ NoTail.quiet = 0 /\ NoTail.acc = {} /\ NoTail.batch = <<>>
  BY DEF NoTail
<1>3. NoTurn.st = "none" /\ NoTurn.idle = 0 /\ 0 <= Hop
  BY AttachAssumption DEF NoTurn
<1>4. \A t \in Turns : turns[t].st = "none" /\ turns[t].idle = 0
  BY <1>1, <1>3
<1>5. Known = {}
  BY <1>1, <1>2 DEF Known, ToSet
<1>6. TurnsAreHeard
  BY <1>3, <1>4, <1>5 DEF TurnsAreHeard
<1>7. TailIsAwake /\ TailIsPatient
  BY <1>1, <1>2, TurnsAre DEF TailIsAwake, TailIsPatient
<1> QED
  BY <1>6, <1>7 DEF Patience

\* Only a poll finds a turn stale, and none that is alive and merely silent.
LEMMA PollIsPatient ==
  ASSUME AttachInv, Patience, Poll, tail'.why = "stale", tail.why # "stale",
         tail.target \in Turns, turns[tail.target].st = "live", ~turns[tail.target].slow,
         ~turns[tail.target].wiped
  PROVE  FALSE
<1> DEFINE page == PageAfter(tail.after)
           got == page # <<>>
           more == Len(page) = PageLimit
           after == IF page = <<>> THEN tail.after ELSE Last(page).seq
           read == [tail EXCEPT !.pc = "emit", !.batch = page, !.got = got, !.more = more,
                                !.polled = TRUE, !.after = after]
<1>1. /\ tail.pc \in {"check", "sleep"}
      /\ \/ tail' = Settled(tail, "cap")
         \/ tail' = Settled(tail, "stale") /\ tail.quiet >= Stale
         \/ tail' = PageDone(read)
         \/ tail' = read
  BY DEF Poll
<1>2. DOMAIN tail = TailFields
  BY DEF AttachInv, Shapes
<1> HIDE DEF page, got, more, after
<1>3. DOMAIN read = TailFields /\ read.why = tail.why
  BY <1>2 DEF TailFields, NoTail
<1> HIDE DEF read
<1>4. tail.quiet >= Stale
  BY <1>1, <1>2, <1>3, SettledRests, PageDoneRests
<1>5. tail.quiet <= Hop + 1
  <2>1. CASE tail.pc = "check"
    BY <2>1, AttachAssumption DEF Patience, TailIsAwake
  <2>2. CASE tail.pc = "sleep"
    BY <2>2 DEF Patience, TailIsPatient, SleepIsShort
  <2> QED
    BY <1>1, <2>1, <2>2
<1> QED
  BY <1>4, <1>5, AttachAssumption DEF Patience, TailIsAwake

LEMMA OnlyPollsTire ==
  ASSUME AttachInv, Next, ~Poll, tail'.why = "stale", tail.why # "stale"
  PROVE  FALSE
<1>1. DOMAIN tail = TailFields
  BY DEF AttachInv, Shapes
<1>2. tail' # tail
  OBVIOUS
<1>3. Analyze \/ EmitRow \/ Tick \/ Reconnect \/ SegmentEnds \/ Cut
  <2>1. ~(OpenBeside \/ Reset \/ Close \/ CloseEnds \/ Post \/ Resume \/ TakePost \/ PostEnds)
    BY <1>2 DEF OpenBeside, Reset, Close, CloseEnds, Wipe, Post, Resume, TakePost, PostEnds
  <2>2. \A t \in Turns : ~(TurnStep(t) \/ Resolve(t) \/ Gone(t) \/ Slow(t))
    BY <1>2 DEF TurnStep, Emit, End, Resolve, Gone, Slow
  <2> QED
    BY <2>1, <2>2 DEF Next, TailStep, ClientStep
<1>4. CASE Analyze
  <2> DEFINE acc == tail.acc \cup ToSet(PageAfter(tail.scan))
             scan == Last(PageAfter(tail.scan)).seq
             target == TurnAt(acc, Target(acc))
             open == InFlight(acc)
             after == IF Target(acc) = 0 THEN 0 ELSE Target(acc) - 1
  <2>1. \/ tail' = [tail EXCEPT !.acc = acc, !.scan = scan]
        \/ tail' = [NoTail EXCEPT !.pc = "check", !.target = target, !.open = open, !.after = after]
    BY <1>4 DEF Analyze
  <2> HIDE DEF acc, scan, target, open, after
  <2>2. tail'.why \in {tail.why, "none"}
    BY <1>1, <2>1 DEF TailFields, NoTail
  <2> QED
    BY <2>2
<1>5. CASE EmitRow
  <2> DEFINE row == Head(tail.batch)
             followed == row.turn = tail.target
             stops == row.tag = "closed" \/ (row.tag \in Terminal /\ followed)
             pend == \/ tail.pend /\ ~(row.tag = "resolved" /\ followed)
                     \/ row.tag = "ask" /\ followed
             batch == IF stops THEN <<>> ELSE Tail(tail.batch)
             emit == [tail EXCEPT !.pend = pend, !.stop = stops, !.batch = batch]
  <2>1. tail' = IF emit.batch = <<>> THEN PageDone(emit) ELSE emit
    BY <1>5 DEF EmitRow
  <2> HIDE DEF pend, stops, batch
  <2>2. DOMAIN emit = TailFields /\ emit.why = tail.why
    BY <1>1 DEF TailFields, NoTail
  <2> HIDE DEF emit
  <2> QED
    BY <2>1, <2>2, PageDoneRests
<1>6. CASE Tick
  <2> DEFINE quiet == IF tail.quiet < Stale THEN tail.quiet + 1 ELSE tail.quiet
             age == IF tail.age < Cap THEN tail.age + 1 ELSE tail.age
  <2>1. tail' = [tail EXCEPT !.polled = FALSE, !.quiet = quiet, !.age = age]
    BY <1>6 DEF Tick
  <2> HIDE DEF quiet, age
  <2> QED
    BY <1>1, <2>1 DEF TailFields, NoTail
<1>7. CASE Reconnect \/ SegmentEnds \/ Cut
  <2>1. tail' \in {tail, NoTail, [NoTail EXCEPT !.pc = "analyze"]}
    BY <1>7 DEF Reconnect, SegmentEnds, Cut
  <2>2. tail'.why \in {tail.why, "none"}
    BY <2>1 DEF NoTail
  <2> QED
    BY <2>2
<1> QED
  BY <1>3, <1>4, <1>5, <1>6, <1>7

\* HealthyTurnIsNotStale: while a turn is alive, in the journal and without a
\* slow tool call, no tail that follows it gives it up as stale, however long
\* the reader blocks the tail and whatever else is journaled (AttachStream.ts
\* STALENESS_CUTOFF_MILLIS, runTail).
THEOREM HealthyTurnsAreFollowed == Spec => HealthyTurnIsNotStale
<1>1. Init => AttachInv /\ Patience
  BY AttachStarts, PatienceStarts
<1>2. AttachInv /\ Patience /\ [Next]_vars => AttachInv' /\ Patience'
  BY NextKeeps, PatienceKeeps
<1>3. AttachInv /\ Patience /\ [Next]_vars =>
        [(tail'.why = "stale" /\ tail.why # "stale") =>
           ~\E t \in Turns : /\ t = tail.target /\ turns[t].st = "live"
                             /\ ~turns[t].slow /\ ~turns[t].wiped]_vars
  BY PollIsPatient, OnlyPollsTire
<1> QED
  BY <1>1, <1>2, <1>3, PTL DEF Spec, HealthyTurnIsNotStale
=============================================================================
