---------------------------- MODULE HistoryProofs ----------------------------
(***************************************************************************)
(* That a message of a session's conversation reaches the model once, word *)
(* for word or through the summary, and that the last turns always reach   *)
(* it word for word, for every number of requests, texts, resets and rows  *)
(* to a page.                                                              *)
(***************************************************************************)
EXTENDS History, TLAPS, FiniteSetTheorems, WellFoundedInduction

Ids == (Prompts \cup {"legacy"}) \X Int

Plans == [through : Int, covers : SUBSET Ids]

Rows == [seq : Nat \ {0}, tag : {"user", "text", "compaction"}, turn : Nat,
         id : Ids, plan : Plans, life : Nat, late : BOOLEAN]

Threads == [pc : {"none", "open", "scan", "summarise", "live"}, key : Nat,
            life : Nat, texts : Nat, read : SUBSET Rows, plan : Plans]

Types ==
  /\ rows \subseteq Rows /\ IsFiniteSet(rows)
  /\ next \in Nat \ {0} /\ wipes \in Nat
  /\ turns \in [Prompts -> Threads]
  /\ \A p \in Prompts : IsFiniteSet(turns[p].read)

-----------------------------------------------------------------------------
(* The names of messages.                                                    *)

\* The message is of the old session, or of a turn that is open.
Named(id) ==
  IF id[1] = "legacy" THEN id[2] \in 1..Len(Legacy)
  ELSE turns[id[1]].pc = "live" /\ id[2] \in 0..turns[id[1]].texts

\* The turn and the life a message's name stands for.
KeyOf(id) == IF id[1] = "legacy" THEN TurnOf(id[2]) ELSE turns[id[1]].key
LifeOf(id) == IF id[1] = "legacy" THEN 0 ELSE turns[id[1]].life

\* What a row says of itself.
Proper(row) ==
  /\ row.seq < next /\ row.turn <= row.seq
  /\ row.tag = "user" => row.turn = row.seq
  /\ IsMessage(row) =>
       /\ Named(row.id) /\ row.turn = KeyOf(row.id) /\ row.life = LifeOf(row.id)
  /\ IF row.tag = "compaction" THEN row.plan.through < row.seq ELSE row.plan = NoPlan

\* The rows of the journal and those some handler has read.
Seen == rows \cup UNION {turns[p].read : p \in Prompts}

RowsAreProper ==
  /\ \A row \in Seen : Proper(row)
  /\ \A row, other \in rows : row.seq = other.seq => row = other

-----------------------------------------------------------------------------
(* Turns and their user rows.                                                *)

TurnsAreProper ==
  \A p \in Prompts :
    /\ turns[p].pc = "live" => turns[p].key \in 1..(next - 1) /\ turns[p].life <= wipes
    /\ turns[p].pc # "scan" => turns[p].read = {}
    /\ turns[p].pc # "summarise" => turns[p].plan = NoPlan

Opened(key) == \E row \in rows : row.tag = "user" /\ row.seq = key

\* A turn of this life has its user row in the journal; a turn numbered 0 is
\* the greeting an old session starts with.
TurnsAreOpened ==
  /\ \A p \in Prompts :
       turns[p].pc = "live" /\ turns[p].life = wipes => Opened(turns[p].key)
  /\ wipes = 0 => Seeded \subseteq rows

\* What a handler has read is an initial part of the journal, after rows that
\* are gone.
ReadsAreInitial ==
  \A p \in Prompts : \A seen \in turns[p].read :
    /\ seen \in rows \/ \A row \in rows : seen.seq < row.seq
    /\ \A row \in rows : row.seq <= seen.seq => row \in turns[p].read

-----------------------------------------------------------------------------
(* The plans.                                                                *)

PlansSeen == {row.plan : row \in Seen} \cup {turns[p].plan : p \in Prompts} \cup {NoPlan}

\* A summary covers the messages of the turns up to its watermark.
Sound(plan) ==
  NoStragglers =>
    \A row \in Messages(rows) :
      ~row.late => (row.turn <= plan.through <=> row.id \in plan.covers)

UsersAfter(key) == {row \in rows : row.tag = "user" /\ row.turn > key}

\* As many turns as are kept begin after the watermark, or every turn does.
Kept(plan) ==
  NoStragglers =>
    \/ \A row \in rows : row.tag = "user" => row.turn > plan.through
    \/ Cardinality(UsersAfter(plan.through)) >= Keep

PlansAreKept ==
  \A plan \in PlansSeen :
    /\ plan.through < next
    /\ \A id \in plan.covers : Named(id)
    /\ Sound(plan)
    /\ Kept(plan)

HistoryInv ==
  /\ Types
  /\ RowsAreProper
  /\ TurnsAreProper
  /\ TurnsAreOpened
  /\ ReadsAreInitial
  /\ PlansAreKept

-----------------------------------------------------------------------------
(* Sets of numbers, rows.                                                    *)

\* A set of numbers below a bound has a largest one.
LEMMA Largest ==
  ASSUME NEW n \in Nat, NEW S, S \subseteq 0..n, S # {}
  PROVE  \E m \in S : \A i \in S : i <= m
<1>. DEFINE Gaps == {n - i : i \in S}
           Less == OpToRel(<, Nat)
<1>1. Gaps \subseteq Nat /\ Gaps # {}
  <2>1. \A i \in S : n - i \in Nat
    OBVIOUS
  <2>. QED
    BY <2>1
<1>2. \A i, j \in Nat : i < j => <<i, j>> \in Less
  BY Zenon DEF OpToRel
<1>3. PICK g \in Gaps : \A h \in Gaps : ~(<<h, g>> \in Less)
  <2>. HIDE DEF Gaps, Less
  <2>1. IsWellFoundedOn(Less, Nat)
    BY NatLessThanWellFounded, Zenon DEF Less
  <2>. QED
    BY <1>1, <2>1, WFMin
<1>4. PICK m \in S : g = n - m
  BY <1>3
<1>5. ASSUME NEW i \in S PROVE i <= m
  <2>1. n - i \in Gaps /\ n - i \in Nat /\ g \in Nat
    BY <1>1, <1>3
  <2>2. ~(n - i < g)
    <3>. HIDE DEF Gaps, Less
    <3>. QED
      BY <1>2, <1>3, <2>1
  <2>. QED
    BY <1>4, <2>2
<1>. QED
  BY <1>5

\* Min of a set of numbers is its smallest.
LEMMA MinIs ==
  ASSUME NEW S, S \subseteq Nat, S # {}
  PROVE  Min(S) \in S /\ \A i \in S : Min(S) <= i
<1>. DEFINE Less == OpToRel(<, Nat)
<1>1. \A i, j \in Nat : i < j => <<i, j>> \in Less
  BY Zenon DEF OpToRel
<1>2. PICK m \in S : \A i \in S : ~(<<i, m>> \in Less)
  <2>. HIDE DEF Less
  <2>1. IsWellFoundedOn(Less, Nat)
    BY NatLessThanWellFounded, Zenon DEF Less
  <2>. QED
    BY <2>1, WFMin
<1>3. ASSUME NEW i \in S PROVE m <= i
  <2>1. i \in Nat /\ m \in Nat
    OBVIOUS
  <2>2. ~(i < m)
    <3>. HIDE DEF Less
    <3>. QED
      BY <1>1, <1>2, <2>1
  <2>. QED
    BY <2>1, <2>2
<1>. QED
  BY <1>3 DEF Min

\* Max of a bounded set of numbers is its largest.
LEMMA MaxIs ==
  ASSUME NEW n \in Nat, NEW S, S \subseteq 0..n, S # {}
  PROVE  Max(S) \in S /\ \A i \in S : i <= Max(S)
<1>1. PICK m \in S : \A i \in S : i <= m
  BY Largest
<1>. QED
  BY <1>1 DEF Max

\* The number of a message of the old session is the row it answers.
LEMMA TurnOfIs ==
  ASSUME NEW i \in 1..Len(Legacy)
  PROVE  /\ TurnOf(i) \in 0..i
         /\ Legacy[i] = "user" => TurnOf(i) = i
         /\ TurnOf(i) # 0 => Legacy[TurnOf(i)] = "user"
         /\ TurnOf(i) = 0 => Legacy[1] # "user"
<1>. DEFINE users == {j \in 1..i : Legacy[j] = "user"}
<1>1. {0} \cup users \subseteq 0..i /\ i \in Nat /\ {0} \cup users # {}
  BY HistoryAssumption
<1>2. TurnOf(i) \in {0} \cup users /\ \A j \in {0} \cup users : j <= TurnOf(i)
  <2>. HIDE DEF users
  <2>1. Max({0} \cup users) \in {0} \cup users
        /\ \A j \in {0} \cup users : j <= Max({0} \cup users)
    BY <1>1, MaxIs
  <2>. QED
    BY <2>1 DEF TurnOf, users
<1>3. 1 \in 1..i /\ i \in 1..i
  BY HistoryAssumption
<1>. QED
  BY <1>1, <1>2, <1>3

LEMMA PlansAre == NoPlan \in Plans /\ NoPlan.through = -1 /\ NoPlan.covers = {}
  BY DEF NoPlan, Plans

LEMMA IdsAre ==
  /\ \A p \in Prompts : \A k \in Int : <<p, k>> \in Ids /\ p # "legacy"
  /\ \A k \in Int : <<"legacy", k>> \in Ids
  BY HistoryAssumption DEF Ids

\* The fields of a row as it is made.
LEMMA RowIs ==
  ASSUME NEW seq \in Nat \ {0}, NEW tag \in {"user", "text", "compaction"},
         NEW turn \in Nat, NEW id \in Ids
  PROVE  LET row == Row(seq, tag, turn, id)
         IN  /\ row \in Rows
             /\ row.seq = seq /\ row.tag = tag /\ row.turn = turn /\ row.id = id
             /\ row.plan = NoPlan /\ row.life = 0 /\ row.late = FALSE
  BY PlansAre DEF Row, Rows

\* The row the migration makes of an old message.
LEMMA SeedIs ==
  ASSUME NEW i \in 1..Len(Legacy)
  PROVE  LET row == Row(i, Legacy[i], TurnOf(i), <<"legacy", i>>)
         IN  /\ row \in Rows
             /\ row.seq = i /\ row.tag = Legacy[i] /\ row.turn = TurnOf(i)
             /\ row.id = <<"legacy", i>> /\ row.plan = NoPlan /\ row.life = 0
             /\ row.late = FALSE
<1>. DEFINE turn == TurnOf(i)
           tag == Legacy[i]
           id == <<"legacy", i>>
<1>1. i \in Nat \ {0} /\ turn \in Nat /\ tag \in {"user", "text", "compaction"} /\ id \in Ids
  <2>1. i \in Nat \ {0} /\ turn \in Nat
    BY TurnOfIs, HistoryAssumption
  <2>2. tag \in {"user", "text", "compaction"}
    BY HistoryAssumption
  <2>. QED
    BY <2>1, <2>2, IdsAre
<1>. HIDE DEF turn, tag, id
<1>2. LET row == Row(i, tag, turn, id)
      IN  /\ row \in Rows
          /\ row.seq = i /\ row.tag = tag /\ row.turn = turn /\ row.id = id
          /\ row.plan = NoPlan /\ row.life = 0 /\ row.late = FALSE
  BY <1>1, PlansAre DEF Row, Rows
<1>. QED
  BY <1>2 DEF turn, tag, id

\* A row has the fields of its table.
LEMMA RowHas ==
  ASSUME NEW row \in Rows
  PROVE  /\ row.seq \in Nat /\ row.seq > 0 /\ row.turn \in Nat /\ row.plan \in Plans
         /\ row.tag \in {"user", "text", "compaction"} /\ row.id \in Ids
         /\ row.life \in Nat /\ row.late \in BOOLEAN
         /\ row.plan.through \in Int /\ row.plan.covers \subseteq Ids
  BY DEF Rows, Plans

\* A bounded set of rows that is not empty has a last one.
LEMMA LastRow ==
  ASSUME NEW n \in Nat, NEW rs, rs \subseteq Rows, rs # {}, \A row \in rs : row.seq <= n
  PROVE  \E row \in rs : \A other \in rs : other.seq <= row.seq
<1>. DEFINE S == {row.seq : row \in rs}
<1>1. S \subseteq 0..n /\ S # {}
  BY RowHas
<1>2. PICK m \in S : \A i \in S : i <= m
  <2>. HIDE DEF S
  <2>. QED
    BY <1>1, Largest
<1>3. PICK row \in rs : row.seq = m
  OBVIOUS
<1>4. \A other \in rs : other.seq \in S
  OBVIOUS
<1>. QED
  BY <1>2, <1>3, <1>4

\* And a first one.
LEMMA FirstRow ==
  ASSUME NEW rs, rs \subseteq Rows, rs # {}
  PROVE  \E row \in rs : \A other \in rs : row.seq <= other.seq
<1>. DEFINE S == {row.seq : row \in rs}
<1>1. S \subseteq Nat /\ S # {}
  BY RowHas
<1>2. Min(S) \in S /\ \A i \in S : Min(S) <= i
  <2>. HIDE DEF S
  <2>. QED
    BY <1>1, MinIs
<1>3. PICK row \in rs : row.seq = Min(S)
  BY <1>2
<1>4. \A other \in rs : other.seq \in S
  OBVIOUS
<1>. QED
  BY <1>2, <1>3, <1>4

\* The last compaction among some rows, if there is one.
LEMMA LatestIs ==
  ASSUME NEW n \in Nat, NEW rs, rs \subseteq Rows, \A row \in rs : row.seq <= n
  PROVE  /\ Latest(rs) \in {NoPlan} \cup {row.plan : row \in rs}
         /\ Latest(rs) \in Plans
<1>. DEFINE comps == {row \in rs : row.tag = "compaction"}
<1>1. CASE comps = {}
  BY <1>1, PlansAre DEF Latest
<1>2. CASE comps # {}
  <2>. DEFINE last == CHOOSE row \in comps : \A other \in comps : other.seq <= row.seq
  <2>1. last \in comps
    <3>1. \E row \in comps : \A other \in comps : other.seq <= row.seq
      <4>1. comps \subseteq Rows /\ \A row \in comps : row.seq <= n
        OBVIOUS
      <4>. HIDE DEF comps
      <4>. QED
        BY <1>2, <4>1, LastRow
    <3>. HIDE DEF comps
    <3>. QED
      BY <3>1
  <2>2. Latest(rs) = last.plan
    BY <1>2 DEF Latest
  <2>3. last \in rs
    BY <2>1
  <2>. HIDE DEF last, comps
  <2>4. last \in Rows
    BY <2>3
  <2>. QED
    BY <2>2, <2>3, <2>4, RowHas
<1>. QED
  BY <1>1, <1>2

\* The place of a turn is the number of its first message.
LEMMA FirstIs ==
  ASSUME NEW rs, rs \subseteq Rows, NEW message, message \in Messages(rs)
  PROVE  LET key == message.turn
         IN  /\ First(rs, key) \in Nat
             /\ \E row \in Messages(rs) : row.turn = key /\ row.seq = First(rs, key)
             /\ \A row \in Messages(rs) : row.turn = key => First(rs, key) <= row.seq
<1>. DEFINE mine == {row \in Messages(rs) : row.turn = message.turn}
           S == {row.seq : row \in mine}
<1>1. mine \subseteq Rows /\ message \in mine
  BY DEF Messages
<1>2. S \subseteq Nat /\ S # {}
  <2>. HIDE DEF mine
  <2>. QED
    BY <1>1, RowHas
<1>3. First(rs, message.turn) = Min(S)
  BY DEF First
<1>4. Min(S) \in S /\ \A i \in S : Min(S) <= i
  <2>. HIDE DEF S
  <2>. QED
    BY <1>2, MinIs
<1>5. Min(S) \in Nat
  BY <1>2, <1>4
<1>6. PICK row \in mine : row.seq = Min(S)
  BY <1>4
<1>7. \A other \in mine : Min(S) <= other.seq
  BY <1>4
<1>. HIDE DEF S
<1>. QED
  BY <1>3, <1>5, <1>6, <1>7

\* Two rows with the same message have the same turn.
LEMMA MessagesAre ==
  ASSUME NEW rs, rs \subseteq Rows, \A row \in rs : Proper(row),
         NEW row, row \in Messages(rs), NEW keys
  PROVE  row.id \in MessagesOf(rs, keys) <=> row.turn \in keys
<1>1. ASSUME NEW other, other \in Messages(rs), other.id = row.id PROVE other.turn = row.turn
  BY <1>1 DEF Messages, Proper
<1>. QED
  BY <1>1 DEF MessagesOf

-----------------------------------------------------------------------------
(* The order of turns.                                                       *)

\* What a row of the journal or of a page says of itself.
LEMMA SeenIs ==
  ASSUME Types, RowsAreProper, NEW row, row \in Seen
  PROVE  row \in Rows /\ Proper(row)
<1>1. row \in Rows
  <2>1. CASE row \in rows
    BY <2>1 DEF Types
  <2>2. ASSUME NEW p \in Prompts, row \in turns[p].read PROVE row \in Rows
    BY <2>2 DEF Types, Threads
  <2>. QED
    BY <2>1, <2>2 DEF Seen
<1>. QED
  BY <1>1 DEF RowsAreProper

\* A turn of the conversation begins with its user row; turn 0, with row 1.
LEMMA OpenedIs ==
  ASSUME HistoryInv, NoStragglers, NEW message, message \in Messages(rows)
  PROVE  /\ message.turn # 0 =>
              \E row \in Messages(rows) :
                row.tag = "user" /\ row.seq = message.turn /\ row.turn = message.turn
         /\ message.turn = 0 => \E row \in Messages(rows) : row.seq = 1 /\ row.turn = 0
<1>1. /\ message \in rows /\ message \in Rows /\ Proper(message) /\ IsMessage(message)
      /\ message.life = wipes
  BY SeenIs DEF HistoryInv, Seen, Messages, NoStragglers
<1>2. /\ Named(message.id) /\ message.turn = KeyOf(message.id) /\ message.life = LifeOf(message.id)
  BY <1>1 DEF Proper
<1>3. CASE message.id[1] = "legacy"
  <2>. DEFINE i == message.id[2]
  <2>1. i \in 1..Len(Legacy) /\ message.turn = TurnOf(i) /\ wipes = 0
    BY <1>1, <1>2, <1>3 DEF Named, KeyOf, LifeOf
  <2>2. Seeded \subseteq rows
    BY <2>1 DEF HistoryInv, TurnsAreOpened
  <2>. HIDE DEF i
  <2>3. ASSUME NEW j \in 1..Len(Legacy)
        PROVE  \E row \in Messages(rows) :
                 row.seq = j /\ row.tag = Legacy[j] /\ row.turn = TurnOf(j)
    <3>. DEFINE row == Row(j, Legacy[j], TurnOf(j), <<"legacy", j>>)
    <3>1. j \in Nat \ {0} /\ Legacy[j] \in {"user", "text"} /\ TurnOf(j) \in Nat /\ j \in DOMAIN Legacy
      BY TurnOfIs, HistoryAssumption
    <3>2. row \in rows
      BY <2>2, <3>1 DEF Seeded
    <3>3. row.seq = j /\ row.tag = Legacy[j] /\ row.turn = TurnOf(j)
      BY SeedIs
    <3>. HIDE DEF row
    <3>4. row \in Messages(rows)
      BY <3>1, <3>2, <3>3 DEF Messages, IsMessage
    <3>. QED
      BY <3>3, <3>4
  <2>4. CASE TurnOf(i) # 0
    <3>. DEFINE j == TurnOf(i)
    <3>1. j \in 1..Len(Legacy) /\ Legacy[j] = "user"
      BY <2>1, <2>4, TurnOfIs
    <3>2. TurnOf(j) = j
      <4>. HIDE DEF j
      <4>. QED
        BY <3>1, TurnOfIs
    <3>3. j = message.turn
      BY <2>1
    <3>. HIDE DEF j
    <3>4. PICK row \in Messages(rows) : row.seq = j /\ row.tag = Legacy[j] /\ row.turn = TurnOf(j)
      BY <2>3, <3>1
    <3>. QED
      BY <2>1, <2>4, <3>1, <3>2, <3>3, <3>4
  <2>5. CASE TurnOf(i) = 0
    <3>1. 1 \in 1..Len(Legacy) /\ Legacy[1] # "user"
      BY <2>1, <2>5, TurnOfIs
    <3>2. TurnOf(1) = 0
      BY <3>1, TurnOfIs
    <3>. QED
      BY <2>1, <2>3, <2>5, <3>1, <3>2
  <2>. QED
    BY <2>4, <2>5
<1>4. CASE message.id[1] # "legacy"
  <2>. DEFINE p == message.id[1]
  <2>1. p \in Prompts
    BY <1>1, <1>4, RowHas DEF Ids
  <2>2. turns[p].pc = "live" /\ message.turn = turns[p].key /\ turns[p].life = wipes
    BY <1>1, <1>2, <1>4 DEF Named, KeyOf, LifeOf
  <2>. HIDE DEF p
  <2>3. Opened(message.turn) /\ message.turn # 0
    BY <2>1, <2>2 DEF HistoryInv, TurnsAreOpened, TurnsAreProper
  <2>4. PICK row \in rows : row.tag = "user" /\ row.seq = message.turn
    BY <2>3 DEF Opened
  <2>5. row.turn = row.seq
    BY <2>4, SeenIs DEF HistoryInv, Seen, Proper
  <2>. QED
    BY <2>3, <2>4, <2>5 DEF Messages, IsMessage
<1>. QED
  BY <1>3, <1>4

\* The rows a handler has read when it plans: the journal, after rows gone.
IsRead(all) ==
  /\ rows \subseteq all /\ all \subseteq Seen
  /\ \A seen \in all : seen \in rows \/ \A row \in rows : seen.seq < row.seq

\* The place of a turn in them.
LEMMA PlaceIs ==
  ASSUME HistoryInv, NoStragglers, NEW all, IsRead(all), NEW message, message \in Messages(rows)
  PROVE  First(all, message.turn) = IF message.turn = 0 THEN 1 ELSE message.turn
<1>1. all \subseteq Rows /\ \A row \in all : Proper(row)
  BY SeenIs DEF IsRead, HistoryInv
<1>2. message \in Messages(all) /\ message.turn \in Nat
  BY RowHas, <1>1 DEF IsRead, Messages
<1>. DEFINE key == message.turn
<1>3. /\ First(all, key) \in Nat
      /\ \E row \in Messages(all) : row.turn = key /\ row.seq = First(all, key)
      /\ \A row \in Messages(all) : row.turn = key => First(all, key) <= row.seq
  BY <1>1, <1>2, FirstIs
<1>4. PICK first \in Messages(all) : first.turn = key /\ first.seq = First(all, key)
  BY <1>3
<1>5. first \in Rows /\ first.turn <= first.seq
  BY <1>1, <1>4 DEF Messages, Proper
<1>6. PICK row \in Messages(rows) : row.seq = (IF key = 0 THEN 1 ELSE key) /\ row.turn = key
  BY OpenedIs
<1>7. row \in Messages(all)
  BY <1>6 DEF Messages, IsRead
<1>8. First(all, key) <= row.seq
  BY <1>3, <1>6, <1>7
<1>. HIDE DEF key
<1>9. first.seq >= (IF key = 0 THEN 1 ELSE key)
  BY <1>2, <1>4, <1>5, RowHas
<1>10. First(all, key) = IF key = 0 THEN 1 ELSE key
  BY <1>2, <1>3, <1>4, <1>6, <1>8, <1>9 DEF key
<1>. QED
  BY <1>10 DEF key

\* A turn some rows show either has a message in the journal, or is older than
\* every row of it.
LEMMA TurnIsHereOrGone ==
  ASSUME HistoryInv, NEW all, IsRead(all), NEW message, message \in Messages(all)
  PROVE  \/ \E row \in Messages(rows) : row.turn = message.turn
         \/ /\ \A row \in rows : First(all, message.turn) < row.seq
            /\ message.turn <= First(all, message.turn)
<1>1. all \subseteq Rows /\ \A row \in all : Proper(row)
  BY SeenIs DEF IsRead, HistoryInv
<1>2. PICK first \in Messages(all) :
        first.turn = message.turn /\ first.seq = First(all, message.turn)
  BY <1>1, FirstIs
<1>3. first \in all /\ first.turn <= first.seq
  BY <1>1, <1>2 DEF Messages, Proper
<1>4. CASE first \in rows
  <2>1. first \in Messages(rows)
    BY <1>2, <1>4 DEF Messages
  <2>. QED
    BY <1>2, <2>1
<1>5. CASE first \notin rows
  <2>1. \A row \in rows : first.seq < row.seq
    BY <1>3, <1>5 DEF IsRead
  <2>. QED
    BY <1>2, <1>3, <2>1
<1>. QED
  BY <1>4, <1>5

\* The fold lists the turns of the conversation by number.
LEMMA OrderIs ==
  ASSUME HistoryInv, NoStragglers, NEW all, IsRead(all),
         NEW one, one \in Messages(rows), NEW two, two \in Messages(all)
  PROVE  First(all, one.turn) <= First(all, two.turn) <=> one.turn <= two.turn
<1>1. First(all, one.turn) = IF one.turn = 0 THEN 1 ELSE one.turn
  BY PlaceIs
<1>2. all \subseteq Rows /\ rows \subseteq Rows
  BY SeenIs DEF IsRead, HistoryInv, Types
<1>3. one.turn \in Nat /\ two.turn \in Nat
  BY <1>2, RowHas DEF Messages
<1>4. PICK user \in Messages(rows) :
        user.seq = (IF one.turn = 0 THEN 1 ELSE one.turn) /\ user.turn = one.turn
  BY OpenedIs
<1>5. user \in rows
  BY <1>4 DEF Messages
<1>6. CASE \E row \in Messages(rows) : row.turn = two.turn
  <2>1. PICK row \in Messages(rows) : row.turn = two.turn
    BY <1>6
  <2>2. First(all, two.turn) = IF two.turn = 0 THEN 1 ELSE two.turn
    BY <2>1, PlaceIs
  <2>3. PICK other \in Messages(rows) :
          other.seq = (IF two.turn = 0 THEN 1 ELSE two.turn) /\ other.turn = two.turn
    BY <2>1, OpenedIs
  <2>4. other \in rows /\ (user.seq = other.seq => user = other)
    BY <1>5, <2>3 DEF Messages, HistoryInv, RowsAreProper
  <2>. QED
    BY <1>1, <1>3, <1>4, <2>2, <2>3, <2>4
<1>7. CASE /\ \A row \in rows : First(all, two.turn) < row.seq
           /\ two.turn <= First(all, two.turn)
  <2>1. First(all, two.turn) \in Nat /\ First(all, two.turn) < user.seq
    BY <1>2, <1>5, <1>7, FirstIs
  <2>2. First(all, two.turn) > 0
    <3>1. PICK first \in Messages(all) :
            first.turn = two.turn /\ first.seq = First(all, two.turn)
      BY <1>2, FirstIs
    <3>2. first \in Rows
      BY <1>2, <3>1 DEF Messages
    <3>. QED
      BY <3>1, <3>2, RowHas
  <2>. QED
    BY <1>1, <1>3, <1>4, <1>7, <2>1, <2>2
<1>. QED
  BY <1>6, <1>7, TurnIsHereOrGone

-----------------------------------------------------------------------------
(* Pages.                                                                    *)

\* A page is an initial part of the rows after the cursor, and a page that is
\* not full is all of them.
LEMMA PageIs ==
  ASSUME Types, RowsAreProper, NEW after \in Nat
  PROVE  LET page == PageAfter(after)
         IN  /\ page \subseteq rows
             /\ \A row \in rows, shown \in page :
                  after < row.seq /\ row.seq <= shown.seq => row \in page
             /\ Cardinality(page) # PageLimit =>
                  \A row \in rows : after < row.seq => row \in page
<1>. DEFINE Before(row) == {r \in rows : after < r.seq /\ r.seq < row.seq}
           page == PageAfter(after)
<1>1. /\ page = {row \in rows : row.seq > after /\ Cardinality(Before(row)) < PageLimit}
      /\ page \subseteq rows /\ PageLimit \in Nat /\ PageLimit > 0
  BY HistoryAssumption DEF PageAfter
<1>2. \A row \in rows : row.seq \in Nat /\ row.seq <= next
  <2>. SUFFICES ASSUME NEW row \in rows PROVE row.seq \in Nat /\ row.seq <= next
    OBVIOUS
  <2>1. row \in Rows /\ row.seq < next
    BY SeenIs DEF Seen, Proper
  <2>. QED
    BY <2>1, RowHas DEF Types
<1>3. /\ IsFiniteSet(rows) /\ rows \subseteq Rows /\ next \in Nat
      /\ \A row, other \in rows : row.seq = other.seq => row = other
  BY DEF Types, RowsAreProper
<1>4. \A s \in SUBSET rows : IsFiniteSet(s) /\ Cardinality(s) \in Nat
  BY <1>3, FS_Subset, FS_CardinalityType
<1>5. \A s, t \in SUBSET rows : s \subseteq t => Cardinality(s) <= Cardinality(t)
  BY <1>3, FS_Subset
<1>6. \A row \in rows : Before(row) \subseteq rows
  OBVIOUS
<1>7. ASSUME NEW row \in rows, NEW shown \in page, after < row.seq, row.seq <= shown.seq
      PROVE  row \in page
  <2>1. Before(row) \subseteq Before(shown)
    BY <1>1, <1>2, <1>7
  <2>2. /\ Cardinality(Before(shown)) < PageLimit /\ Cardinality(Before(shown)) \in Nat
        /\ Cardinality(Before(row)) \in Nat /\ shown \in rows
    BY <1>1, <1>4, <1>6, <1>7
  <2>3. Cardinality(Before(row)) <= Cardinality(Before(shown))
    BY <1>5, <1>6, <2>1, <2>2
  <2>4. Cardinality(Before(row)) < PageLimit
    <3>. HIDE DEF Before
    <3>. QED
      BY <1>1, <2>2, <2>3
  <2>. QED
    BY <1>1, <1>2, <1>7, <2>4
<1>8. Cardinality(page) <= PageLimit
  <2>1. CASE page = {}
    <3>. HIDE DEF page
    <3>1. Cardinality(page) = 0
      BY <2>1, FS_EmptySet
    <3>. QED
      BY <1>1, <3>1
  <2>2. CASE page # {}
    <3>1. PICK last \in page : \A other \in page : other.seq <= last.seq
      <4>. HIDE DEF page
      <4>. QED
        BY <1>1, <1>2, <1>3, <2>2, LastRow
    <3>2. page \ {last} \subseteq Before(last)
      <4>1. ASSUME NEW row \in page \ {last} PROVE after < row.seq /\ row.seq < last.seq
        BY <1>1, <1>2, <1>3, <3>1
      <4>. QED
        BY <1>1, <4>1
    <3>3. /\ Cardinality(Before(last)) < PageLimit /\ Cardinality(Before(last)) \in Nat
      BY <1>1, <1>4, <3>1
    <3>. HIDE DEF page, Before
    <3>4. Cardinality(page \ {last}) <= Cardinality(Before(last))
      BY <1>1, <1>5, <1>6, <3>2
    <3>5. Cardinality(page \ {last}) = Cardinality(page) - 1
      BY <1>1, <1>4, <3>1, FS_RemoveElement
    <3>6. Cardinality(page) \in Nat /\ Cardinality(page \ {last}) \in Nat
      BY <1>1, <1>4
    <3>. QED
      BY <1>1, <3>3, <3>4, <3>5, <3>6
  <2>. QED
    BY <2>1, <2>2
<1>9. ASSUME Cardinality(page) # PageLimit, NEW row \in rows, after < row.seq
      PROVE  row \in page
  <2>. SUFFICES ASSUME row \notin page PROVE FALSE
    OBVIOUS
  <2>. DEFINE rest == {r \in rows : after < r.seq /\ r \notin page}
  <2>1. PICK first \in rest : \A other \in rest : first.seq <= other.seq
    <3>1. rest \subseteq Rows /\ row \in rest
      BY <1>3, <1>9
    <3>. HIDE DEF rest
    <3>. QED
      BY <3>1, FirstRow
  <2>2. first \in rows /\ after < first.seq /\ first \notin page
    BY <2>1
  <2>3. Before(first) \subseteq page
    BY <1>2, <2>1
  <2>4. ~(Cardinality(Before(first)) < PageLimit)
    BY <1>1, <2>2
  <2>. HIDE DEF page, Before, rest
  <2>5. Cardinality(Before(first)) <= Cardinality(page) /\ Before(first) \in SUBSET rows
    BY <1>1, <1>5, <1>6, <2>2, <2>3
  <2>6. Cardinality(page) \in Nat /\ Cardinality(Before(first)) \in Nat
    BY <1>1, <1>4, <2>5
  <2>. QED
    BY <1>1, <1>8, <1>9, <2>4, <2>5, <2>6
<1>. HIDE DEF page
<1>10. /\ page \subseteq rows
       /\ \A row \in rows, shown \in page :
            after < row.seq /\ row.seq <= shown.seq => row \in page
       /\ Cardinality(page) # PageLimit =>
            \A row \in rows : after < row.seq => row \in page
  BY <1>1, <1>7, <1>9
<1>. QED
  BY <1>10 DEF page

\* The cursor: no row before it is missing, none after it is read.
LEMMA CursorIs ==
  ASSUME HistoryInv, NEW p \in Prompts
  PROVE  LET after == Max({0} \cup {row.seq : row \in turns[p].read})
         IN  /\ after \in Nat
             /\ \A row \in turns[p].read : row.seq <= after
             /\ \A row \in rows : row.seq <= after => row \in turns[p].read
<1>. DEFINE read == turns[p].read
           S == {0} \cup {row.seq : row \in read}
<1>1. \A row \in read : row \in Rows /\ row.seq < next /\ row.seq \in Nat
  BY SeenIs, RowHas DEF HistoryInv, Seen, Proper
<1>2. S \subseteq 0..next /\ S # {} /\ next \in Nat
  BY <1>1 DEF HistoryInv, Types
<1>3. Max(S) \in S /\ (\A i \in S : i <= Max(S)) /\ Max(S) \in Nat
  <2>. HIDE DEF S
  <2>1. Max(S) \in S /\ (\A i \in S : i <= Max(S))
    BY <1>2, MaxIs, Zenon
  <2>2. Max(S) \in 0..next
    BY <1>2, <2>1, Zenon
  <2>3. Max(S) \in Nat
    BY <1>2, <2>2
  <2>. QED
    BY <2>1, <2>3, Zenon
<1>4. ASSUME NEW row \in rows, row.seq <= Max(S) PROVE row \in read
  <2>1. row.seq \in Nat /\ row.seq > 0
    BY RowHas DEF HistoryInv, Types
  <2>2. Max(S) # 0
    BY <1>3, <1>4, <2>1
  <2>3. PICK seen \in read : seen.seq = Max(S)
    BY <1>3, <2>2
  <2>4. row.seq <= seen.seq
    BY <1>4, <2>3
  <2>. QED
    BY <2>3, <2>4 DEF HistoryInv, ReadsAreInitial
<1>5. \A row \in read : row.seq <= Max(S)
  BY <1>3
<1>. HIDE DEF S
<1>6. /\ Max(S) \in Nat
      /\ \A row \in read : row.seq <= Max(S)
      /\ \A row \in rows : row.seq <= Max(S) => row \in read
  BY <1>3, <1>4, <1>5
<1>. QED
  BY <1>6 DEF S

-----------------------------------------------------------------------------
(* What a step keeps.                                                        *)

\* A turn that is open stays open, and keeps its number and its life.
Steady ==
  \A p \in Prompts : turns[p].pc = "live" =>
    /\ turns'[p].pc = "live" /\ turns'[p].key = turns[p].key
    /\ turns'[p].life = turns[p].life /\ turns[p].texts <= turns'[p].texts

LEMMA NamesStay ==
  ASSUME Types, Types', Steady, NEW id \in Ids, Named(id)
  PROVE  Named(id)' /\ KeyOf(id)' = KeyOf(id) /\ LifeOf(id)' = LifeOf(id)
<1>1. CASE id[1] = "legacy"
  BY <1>1 DEF Named, KeyOf, LifeOf
<1>2. CASE id[1] # "legacy"
  <2>. DEFINE p == id[1]
  <2>1. p \in Prompts /\ turns[p].pc = "live" /\ id[2] \in 0..turns[p].texts
    BY <1>2 DEF Ids, Named
  <2>2. turns[p].texts \in Nat /\ turns'[p].texts \in Nat
    BY <2>1 DEF Types, Threads
  <2>3. /\ turns'[p].pc = "live" /\ turns'[p].key = turns[p].key
        /\ turns'[p].life = turns[p].life /\ turns[p].texts <= turns'[p].texts
    BY <2>1 DEF Steady
  <2>4. id[2] \in 0..turns'[p].texts
    BY <2>1, <2>2, <2>3
  <2>. QED
    BY <1>2, <2>3, <2>4 DEF Named, KeyOf, LifeOf
<1>. QED
  BY <1>1, <1>2

LEMMA ProperStays ==
  ASSUME Types, RowsAreProper, Types', Steady, next <= next', NEW row, row \in Seen
  PROVE  Proper(row)'
<1>1. row \in Rows /\ Proper(row)
  BY SeenIs
<1>2. row.id \in Ids /\ row.seq \in Nat
  BY <1>1, RowHas
<1>3. row.seq < next'
  BY <1>1, <1>2 DEF Proper, Types
<1>4. IsMessage(row) =>
        /\ Named(row.id)' /\ KeyOf(row.id)' = KeyOf(row.id) /\ LifeOf(row.id)' = LifeOf(row.id)
  BY <1>1, <1>2, NamesStay DEF Proper
<1>. QED
  BY <1>1, <1>3, <1>4 DEF Proper

\* A row at the end of the journal leaves a plan sound and kept, if it is not
\* a message the plan is about.
LEMMA PlanStays ==
  ASSUME Types, NEW new \in Rows, rows' = rows \cup {new}, wipes' = wipes, IsFiniteSet(rows'),
         NEW plan \in Plans, Sound(plan), Kept(plan),
         NoStragglers' /\ IsMessage(new) /\ ~new.late =>
           new.turn > plan.through /\ new.id \notin plan.covers,
         NoStragglers' /\ new.tag = "user" => new.turn > plan.through
  PROVE  Sound(plan)' /\ Kept(plan)'
<1>1. NoStragglers' => NoStragglers
  BY DEF NoStragglers, Messages
<1>2. plan.through \in Int /\ new.turn \in Nat
  BY RowHas DEF Plans
<1>3. ASSUME NoStragglers', NEW row \in Messages(rows)', ~row.late
      PROVE  row.turn <= plan.through <=> row.id \in plan.covers
  <2>1. CASE row \in Messages(rows)
    BY <1>1, <1>3, <2>1 DEF Sound
  <2>2. CASE row = new /\ IsMessage(new)
    BY <1>2, <1>3, <2>2
  <2>. QED
    BY <1>3, <2>1, <2>2 DEF Messages
<1>4. Sound(plan)'
  BY <1>3 DEF Sound
<1>5. ASSUME NoStragglers'
      PROVE  \/ \A row \in rows' : row.tag = "user" => row.turn > plan.through
             \/ Cardinality(UsersAfter(plan.through)') >= Keep
  <2>1. CASE \A row \in rows : row.tag = "user" => row.turn > plan.through
    BY <1>5, <2>1
  <2>2. CASE Cardinality(UsersAfter(plan.through)) >= Keep
    <3>1. UsersAfter(plan.through) \subseteq UsersAfter(plan.through)'
      BY DEF UsersAfter
    <3>2. UsersAfter(plan.through)' \subseteq rows'
      BY DEF UsersAfter
    <3>. DEFINE old == UsersAfter(plan.through)
               now == UsersAfter(plan.through)'
    <3>3. Cardinality(old) >= Keep
      BY <2>2
    <3>4. old \subseteq now /\ now \subseteq rows'
      BY <3>1, <3>2
    <3>. HIDE DEF old, now
    <3>5. IsFiniteSet(now)
      BY <3>4, FS_Subset
    <3>6. Cardinality(old) <= Cardinality(now) /\ IsFiniteSet(old)
      BY <3>4, <3>5, FS_Subset
    <3>7. Cardinality(old) \in Nat /\ Cardinality(now) \in Nat
      BY <3>5, <3>6, FS_CardinalityType
    <3>8. Cardinality(now) >= Keep
      BY <3>3, <3>6, <3>7, HistoryAssumption
    <3>. QED
      BY <3>8 DEF now
  <2>. QED
    BY <1>1, <1>5, <2>1, <2>2 DEF Kept
<1>. QED
  BY <1>4, <1>5 DEF Kept

\* The plans in sight are plans.
LEMMA PlansSeenAre ==
  ASSUME Types, RowsAreProper, NEW plan, plan \in PlansSeen
  PROVE  plan \in Plans /\ plan.through \in Int /\ plan.covers \subseteq Ids
<1>1. plan \in Plans
  <2>1. ASSUME NEW row \in Seen, plan = row.plan PROVE plan \in Plans
    BY <2>1, SeenIs, RowHas
  <2>2. ASSUME NEW p \in Prompts, plan = turns[p].plan PROVE plan \in Plans
    BY <2>2 DEF Types, Threads
  <2>3. CASE plan = NoPlan
    BY <2>3, PlansAre
  <2>. QED
    BY <2>1, <2>2, <2>3 DEF PlansSeen
<1>. QED
  BY <1>1 DEF Plans

\* A handler journals a row.
LEMMA RowAdded ==
  ASSUME HistoryInv, NEW p \in Prompts, NEW th \in Threads, NEW new \in Rows,
         turns' = [turns EXCEPT ![p] = th], rows' = rows \cup {new}, next' = next + 1,
         wipes' = wipes,
         turns[p].pc # "scan", th.pc \in {"open", "live"}, th.read = {}, th.plan = NoPlan,
         turns[p].pc = "live" =>
           /\ th.pc = "live" /\ th.key = turns[p].key
           /\ th.life = turns[p].life /\ turns[p].texts <= th.texts,
         th.pc = "live" =>
           /\ th.key \in 1..next /\ th.life <= wipes
           /\ th.life = wipes => Opened(th.key)',
         new.seq = next, new.turn <= next, new.tag = "user" => new.turn = next,
         IsMessage(new) =>
           /\ Named(new.id)' /\ new.turn = KeyOf(new.id)' /\ new.life = LifeOf(new.id)',
         new.plan = NoPlan \/ (new.tag = "compaction" /\ new.plan \in PlansSeen),
         \A plan \in PlansSeen :
           NoStragglers' /\ IsMessage(new) /\ ~new.late =>
             new.turn > plan.through /\ new.id \notin plan.covers,
         \A plan \in PlansSeen : NoStragglers' /\ new.tag = "user" => new.turn > plan.through
  PROVE  HistoryInv'
<1>1. Types /\ RowsAreProper /\ TurnsAreProper /\ TurnsAreOpened /\ ReadsAreInitial /\ PlansAreKept
  BY DEF HistoryInv
<1>2. /\ turns \in [Prompts -> Threads] /\ next \in Nat /\ wipes \in Nat
      /\ rows \subseteq Rows /\ IsFiniteSet(rows)
  BY <1>1 DEF Types
<1>3. /\ turns'[p] = th /\ \A q \in Prompts : q # p => turns'[q] = turns[q]
      /\ turns' \in [Prompts -> Threads]
  BY <1>2
<1>4. Types'
  <2>1. IsFiniteSet(rows')
    BY <1>2, FS_AddElement
  <2>2. ASSUME NEW q \in Prompts PROVE IsFiniteSet(turns'[q].read)
    <3>1. CASE q = p
      BY <1>3, <3>1, FS_EmptySet
    <3>2. CASE q # p
      BY <1>1, <1>3, <3>2 DEF Types
    <3>. QED
      BY <3>1, <3>2
  <2>3. rows' \subseteq Rows /\ next' \in Nat \ {0} /\ wipes' \in Nat
    <3>1. next \in Nat \ {0}
      BY <1>1 DEF Types
    <3>. QED
      BY <1>2, <3>1
  <2>. QED
    BY <1>3, <2>1, <2>2, <2>3 DEF Types
<1>5. Steady
  <2>. SUFFICES ASSUME NEW q \in Prompts, turns[q].pc = "live"
                PROVE  /\ turns'[q].pc = "live" /\ turns'[q].key = turns[q].key
                       /\ turns'[q].life = turns[q].life /\ turns[q].texts <= turns'[q].texts
    BY DEF Steady
  <2>1. turns[q].texts \in Nat
    BY <1>2 DEF Threads
  <2>. QED
    BY <1>3, <2>1
<1>6. \A row \in rows : row.seq \in Nat /\ row.seq < next
  BY <1>1, SeenIs, RowHas DEF Seen, Proper
<1>7. Seen' \subseteq Seen \cup {new}
  BY <1>3 DEF Seen
<1>8. RowsAreProper'
  <2>1. Proper(new)'
    <3>1. new.seq < next' /\ new.turn <= new.seq /\ (new.tag = "user" => new.turn = new.seq)
      BY <1>2, RowHas
    <3>2. \A plan \in PlansSeen : plan.through < new.seq
      BY <1>1 DEF PlansAreKept
    <3>3. -1 < new.seq
      BY <1>2
    <3>. QED
      BY <3>1, <3>2, <3>3, PlansAre DEF Proper, IsMessage
  <2>2. \A row \in Seen : Proper(row)'
    BY <1>1, <1>2, <1>4, <1>5, ProperStays
  <2>3. \A row, other \in rows' : row.seq = other.seq => row = other
    BY <1>1, <1>2, <1>6 DEF RowsAreProper
  <2>. QED
    BY <1>7, <2>1, <2>2, <2>3 DEF RowsAreProper
<1>9. TurnsAreProper'
  <2>. SUFFICES ASSUME NEW q \in Prompts
                PROVE  /\ turns'[q].pc = "live" =>
                            turns'[q].key \in 1..(next' - 1) /\ turns'[q].life <= wipes'
                       /\ turns'[q].pc # "scan" => turns'[q].read = {}
                       /\ turns'[q].pc # "summarise" => turns'[q].plan = NoPlan
    BY DEF TurnsAreProper
  <2>1. CASE q = p
    BY <1>2, <1>3, <2>1
  <2>2. CASE q # p
    <3>1. turns'[q] = turns[q]
      BY <1>3, <2>2
    <3>2. /\ turns[q].pc = "live" => turns[q].key \in 1..(next - 1) /\ turns[q].life <= wipes
          /\ turns[q].pc # "scan" => turns[q].read = {}
          /\ turns[q].pc # "summarise" => turns[q].plan = NoPlan
      BY <1>1 DEF TurnsAreProper
    <3>. QED
      BY <1>2, <3>1, <3>2
  <2>. QED
    BY <2>1, <2>2
<1>10. TurnsAreOpened'
  <2>1. ASSUME NEW q \in Prompts, turns'[q].pc = "live", turns'[q].life = wipes'
        PROVE  Opened(turns[q].key)'
    <3>1. CASE q = p
      BY <1>3, <2>1, <3>1 DEF Opened
    <3>2. CASE q # p
      <4>1. Opened(turns[q].key) /\ turns'[q] = turns[q]
        BY <1>1, <1>3, <2>1, <3>2 DEF TurnsAreOpened
      <4>. QED
        BY <4>1 DEF Opened
    <3>. QED
      BY <3>1, <3>2
  <2>2. wipes' = 0 => Seeded \subseteq rows'
    BY <1>1 DEF TurnsAreOpened
  <2>. QED
    BY <2>1, <2>2 DEF TurnsAreOpened, Opened
<1>11. ReadsAreInitial'
  <2>. SUFFICES ASSUME NEW q \in Prompts, NEW seen \in turns'[q].read
                PROVE  /\ seen \in rows' \/ \A row \in rows' : seen.seq < row.seq
                       /\ \A row \in rows' : row.seq <= seen.seq => row \in turns'[q].read
    BY DEF ReadsAreInitial
  <2>1. q # p /\ turns'[q] = turns[q]
    BY <1>3
  <2>2. seen \in Seen
    BY <2>1 DEF Seen
  <2>3. seen.seq \in Nat /\ seen.seq < new.seq
    BY <1>1, <2>2, SeenIs, RowHas DEF Proper
  <2>4. /\ seen \in rows \/ \A row \in rows : seen.seq < row.seq
        /\ \A row \in rows : row.seq <= seen.seq => row \in turns[q].read
    BY <1>1, <2>1 DEF ReadsAreInitial
  <2>. QED
    BY <1>2, <2>1, <2>3, <2>4
<1>12. PlansAreKept'
  <2>1. PlansSeen' \subseteq PlansSeen
    <3>1. {row.plan : row \in Seen'} \subseteq PlansSeen
      BY <1>7 DEF PlansSeen
    <3>2. {turns'[q].plan : q \in Prompts} \subseteq PlansSeen
      BY <1>3 DEF PlansSeen
    <3>. QED
      BY <3>1, <3>2 DEF PlansSeen
  <2>. SUFFICES ASSUME NEW plan \in PlansSeen
                PROVE  /\ plan.through < next'
                       /\ \A id \in plan.covers : Named(id)'
                       /\ Sound(plan)' /\ Kept(plan)'
    BY <2>1 DEF PlansAreKept
  <2>2. /\ plan.through < next /\ Sound(plan) /\ Kept(plan)
        /\ \A id \in plan.covers : Named(id)
    BY <1>1 DEF PlansAreKept
  <2>3. plan \in Plans /\ plan.through \in Int /\ plan.covers \subseteq Ids
    BY <1>1, PlansSeenAre
  <2>4. \A id \in plan.covers : Named(id)'
    BY <1>1, <1>4, <1>5, <2>2, <2>3, NamesStay
  <2>5. IsFiniteSet(rows')
    BY <1>4 DEF Types
  <2>6. /\ NoStragglers' /\ IsMessage(new) /\ ~new.late =>
             new.turn > plan.through /\ new.id \notin plan.covers
        /\ NoStragglers' /\ new.tag = "user" => new.turn > plan.through
    OBVIOUS
  <2>7. Sound(plan)' /\ Kept(plan)'
    BY <1>1, <2>2, <2>3, <2>5, <2>6, PlanStays
  <2>. QED
    BY <1>2, <2>2, <2>3, <2>4, <2>7
<1>. QED
  BY <1>4, <1>8, <1>9, <1>10, <1>11, <1>12 DEF HistoryInv

\* A handler moves on, with a plan or without.
LEMMA TurnMoves ==
  ASSUME HistoryInv, NEW p \in Prompts, NEW th \in Threads,
         turns' = [turns EXCEPT ![p] = th], UNCHANGED <<rows, next, wipes>>,
         turns[p].pc # "live", th.pc # "live",
         IsFiniteSet(th.read), th.read \subseteq Seen,
         \A seen \in th.read :
           /\ seen \in rows \/ \A row \in rows : seen.seq < row.seq
           /\ \A row \in rows : row.seq <= seen.seq => row \in th.read,
         th.pc # "scan" => th.read = {},
         th.pc # "summarise" => th.plan = NoPlan,
         th.plan.through < next, \A id \in th.plan.covers : Named(id),
         Sound(th.plan), Kept(th.plan)
  PROVE  HistoryInv'
<1>1. Types /\ RowsAreProper /\ TurnsAreProper /\ TurnsAreOpened /\ ReadsAreInitial /\ PlansAreKept
  BY DEF HistoryInv
<1>2. /\ turns \in [Prompts -> Threads] /\ next \in Nat /\ wipes \in Nat
      /\ rows \subseteq Rows /\ IsFiniteSet(rows)
  BY <1>1 DEF Types
<1>3. /\ turns'[p] = th /\ \A q \in Prompts : q # p => turns'[q] = turns[q]
      /\ turns' \in [Prompts -> Threads]
  BY <1>2
<1>4. Types'
  <2>1. ASSUME NEW q \in Prompts PROVE IsFiniteSet(turns'[q].read)
    BY <1>1, <1>3 DEF Types
  <2>2. rows' \subseteq Rows /\ IsFiniteSet(rows') /\ next' \in Nat \ {0} /\ wipes' \in Nat
    BY <1>1 DEF Types
  <2>. QED
    BY <1>3, <2>1, <2>2 DEF Types
<1>5. Steady
  <2>. SUFFICES ASSUME NEW q \in Prompts, turns[q].pc = "live"
                PROVE  /\ turns'[q].pc = "live" /\ turns'[q].key = turns[q].key
                       /\ turns'[q].life = turns[q].life /\ turns[q].texts <= turns'[q].texts
    BY DEF Steady
  <2>1. turns[q].texts \in Nat /\ q # p
    BY <1>2 DEF Threads
  <2>. QED
    BY <1>3, <2>1
<1>6. Seen' \subseteq Seen
  BY <1>3 DEF Seen
<1>7. RowsAreProper'
  <2>1. \A row \in Seen : Proper(row)'
    BY <1>1, <1>2, <1>4, <1>5, ProperStays
  <2>. QED
    BY <1>1, <1>6, <2>1 DEF RowsAreProper
<1>8. TurnsAreProper'
  BY <1>1, <1>3 DEF TurnsAreProper
<1>9. TurnsAreOpened'
  <2>1. ASSUME NEW q \in Prompts, turns'[q].pc = "live", turns'[q].life = wipes'
        PROVE  Opened(turns[q].key)'
    <3>1. q # p /\ turns'[q] = turns[q]
      BY <1>3, <2>1
    <3>. QED
      BY <1>1, <2>1, <3>1 DEF TurnsAreOpened, Opened
  <2>2. wipes' = 0 => Seeded \subseteq rows'
    BY <1>1 DEF TurnsAreOpened
  <2>. QED
    BY <2>1, <2>2 DEF TurnsAreOpened, Opened
<1>10. ReadsAreInitial'
  <2>. SUFFICES ASSUME NEW q \in Prompts, NEW seen \in turns'[q].read
                PROVE  /\ seen \in rows \/ \A row \in rows : seen.seq < row.seq
                       /\ \A row \in rows : row.seq <= seen.seq => row \in turns'[q].read
    BY DEF ReadsAreInitial
  <2>1. CASE q = p
    BY <1>3, <2>1
  <2>2. CASE q # p
    BY <1>1, <1>3, <2>2 DEF ReadsAreInitial
  <2>. QED
    BY <2>1, <2>2
<1>11. PlansAreKept'
  <2>1. PlansSeen' \subseteq PlansSeen \cup {th.plan}
    <3>1. {row.plan : row \in Seen'} \subseteq PlansSeen
      BY <1>6 DEF PlansSeen
    <3>2. {turns'[q].plan : q \in Prompts} \subseteq PlansSeen \cup {th.plan}
      BY <1>3 DEF PlansSeen
    <3>. QED
      BY <3>1, <3>2 DEF PlansSeen
  <2>. SUFFICES ASSUME NEW plan \in PlansSeen \cup {th.plan}
                PROVE  /\ plan.through < next'
                       /\ \A id \in plan.covers : Named(id)'
                       /\ Sound(plan)' /\ Kept(plan)'
    BY <2>1 DEF PlansAreKept
  <2>2. /\ plan.through < next /\ Sound(plan) /\ Kept(plan)
        /\ \A id \in plan.covers : Named(id)
    BY <1>1 DEF PlansAreKept
  <2>3. plan.covers \subseteq Ids
    BY <1>1, PlansSeenAre DEF Threads, Plans
  <2>4. \A id \in plan.covers : Named(id)'
    BY <1>1, <1>4, <1>5, <2>2, <2>3, NamesStay
  <2>5. Sound(plan)' /\ Kept(plan)'
    BY <2>2 DEF Sound, Kept, NoStragglers, Messages, UsersAfter
  <2>. QED
    BY <2>2, <2>4, <2>5
<1>. QED
  BY <1>4, <1>7, <1>8, <1>9, <1>10, <1>11 DEF HistoryInv

-----------------------------------------------------------------------------
(* The plan a handler makes of what it has read.                             *)

\* Plan, in parts.
LEMMA PlanParts ==
  ASSUME HistoryInv, NEW all, IsRead(all), Plan(all) # NoPlan
  PROVE  LET plan == Plan(all)
             latest == Latest(all)
             older == Older(all, Keep)
         IN  /\ latest \in PlansSeen
             /\ plan.covers = latest.covers \cup MessagesOf(all, older)
             /\ plan.through \in older
             /\ \A key \in older : First(all, key) <= First(all, plan.through)
<1>. DEFINE older == Older(all, Keep)
           latest == Latest(all)
<1>1. all \subseteq Rows /\ (\A row \in all : Proper(row)) /\ next \in Nat
  BY SeenIs DEF IsRead, HistoryInv, Types
<1>2. \A row \in all : row.seq <= next
  BY <1>1, RowHas DEF Proper
<1>3. latest \in PlansSeen
  <2>1. latest \in {NoPlan} \cup {row.plan : row \in all}
    BY <1>1, <1>2, LatestIs
  <2>. QED
    BY <2>1 DEF PlansSeen, IsRead
<1>4. /\ older # {}
      /\ Plan(all) = [through |-> LastOf(all, older),
                      covers |-> latest.covers \cup MessagesOf(all, older)]
  BY DEF Plan
<1>5. \A key \in older : \E message \in Messages(all) : message.turn = key
  BY DEF Older, Eligible
<1>6. \E key \in older : \A other \in older : First(all, other) <= First(all, key)
  <2>. DEFINE S == {First(all, key) : key \in older}
  <2>1. \A key \in older : First(all, key) \in 0..next
    <3>. SUFFICES ASSUME NEW key \in older PROVE First(all, key) \in 0..next
      OBVIOUS
    <3>1. PICK message \in Messages(all) : message.turn = key
      BY <1>5
    <3>2. First(all, key) \in Nat /\ \E row \in Messages(all) : row.seq = First(all, key)
      BY <1>1, <3>1, FirstIs
    <3>. QED
      BY <1>1, <1>2, <3>2 DEF Messages
  <2>. HIDE DEF older
  <2>2. S \subseteq 0..next /\ S # {}
    BY <1>4, <2>1
  <2>3. PICK m \in S : \A i \in S : i <= m
    <3>. HIDE DEF S
    <3>. QED
      BY <1>1, <2>2, Largest
  <2>4. PICK key \in older : First(all, key) = m
    BY <2>3
  <2>5. \A other \in older : First(all, other) \in S
    OBVIOUS
  <2>. QED
    BY <2>3, <2>4, <2>5
<1>. HIDE DEF older
<1>7. LastOf(all, older) \in older /\ \A key \in older : First(all, key) <= First(all, LastOf(all, older))
  BY <1>6 DEF LastOf
<1>. HIDE DEF latest
<1>8. /\ Plan(all).covers = latest.covers \cup MessagesOf(all, older)
      /\ Plan(all).through = LastOf(all, older)
  BY <1>4
<1>. QED
  BY <1>3, <1>7, <1>8 DEF older, latest

\* A plan's watermark is the number of a turn, its messages have names.
LEMMA PlanIsNamed ==
  ASSUME HistoryInv, NEW all, IsRead(all)
  PROVE  /\ Plan(all) \in Plans /\ Plan(all).through < next
         /\ \A id \in Plan(all).covers : Named(id)
<1>1. Types /\ RowsAreProper /\ PlansAreKept
  BY DEF HistoryInv
<1>2. CASE Plan(all) = NoPlan
  <2>1. NoPlan \in PlansSeen
    BY DEF PlansSeen
  <2>. QED
    BY <1>1, <1>2, <2>1, PlansAre DEF PlansAreKept
<1>3. CASE Plan(all) # NoPlan
  <2>. DEFINE plan == Plan(all)
             latest == Latest(all)
             older == Older(all, Keep)
  <2>1. /\ latest \in PlansSeen
        /\ plan.covers = latest.covers \cup MessagesOf(all, older)
        /\ plan.through \in older
    BY <1>3, PlanParts
  <2>2. DOMAIN plan = {"through", "covers"} /\ plan = [through |-> plan.through, covers |-> plan.covers]
    BY <1>3 DEF Plan
  <2>3. PICK message \in Messages(all) : message.turn = plan.through
    <3>. HIDE DEF plan
    <3>. QED
      BY <2>1 DEF Older, Eligible
  <2>4. message \in Rows /\ Proper(message)
    BY <1>1, <2>3, SeenIs DEF Messages, IsRead
  <2>5. plan.through \in Nat /\ plan.through < next
    <3>. HIDE DEF plan
    <3>1. message.turn \in Nat /\ message.turn <= message.seq /\ message.seq < next
          /\ message.seq \in Nat
      BY <2>4, RowHas DEF Proper
    <3>. QED
      BY <1>1, <2>3, <3>1 DEF Types
  <2>6. \A id \in MessagesOf(all, older) : id \in Ids /\ Named(id)
    <3>1. \A row \in Messages(all) : row.id \in Ids /\ Named(row.id)
      BY <1>1, SeenIs, RowHas DEF Messages, IsRead, Proper
    <3>. QED
      BY <3>1 DEF MessagesOf
  <2>7. latest.covers \subseteq Ids /\ \A id \in latest.covers : Named(id)
    <3>. HIDE DEF latest
    <3>. QED
      BY <1>1, <2>1, PlansSeenAre DEF PlansAreKept
  <2>8. plan.covers \subseteq Ids /\ \A id \in plan.covers : Named(id)
    BY <2>1, <2>6, <2>7
  <2>. HIDE DEF plan
  <2>9. plan \in Plans
    BY <2>2, <2>5, <2>8 DEF Plans
  <2>. QED
    BY <2>5, <2>8, <2>9 DEF plan
<1>. QED
  BY <1>2, <1>3

\* The turns after one are numbers of the journal.
LEMMA LaterIsFinite ==
  ASSUME HistoryInv, NEW all, IsRead(all), NEW key
  PROVE  IsFiniteSet(Later(all, key)) /\ Later(all, key) \subseteq Nat
<1>1. next \in Nat
  BY DEF HistoryInv, Types
<1>2. \A row \in Messages(all) : row.turn \in Nat /\ row.turn <= next
  <2>. SUFFICES ASSUME NEW row \in Messages(all) PROVE row.turn \in Nat /\ row.turn <= next
    OBVIOUS
  <2>1. row \in Rows /\ row.turn <= row.seq /\ row.seq < next
    BY SeenIs DEF HistoryInv, IsRead, Messages, Proper
  <2>. QED
    BY <1>1, <2>1, RowHas
<1>3. Later(all, key) \in SUBSET (0..next)
  BY <1>1, <1>2 DEF Later, Eligible
<1>4. IsFiniteSet(0..next)
  BY <1>1, FS_Interval
<1>5. IsFiniteSet(Later(all, key))
  BY <1>3, <1>4, FS_Subset, Zenon
<1>6. Later(all, key) \subseteq Nat
  BY <1>1, <1>3
<1>. QED
  BY <1>5, <1>6

\* Its summary covers the turns up to its watermark and no other.
LEMMA PlanIsSound ==
  ASSUME HistoryInv, NEW all, IsRead(all), IsFiniteSet(all)
  PROVE  Sound(Plan(all))
<1>1. Types /\ RowsAreProper /\ PlansAreKept
  BY DEF HistoryInv
<1>2. CASE Plan(all) = NoPlan
  BY <1>1, <1>2 DEF PlansAreKept, PlansSeen
<1>3. CASE Plan(all) # NoPlan
  <2>. DEFINE plan == Plan(all)
             latest == Latest(all)
             older == Older(all, Keep)
  <2>1. /\ latest \in PlansSeen
        /\ plan.covers = latest.covers \cup MessagesOf(all, older)
        /\ plan.through \in older
        /\ \A key \in older : First(all, key) <= First(all, plan.through)
    BY <1>3, PlanParts
  <2>2. /\ older \subseteq Eligible(all)
        /\ \A key \in Eligible(all) : key \in older <=> Cardinality(Later(all, key)) >= Keep
    BY DEF Older
  <2>3. latest.through \in Int /\ Sound(latest)
    BY <1>1, <2>1, PlansSeenAre DEF PlansAreKept
  <2>. HIDE DEF plan, older
  <2>4. PICK last \in Messages(all) : last.turn = plan.through /\ plan.through > latest.through
    BY <2>1, <2>2 DEF Eligible
  <2>5. all \subseteq Rows /\ \A row \in all : Proper(row)
    BY <1>1, SeenIs DEF IsRead
  <2>6. plan.through \in Nat
    BY <2>4, <2>5, RowHas DEF Messages
  <2>. HIDE DEF latest
  <2>. SUFFICES ASSUME NoStragglers, NEW row \in Messages(rows), ~row.late
                PROVE  row.turn <= plan.through <=> row.id \in plan.covers
    BY DEF Sound, plan
  <2>7. row \in Messages(all) /\ row.turn \in Nat
    BY <2>5, RowHas DEF Messages, IsRead
  <2>8. row.id \in MessagesOf(all, older) <=> row.turn \in older
    BY <2>5, <2>7, MessagesAre
  <2>9. row.id \in latest.covers <=> row.turn <= latest.through
    BY <2>3 DEF Sound
  <2>10. row.turn \in Eligible(all) <=> row.turn > latest.through
    BY <2>7 DEF Eligible, latest
  <2>11. First(all, row.turn) <= First(all, plan.through) <=> row.turn <= plan.through
    BY <2>4, OrderIs
  <2>12. ASSUME row.turn <= plan.through, row.turn > latest.through PROVE row.turn \in older
    <3>1. /\ First(all, row.turn) \in Nat /\ First(all, plan.through) \in Nat
      BY <2>4, <2>5, <2>7, FirstIs
    <3>2. \A key \in Eligible(all) : First(all, key) \in Nat
      <4>1. ASSUME NEW key \in Eligible(all) PROVE First(all, key) \in Nat
        <5>1. PICK message \in Messages(all) : message.turn = key
          BY DEF Eligible
        <5>. QED
          BY <2>5, <5>1, FirstIs
      <4>. QED
        BY <4>1
    <3>3. Later(all, plan.through) \subseteq Later(all, row.turn)
      BY <2>11, <2>12, <3>1, <3>2 DEF Later
    <3>4. IsFiniteSet(Later(all, row.turn))
      BY <2>5, LaterIsFinite
    <3>5. /\ Cardinality(Later(all, plan.through)) <= Cardinality(Later(all, row.turn))
          /\ IsFiniteSet(Later(all, plan.through))
      BY <3>3, <3>4, FS_Subset
    <3>6. Cardinality(Later(all, plan.through)) \in Nat /\ Cardinality(Later(all, row.turn)) \in Nat
      BY <3>4, <3>5, FS_CardinalityType
    <3>7. Cardinality(Later(all, plan.through)) >= Keep /\ Keep \in Nat
      BY <2>1, <2>2, HistoryAssumption
    <3>8. Cardinality(Later(all, row.turn)) >= Keep
      BY <3>5, <3>6, <3>7
    <3>. QED
      BY <2>2, <2>10, <2>12, <3>8
  <2>13. ASSUME row.turn \in older PROVE row.turn <= plan.through
    BY <2>1, <2>11, <2>13
  <2>. QED
    BY <2>1, <2>3, <2>4, <2>6, <2>7, <2>8, <2>9, <2>10, <2>12, <2>13
<1>. QED
  BY <1>2, <1>3

\* There are no more turns than rows they are the turns of.
LEMMA TurnsOf ==
  ASSUME NEW S, NEW T, IsFiniteSet(T), \A key \in S : \E row \in T : row.turn = key
  PROVE  Cardinality(S) <= Cardinality(T)
<1>. DEFINE Of(key) == CHOOSE row \in T : row.turn = key
           f == [key \in S |-> Of(key)]
<1>1. \A key \in S : Of(key) \in T /\ Of(key).turn = key
  OBVIOUS
<1>. HIDE DEF Of
<1>2. f \in [S -> T] /\ \A key \in S : f[key].turn = key
  BY <1>1
<1>. HIDE DEF f
<1>3. \A one, two \in S : f[one] = f[two] => one = two
  BY <1>2
<1>4. f \in Injection(S, T)
  BY <1>2, <1>3 DEF Injection, IsInjective
<1>. QED
  BY <1>4, FS_Injection

\* As many turns as are kept begin after its watermark.
LEMMA PlanIsKept ==
  ASSUME HistoryInv, NEW all, IsRead(all)
  PROVE  Kept(Plan(all))
<1>1. Types /\ RowsAreProper /\ PlansAreKept
  BY DEF HistoryInv
<1>2. CASE Plan(all) = NoPlan
  BY <1>1, <1>2 DEF PlansAreKept, PlansSeen
<1>3. CASE Plan(all) # NoPlan
  <2>. DEFINE through == Plan(all).through
             older == Older(all, Keep)
  <2>1. through \in older
    BY <1>3, PlanParts
  <2>2. through \in Eligible(all) /\ Cardinality(Later(all, through)) >= Keep
    BY <2>1 DEF Older
  <2>. HIDE DEF through, older
  <2>3. PICK last \in Messages(all) : last.turn = through
    BY <2>2 DEF Eligible
  <2>4. all \subseteq Rows /\ \A row \in all : Proper(row)
    BY <1>1, SeenIs DEF IsRead
  <2>5. through \in Nat
    BY <2>3, <2>4, RowHas DEF Messages
  <2>. SUFFICES ASSUME NoStragglers
                PROVE  \/ \A row \in rows : row.tag = "user" => row.turn > through
                       \/ Cardinality(UsersAfter(through)) >= Keep
    BY DEF Kept, through
  <2>7. CASE \E row \in Messages(rows) : row.turn = through
    <3>1. PICK row \in Messages(rows) : row.turn = through
      BY <2>7
    <3>2. row \in Messages(all)
      BY <3>1 DEF Messages, IsRead
    <3>3. ASSUME NEW key \in Later(all, through)
          PROVE  \E user \in UsersAfter(through) : user.turn = key
      <4>1. PICK message \in Messages(all) : message.turn = key
        BY <3>3 DEF Later, Eligible
      <4>2. First(all, through) < First(all, key)
        BY <3>3 DEF Later
      <4>3. First(all, through) \in Nat /\ First(all, key) \in Nat /\ key \in Nat
        BY <2>3, <2>4, <4>1, FirstIs, RowHas DEF Messages
      <4>4. \E other \in Messages(rows) : other.turn = key
        <5>1. \/ \E other \in Messages(rows) : other.turn = key
              \/ /\ \A other \in rows : First(all, key) < other.seq
                 /\ key <= First(all, key)
          BY <4>1, TurnIsHereOrGone
        <5>2. PICK first \in Messages(rows) :
                first.seq = (IF through = 0 THEN 1 ELSE through)
          BY <3>1, OpenedIs
        <5>3. First(all, through) = (IF through = 0 THEN 1 ELSE through)
          BY <3>1, PlaceIs
        <5>. QED
          BY <4>2, <4>3, <5>1, <5>2, <5>3 DEF Messages
      <4>5. PICK other \in Messages(rows) : other.turn = key
        BY <4>4
      <4>6. First(all, key) <= First(all, through) <=> key <= through
        BY <2>3, <4>5, OrderIs
      <4>7. key > through
        BY <2>5, <4>2, <4>3, <4>6
      <4>8. PICK user \in Messages(rows) : user.tag = "user" /\ user.turn = key
        BY <2>5, <4>3, <4>5, <4>7, OpenedIs
      <4>. QED
        BY <4>7, <4>8 DEF UsersAfter, Messages
    <3>. DEFINE S == Later(all, through)
               T == UsersAfter(through)
    <3>4. \A key \in S : \E user \in T : user.turn = key
      BY <3>3
    <3>5. T \subseteq rows /\ IsFiniteSet(S) /\ Cardinality(S) >= Keep
      BY <2>2, LaterIsFinite DEF UsersAfter
    <3>. HIDE DEF S, T
    <3>6. IsFiniteSet(T)
      BY <1>1, <3>5, FS_Subset DEF Types
    <3>11. Cardinality(S) <= Cardinality(T)
      BY <3>4, <3>6, TurnsOf
    <3>12. Cardinality(S) \in Nat /\ Cardinality(T) \in Nat /\ Keep \in Nat
      BY <3>5, <3>6, FS_CardinalityType, HistoryAssumption
    <3>13. Cardinality(T) >= Keep
      BY <3>5, <3>11, <3>12
    <3>. QED
      BY <3>13 DEF T
  <2>8. CASE /\ \A row \in rows : First(all, through) < row.seq
             /\ through <= First(all, through)
    <3>1. First(all, through) \in Nat
      BY <2>3, <2>4, FirstIs
    <3>2. ASSUME NEW row \in rows, row.tag = "user" PROVE row.turn > through
      <4>1. row.turn = row.seq /\ row.seq \in Nat
        BY <1>1, <3>2, SeenIs, RowHas DEF Seen, Proper
      <4>. QED
        BY <2>5, <2>8, <3>1, <4>1
    <3>. QED
      BY <3>2
  <2>9. \/ \E row \in Messages(rows) : row.turn = through
        \/ /\ \A row \in rows : First(all, through) < row.seq
           /\ through <= First(all, through)
    BY <2>3, TurnIsHereOrGone
  <2>. QED
    BY <2>7, <2>8, <2>9
<1>. QED
  BY <1>2, <1>3

-----------------------------------------------------------------------------
(* The steps.                                                                *)

\* A handler's fields.
LEMMA ThreadHas ==
  ASSUME Types, NEW p \in Prompts
  PROVE  /\ turns[p] \in Threads /\ IsFiniteSet(turns[p].read)
         /\ turns[p].key \in Nat /\ turns[p].life \in Nat /\ turns[p].texts \in Nat
         /\ turns[p].read \subseteq Rows /\ turns[p].plan \in Plans
         /\ turns[p].read \subseteq Seen /\ turns[p].plan \in PlansSeen
<1>1. turns[p] \in Threads /\ IsFiniteSet(turns[p].read)
  BY DEF Types
<1>2. turns[p].read \subseteq Seen /\ turns[p].plan \in PlansSeen
  BY DEF Seen, PlansSeen
<1>. QED
  BY <1>1, <1>2 DEF Threads

\* A plan in sight is fit to be carried on.
LEMMA PlanSeenIsKept ==
  ASSUME HistoryInv, NEW plan, plan \in PlansSeen
  PROVE  /\ plan.through < next /\ (\A id \in plan.covers : Named(id))
         /\ Sound(plan) /\ Kept(plan)
  BY DEF HistoryInv, PlansAreKept

LEMMA InitHolds == Init => HistoryInv
<1>. SUFFICES ASSUME Init PROVE HistoryInv
  OBVIOUS
<1>. DEFINE n == Len(Legacy)
<1>1. n \in Nat /\ DOMAIN Legacy = 1..n
  BY HistoryAssumption
<1>2. /\ rows = Seeded /\ next = n + 1 /\ wipes = 0
      /\ turns = [p \in Prompts |-> NotStarted]
  BY DEF Init
<1>3. ASSUME NEW row \in rows
      PROVE  \E i \in 1..n : row = Row(i, Legacy[i], TurnOf(i), <<"legacy", i>>)
  BY <1>1, <1>2 DEF Seeded
<1>4. ASSUME NEW row \in rows
      PROVE  /\ row \in Rows /\ row.seq \in 1..n /\ row.tag = Legacy[row.seq]
             /\ row.turn = TurnOf(row.seq) /\ row.id = <<"legacy", row.seq>>
             /\ row.plan = NoPlan /\ row.life = 0
             /\ row = Row(row.seq, Legacy[row.seq], TurnOf(row.seq), <<"legacy", row.seq>>)
  <2>1. PICK i \in 1..n : row = Row(i, Legacy[i], TurnOf(i), <<"legacy", i>>)
    BY <1>3
  <2>. QED
    BY <2>1, SeedIs
<1>5. \A p \in Prompts : turns[p] = NotStarted
  BY <1>2
<1>6. /\ NotStarted.pc = "none" /\ NotStarted.read = {} /\ NotStarted.plan = NoPlan
      /\ NotStarted \in Threads
  BY PlansAre DEF NotStarted, Threads
<1>7. IsFiniteSet(rows)
  <2>. DEFINE f == [i \in 1..n |-> Row(i, Legacy[i], TurnOf(i), <<"legacy", i>>)]
  <2>1. f \in Surjection(1..n, rows)
    <3>1. \A i \in 1..n : f[i] \in rows
      BY <1>1, <1>2 DEF Seeded
    <3>2. \A row \in rows : \E i \in 1..n : f[i] = row
      BY <1>3
    <3>3. f \in [1..n -> rows]
      BY <3>1
    <3>. QED
      BY <3>2, <3>3 DEF Surjection
  <2>2. IsFiniteSet(1..n)
    BY <1>1, FS_Interval
  <2>. HIDE DEF f
  <2>. QED
    BY <2>1, <2>2, FS_Surjection
<1>. HIDE DEF n
<1>8. Types
  <2>1. turns \in [Prompts -> Threads]
    BY <1>2, <1>6
  <2>2. rows \subseteq Rows
    BY <1>4
  <2>3. \A p \in Prompts : IsFiniteSet(turns[p].read)
    BY <1>5, <1>6, FS_EmptySet
  <2>. QED
    BY <1>1, <1>2, <1>7, <2>1, <2>2, <2>3 DEF Types
<1>9. Seen = rows
  BY <1>5, <1>6 DEF Seen
<1>10. RowsAreProper
  <2>1. ASSUME NEW row \in rows PROVE Proper(row)
    <3>1. /\ row \in Rows /\ row.seq \in 1..n /\ row.tag = Legacy[row.seq]
          /\ row.turn = TurnOf(row.seq) /\ row.id = <<"legacy", row.seq>>
          /\ row.plan = NoPlan /\ row.life = 0
      BY <1>4
    <3>2. row.seq \in 1..Len(Legacy) /\ Legacy[row.seq] # "compaction"
      BY <1>1, <3>1, HistoryAssumption DEF n
    <3>3. TurnOf(row.seq) \in 0..row.seq /\ (Legacy[row.seq] = "user" => TurnOf(row.seq) = row.seq)
      BY <3>2, TurnOfIs
    <3>4. row.id[1] = "legacy" /\ row.id[2] = row.seq
      BY <3>1
    <3>. QED
      BY <1>1, <1>2, <3>1, <3>2, <3>3, <3>4 DEF Proper, Named, KeyOf, LifeOf
  <2>2. \A row, other \in rows : row.seq = other.seq => row = other
    <3>1. ASSUME NEW row \in rows, NEW other \in rows, row.seq = other.seq PROVE row = other
      <4>1. row = Row(row.seq, Legacy[row.seq], TurnOf(row.seq), <<"legacy", row.seq>>)
        BY <1>4
      <4>2. other = Row(other.seq, Legacy[other.seq], TurnOf(other.seq), <<"legacy", other.seq>>)
        BY <1>4
      <4>. QED
        BY <3>1, <4>1, <4>2
    <3>. QED
      BY <3>1
  <2>. QED
    BY <1>9, <2>1, <2>2 DEF RowsAreProper
<1>11. TurnsAreProper /\ TurnsAreOpened /\ ReadsAreInitial
  BY <1>2, <1>5, <1>6 DEF TurnsAreProper, TurnsAreOpened, ReadsAreInitial
<1>12. PlansAreKept
  <2>1. \A plan \in PlansSeen : plan = NoPlan
    BY <1>4, <1>5, <1>6, <1>9 DEF PlansSeen
  <2>2. ASSUME NEW row \in rows PROVE row.turn > -1
    <3>1. row.turn \in Nat
      BY <1>4, RowHas
    <3>. QED
      BY <3>1
  <2>3. Sound(NoPlan)
    <3>1. ASSUME NEW row \in rows PROVE ~(row.turn <= NoPlan.through) /\ row.id \notin NoPlan.covers
      <4>1. row.turn \in Nat
        BY <1>4, RowHas
      <4>. QED
        BY <4>1, PlansAre
    <3>. QED
      BY <3>1 DEF Sound, Messages
  <2>4. Kept(NoPlan)
    BY <2>2, PlansAre DEF Kept
  <2>5. NoPlan.through < next /\ \A id \in NoPlan.covers : Named(id)
    BY <1>1, <1>2, PlansAre
  <2>. QED
    BY <2>1, <2>3, <2>4, <2>5 DEF PlansAreKept
<1>. QED
  BY <1>8, <1>10, <1>11, <1>12 DEF HistoryInv

LEMMA BeginKeeps ==
  ASSUME HistoryInv, NEW p \in Prompts, Begin(p)
  PROVE  HistoryInv'
<1>1. /\ turns[p] \in Threads /\ turns[p].pc = "none" /\ turns[p].read = {}
      /\ turns[p].plan = NoPlan /\ NoPlan \in PlansSeen
  BY ThreadHas DEF HistoryInv, TurnsAreProper, Begin, PlansSeen
<1>2. PICK pc \in {"open", "scan"} : turns' = [turns EXCEPT ![p] = [turns[p] EXCEPT !.pc = pc]]
  BY DEF Begin, Becomes
<1>. DEFINE th == [turns[p] EXCEPT !.pc = pc]
<1>3. th \in Threads /\ th.pc = pc /\ th.read = {} /\ th.plan = NoPlan
  BY <1>1 DEF Threads
<1>4. turns' = [turns EXCEPT ![p] = th]
  BY <1>2
<1>5. UNCHANGED <<rows, next, wipes>>
  BY DEF Begin
<1>6. NoPlan.through < next /\ (\A id \in NoPlan.covers : Named(id)) /\ Sound(NoPlan) /\ Kept(NoPlan)
  BY <1>1, PlanSeenIsKept
<1>. HIDE DEF th
<1>7. IsFiniteSet(th.read) /\ th.read \subseteq Seen
  BY <1>3, FS_EmptySet
<1>. QED
  BY <1>1, <1>3, <1>4, <1>5, <1>6, <1>7, TurnMoves

LEMMA ScanKeeps ==
  ASSUME HistoryInv, NEW p \in Prompts, Scan(p)
  PROVE  HistoryInv'
<1>. DEFINE read == turns[p].read
           after == Max({0} \cup {row.seq : row \in read})
           page == PageAfter(after)
           all == read \cup page
<1>1. /\ Types /\ RowsAreProper /\ ReadsAreInitial
      /\ turns[p] \in Threads /\ turns[p].pc = "scan" /\ IsFiniteSet(read) /\ read \subseteq Seen
      /\ turns[p].plan = NoPlan /\ NoPlan \in PlansSeen
  BY ThreadHas DEF HistoryInv, TurnsAreProper, Scan, PlansSeen
<1>2. /\ after \in Nat
      /\ \A row \in read : row.seq <= after
      /\ \A row \in rows : row.seq <= after => row \in read
  BY CursorIs
<1>3. UNCHANGED <<rows, next, wipes>>
  BY DEF Scan
<1>4. \/ /\ Cardinality(page) = PageLimit
         /\ turns' = [turns EXCEPT ![p] = [turns[p] EXCEPT !.read = all]]
      \/ /\ Cardinality(page) # PageLimit
         /\ turns' = [turns EXCEPT ![p] =
              [turns[p] EXCEPT !.read = {}, !.plan = Plan(all),
                 !.pc = IF Plan(all) = NoPlan THEN "open" ELSE "summarise"]]
  BY DEF Scan, Becomes
<1>. HIDE DEF after
<1>5. /\ page \subseteq rows
      /\ \A row \in rows, shown \in page : after < row.seq /\ row.seq <= shown.seq => row \in page
      /\ Cardinality(page) # PageLimit => \A row \in rows : after < row.seq => row \in page
  BY <1>1, <1>2, PageIs
<1>. HIDE DEF page
<1>6. all \subseteq Seen /\ IsFiniteSet(all) /\ all \subseteq Rows
  <2>1. all \subseteq Seen
    BY <1>1, <1>5 DEF Seen
  <2>2. IsFiniteSet(page)
    BY <1>1, <1>5, FS_Subset DEF Types
  <2>3. IsFiniteSet(all)
    BY <1>1, <2>2, FS_Union
  <2>4. all \subseteq Rows
    BY <1>1, <2>1, SeenIs
  <2>. QED
    BY <2>1, <2>3, <2>4
<1>7. \A seen \in all : seen \in rows \/ \A row \in rows : seen.seq < row.seq
  BY <1>1, <1>5 DEF ReadsAreInitial
<1>8. \A row \in rows : row.seq \in Nat
  BY <1>1, RowHas DEF Types
<1>9. \A seen \in all, row \in rows : row.seq <= seen.seq => row \in all
  <2>. SUFFICES ASSUME NEW seen \in all, NEW row \in rows, row.seq <= seen.seq
                PROVE  row \in all
    OBVIOUS
  <2>1. CASE seen \in read
    BY <1>1, <2>1 DEF ReadsAreInitial
  <2>2. CASE seen \in page
    <3>1. row.seq <= after \/ after < row.seq
      BY <1>2, <1>8
    <3>. QED
      BY <1>2, <1>5, <2>2, <3>1
  <2>. QED
    BY <2>1, <2>2
<1>10. CASE /\ Cardinality(page) = PageLimit
            /\ turns' = [turns EXCEPT ![p] = [turns[p] EXCEPT !.read = all]]
  <2>. DEFINE th == [turns[p] EXCEPT !.read = all]
  <2>. HIDE DEF all
  <2>1. th \in Threads /\ th.pc = "scan" /\ th.read = all /\ th.plan = NoPlan
    BY <1>1, <1>6 DEF Threads
  <2>2. turns' = [turns EXCEPT ![p] = th]
    BY <1>10
  <2>3. NoPlan.through < next /\ (\A id \in NoPlan.covers : Named(id)) /\ Sound(NoPlan) /\ Kept(NoPlan)
    BY <1>1, PlanSeenIsKept
  <2>. HIDE DEF th
  <2>4. turns[p].pc # "live" /\ th.pc # "live" /\ IsFiniteSet(th.read) /\ th.read \subseteq Seen
    BY <1>1, <1>6, <2>1
  <2>5. \A seen \in th.read :
          /\ seen \in rows \/ \A row \in rows : seen.seq < row.seq
          /\ \A row \in rows : row.seq <= seen.seq => row \in th.read
    BY <1>7, <1>9, <2>1
  <2>. QED
    BY <1>3, <2>1, <2>2, <2>3, <2>4, <2>5, TurnMoves
<1>11. CASE /\ Cardinality(page) # PageLimit
            /\ turns' = [turns EXCEPT ![p] =
                 [turns[p] EXCEPT !.read = {}, !.plan = Plan(all),
                    !.pc = IF Plan(all) = NoPlan THEN "open" ELSE "summarise"]]
  <2>. DEFINE plan == Plan(all)
             pc == IF plan = NoPlan THEN "open" ELSE "summarise"
             th == [turns[p] EXCEPT !.read = {}, !.plan = plan, !.pc = pc]
  <2>1. rows \subseteq all
    <3>1. \A row \in rows : row.seq <= after \/ after < row.seq
      BY <1>2, <1>8
    <3>. QED
      BY <1>2, <1>5, <1>11, <3>1
  <2>2. turns' = [turns EXCEPT ![p] = th]
    BY <1>11
  <2>. HIDE DEF all
  <2>3. IsRead(all)
    BY <1>6, <1>7, <2>1 DEF IsRead
  <2>4. /\ plan \in Plans /\ plan.through < next /\ (\A id \in plan.covers : Named(id))
        /\ Sound(plan) /\ Kept(plan)
    BY <1>6, <2>3, PlanIsNamed, PlanIsSound, PlanIsKept
  <2>. HIDE DEF plan
  <2>5. pc \in {"open", "summarise"} /\ (pc # "summarise" => plan = NoPlan)
    OBVIOUS
  <2>. HIDE DEF pc
  <2>6. th \in Threads /\ th.pc = pc /\ th.read = {} /\ th.plan = plan
    BY <1>1, <2>4, <2>5 DEF Threads
  <2>. HIDE DEF th
  <2>7. /\ turns[p].pc # "live" /\ th.pc # "live" /\ IsFiniteSet(th.read) /\ th.read \subseteq Seen
        /\ th.pc # "summarise" => th.plan = NoPlan
    BY <1>1, <2>5, <2>6, FS_EmptySet
  <2>8. /\ th.plan.through < next /\ (\A id \in th.plan.covers : Named(id))
        /\ Sound(th.plan) /\ Kept(th.plan)
    BY <2>4, <2>6
  <2>. QED
    BY <1>3, <2>2, <2>6, <2>7, <2>8, TurnMoves
<1>. QED
  BY <1>4, <1>10, <1>11

LEMMA CompactKeeps ==
  ASSUME HistoryInv, NEW p \in Prompts, Compact(p)
  PROVE  HistoryInv'
<1>a. PICK th : th = [turns[p] EXCEPT !.pc = "open", !.plan = NoPlan]
  OBVIOUS
<1>b. PICK plan : plan = turns[p].plan
  OBVIOUS
<1>c. PICK id : id = <<p, -1>>
  OBVIOUS
<1>d. PICK new : new = [Row(next, "compaction", 0, id) EXCEPT !.plan = plan]
  OBVIOUS
<1>1. /\ Types /\ turns[p] \in Threads /\ turns[p].pc = "summarise" /\ turns[p].read = {}
      /\ plan \in Plans /\ plan \in PlansSeen /\ NoPlan \in PlansSeen /\ next \in Nat \ {0}
  BY <1>b, ThreadHas DEF HistoryInv, TurnsAreProper, Compact, PlansSeen, Types
<1>2. th \in Threads /\ th.pc = "open" /\ th.read = {} /\ th.plan = NoPlan
  BY <1>1, <1>a, PlansAre DEF Threads
<1>3. turns' = [turns EXCEPT ![p] = th] /\ wipes' = wipes
  BY <1>a DEF Compact, Becomes
<1>4. \/ rows' = rows \cup {new} /\ next' = next + 1
      \/ UNCHANGED <<rows, next>>
  BY <1>b, <1>c, <1>d DEF Compact, AppendRow
<1>5. CASE UNCHANGED <<rows, next>>
  <2>1. NoPlan.through < next /\ (\A i \in NoPlan.covers : Named(i)) /\ Sound(NoPlan) /\ Kept(NoPlan)
    BY <1>1, PlanSeenIsKept
  <2>2. IsFiniteSet(th.read) /\ th.read \subseteq Seen
    BY <1>2, FS_EmptySet
  <2>. QED
    BY <1>1, <1>2, <1>3, <1>5, <2>1, <2>2, TurnMoves
<1>6. CASE rows' = rows \cup {new} /\ next' = next + 1
  <2>1. next > 0 /\ id \in Ids
    BY <1>1, <1>c, IdsAre
  <2>2. /\ new \in Rows /\ new.seq = next /\ new.tag = "compaction" /\ new.turn = 0
        /\ new.plan = plan
    BY <1>1, <1>d, <2>1 DEF Row, Rows
  <2>3. ~IsMessage(new) /\ new.tag # "user" /\ new.turn <= next
    BY <1>1, <2>2 DEF IsMessage
  <2>. QED
    BY <1>1, <1>2, <1>3, <1>6, <2>2, <2>3, RowAdded
<1>. QED
  BY <1>4, <1>5, <1>6

LEMMA OpenTurnKeeps ==
  ASSUME HistoryInv, NEW p \in Prompts, OpenTurn(p)
  PROVE  HistoryInv'
<1>a. PICK th : th = [turns[p] EXCEPT !.pc = "live", !.key = next, !.life = wipes]
  OBVIOUS
<1>b. PICK id : id = <<p, 0>>
  OBVIOUS
<1>c. PICK new : new = [Row(next, "user", next, id) EXCEPT !.life = wipes]
  OBVIOUS
<1>1. /\ Types /\ RowsAreProper /\ turns[p] \in Threads /\ turns[p].pc = "open" /\ turns[p].read = {}
      /\ turns[p].plan = NoPlan /\ next \in Nat \ {0} /\ wipes \in Nat /\ turns[p].texts \in Nat
      /\ turns \in [Prompts -> Threads]
  BY ThreadHas DEF HistoryInv, TurnsAreProper, OpenTurn, Types
<1>2. th \in Threads /\ th.pc = "live" /\ th.read = {} /\ th.plan = NoPlan /\ th.key = next
      /\ th.life = wipes /\ th.texts = turns[p].texts
  BY <1>1, <1>a DEF Threads
<1>3. turns' = [turns EXCEPT ![p] = th] /\ wipes' = wipes /\ rows' = rows \cup {new} /\ next' = next + 1
  BY <1>a, <1>b, <1>c DEF OpenTurn, Becomes, AppendRow
<1>4. next > 0 /\ id \in Ids /\ p # "legacy" /\ id[1] = p /\ id[2] = 0
  BY <1>1, <1>b, IdsAre
<1>5. ~Named(id)
  BY <1>1, <1>4 DEF Named
<1>6. /\ new \in Rows /\ new.seq = next /\ new.tag = "user" /\ new.turn = next /\ new.id = id
      /\ new.plan = NoPlan /\ new.life = wipes
  BY <1>1, <1>4, <1>c, PlansAre DEF Row, Rows
<1>7. turns'[p] = th
  BY <1>1, <1>3
<1>8. Named(new.id)' /\ new.turn = KeyOf(new.id)' /\ new.life = LifeOf(new.id)'
  BY <1>1, <1>2, <1>4, <1>6, <1>7 DEF Named, KeyOf, LifeOf
<1>9. Opened(th.key)'
  BY <1>2, <1>3, <1>6 DEF Opened
<1>10. ASSUME NEW plan \in PlansSeen PROVE new.turn > plan.through /\ new.id \notin plan.covers
  <2>1. plan.through < next /\ (\A i \in plan.covers : Named(i)) /\ plan.through \in Int
    BY <1>1, PlanSeenIsKept, PlansSeenAre
  <2>. QED
    BY <1>1, <1>5, <1>6, <2>1
<1>11. th.key \in 1..next /\ new.turn <= next /\ th.life <= wipes
  BY <1>1, <1>2, <1>4, <1>6
<1>. QED
  BY <1>1, <1>2, <1>3, <1>6, <1>8, <1>9, <1>10, <1>11, RowAdded

LEMMA TextKeeps ==
  ASSUME HistoryInv, NEW p \in Prompts, Text(p)
  PROVE  HistoryInv'
<1>. DEFINE k == turns[p].texts
           key == turns[p].key
           life == turns[p].life
           late == Overtaken(key)
<1>a. PICK th : th = [turns[p] EXCEPT !.texts = k + 1]
  OBVIOUS
<1>b. PICK id : id = <<p, k + 1>>
  OBVIOUS
<1>c. PICK new : new = [Row(next, "text", key, id) EXCEPT !.life = life, !.late = late]
  OBVIOUS
<1>1. /\ Types /\ RowsAreProper /\ turns[p] \in Threads /\ turns[p].pc = "live" /\ turns[p].read = {}
      /\ turns[p].plan = NoPlan /\ next \in Nat /\ wipes \in Nat /\ k \in Nat
      /\ turns \in [Prompts -> Threads] /\ key \in Nat /\ life \in Nat
      /\ key \in 1..(next - 1) /\ life <= wipes
  BY ThreadHas DEF HistoryInv, TurnsAreProper, Text, Types
<1>2. th \in Threads /\ th.pc = "live" /\ th.read = {} /\ th.plan = NoPlan /\ th.key = key
      /\ th.life = life /\ th.texts = k + 1
  BY <1>1, <1>a DEF Threads
<1>3. turns' = [turns EXCEPT ![p] = th] /\ wipes' = wipes /\ rows' = rows \cup {new} /\ next' = next + 1
  <2>1. rows' = rows \cup {new} /\ next' = next + 1 /\ wipes' = wipes
    BY <1>b, <1>c DEF Text, AppendRow
  <2>2. turns' = [turns EXCEPT ![p] = th]
    BY <1>a DEF Text, Becomes
  <2>. QED
    BY <2>1, <2>2
<1>4. id \in Ids /\ p # "legacy" /\ id[1] = p /\ id[2] = k + 1
  BY <1>1, <1>b, IdsAre
<1>5. ~Named(id)
  BY <1>1, <1>4 DEF Named
<1>6. late \in BOOLEAN
  BY DEF Overtaken
<1>7. ~late =>
        /\ \A row \in rows : row.tag = "compaction" => ~(key <= row.plan.through)
        /\ \A q \in Prompts : turns[q].pc = "summarise" => ~(key <= turns[q].plan.through)
  BY DEF Overtaken
<1>. HIDE DEF late
<1>8. /\ new \in Rows /\ new.seq = next /\ new.tag = "text" /\ new.turn = key /\ new.id = id
      /\ new.plan = NoPlan /\ new.life = life /\ new.late = late
  <2>1. next \in Nat \ {0}
    BY <1>1
  <2>. QED
    BY <1>1, <1>4, <1>6, <1>c, <2>1, PlansAre DEF Row, Rows
<1>9. turns'[p] = th
  BY <1>1, <1>3
<1>10. Named(new.id)' /\ new.turn = KeyOf(new.id)' /\ new.life = LifeOf(new.id)'
  <2>1. k + 1 \in 0..(k + 1)
    BY <1>1
  <2>. QED
    BY <1>1, <1>2, <1>4, <1>8, <1>9, <2>1 DEF Named, KeyOf, LifeOf
<1>11. th.life = wipes => Opened(key) /\ Opened(th.key)'
  <2>1. th.life = wipes => Opened(key)
    BY <1>1, <1>2 DEF HistoryInv, TurnsAreOpened
  <2>2. Opened(key) => Opened(th.key)'
    BY <1>2, <1>3 DEF Opened
  <2>. QED
    BY <2>1, <2>2
<1>12. NoStragglers' => new.life = wipes
  <2>1. new \in Messages(rows)'
    BY <1>3, <1>8 DEF Messages, IsMessage
  <2>. QED
    BY <1>3, <2>1 DEF NoStragglers
<1>13. ASSUME NEW plan \in PlansSeen, NoStragglers', ~new.late
       PROVE  new.turn > plan.through /\ new.id \notin plan.covers
  <2>1. plan.through < next /\ (\A i \in plan.covers : Named(i)) /\ plan.through \in Int
    BY <1>1, PlanSeenIsKept, PlansSeenAre
  <2>2. CASE plan = NoPlan
    BY <1>1, <1>8, <2>2, PlansAre
  <2>3. ASSUME NEW q \in Prompts, plan = turns[q].plan, plan # NoPlan
        PROVE  key > plan.through
    <3>1. turns[q].pc = "summarise"
      BY <2>3 DEF HistoryInv, TurnsAreProper
    <3>2. ~(key <= plan.through)
      BY <1>7, <1>8, <1>13, <2>3, <3>1
    <3>. QED
      BY <1>1, <2>1, <3>2
  <2>4. ASSUME NEW row \in Seen, plan = row.plan, plan # NoPlan
        PROVE  key > plan.through
    <3>1. row \in Rows /\ row.tag = "compaction" /\ plan.through < row.seq /\ row.seq \in Nat
      BY <1>1, <2>4, SeenIs, RowHas DEF Proper
    <3>2. CASE row \in rows
      <4>1. ~(key <= plan.through)
        BY <1>7, <1>8, <1>13, <2>4, <3>1, <3>2
      <4>. QED
        BY <1>1, <2>1, <4>1
    <3>3. CASE row \notin rows
      <4>1. PICK q \in Prompts : row \in turns[q].read
        BY <2>4, <3>3 DEF Seen
      <4>2. \A other \in rows : row.seq < other.seq
        BY <3>3, <4>1 DEF HistoryInv, ReadsAreInitial
      <4>3. Opened(key)
        BY <1>2, <1>8, <1>11, <1>12, <1>13
      <4>4. PICK user \in rows : user.seq = key
        BY <4>3 DEF Opened
      <4>. QED
        BY <1>1, <2>1, <3>1, <4>2, <4>4
    <3>. QED
      BY <3>2, <3>3
  <2>5. key > plan.through
    <3>1. NoPlan.through = -1
      BY PlansAre
    <3>. QED
      BY <1>1, <2>2, <2>3, <2>4, <3>1 DEF PlansSeen
  <2>. QED
    BY <1>5, <1>8, <2>1, <2>5
<1>14. th.key \in 1..next /\ new.turn <= next /\ th.life <= wipes /\ k <= th.texts
  BY <1>1, <1>2, <1>8
<1>15. new.tag # "user" /\ turns[p].pc # "scan"
  BY <1>1, <1>8
<1>. QED
  BY <1>1, <1>2, <1>3, <1>8, <1>10, <1>11, <1>13, <1>14, <1>15, RowAdded

LEMMA WipeKeeps ==
  ASSUME HistoryInv, Wipe
  PROVE  HistoryInv'
<1>1. Types /\ RowsAreProper /\ TurnsAreProper /\ TurnsAreOpened /\ PlansAreKept
  BY DEF HistoryInv
<1>2. rows' = {} /\ next' = next /\ turns' = turns /\ wipes' = wipes + 1
  BY DEF Wipe
<1>3. wipes \in Nat
  BY <1>1 DEF Types
<1>4. Types'
  BY <1>1, <1>2, FS_EmptySet DEF Types
<1>5. Seen' \subseteq Seen
  BY <1>2 DEF Seen
<1>6. Steady
  <2>. SUFFICES ASSUME NEW q \in Prompts, turns[q].pc = "live"
                PROVE  /\ turns'[q].pc = "live" /\ turns'[q].key = turns[q].key
                       /\ turns'[q].life = turns[q].life /\ turns[q].texts <= turns'[q].texts
    BY DEF Steady
  <2>1. turns[q].texts \in Nat
    BY <1>1, ThreadHas
  <2>. QED
    BY <1>2, <2>1
<1>7. RowsAreProper'
  <2>1. next <= next'
    BY <1>1, <1>2 DEF Types
  <2>2. \A row \in Seen : Proper(row)'
    BY <1>1, <1>4, <1>6, <2>1, ProperStays
  <2>. QED
    BY <1>2, <1>5, <2>2 DEF RowsAreProper
<1>8. TurnsAreProper'
  <2>. SUFFICES ASSUME NEW q \in Prompts
                PROVE  /\ turns'[q].pc = "live" =>
                            turns'[q].key \in 1..(next' - 1) /\ turns'[q].life <= wipes'
                       /\ turns'[q].pc # "scan" => turns'[q].read = {}
                       /\ turns'[q].pc # "summarise" => turns'[q].plan = NoPlan
    BY DEF TurnsAreProper
  <2>1. turns[q].life \in Nat
    BY <1>1, ThreadHas
  <2>. QED
    BY <1>1, <1>2, <1>3, <2>1 DEF TurnsAreProper
<1>9. TurnsAreOpened'
  <2>1. ASSUME NEW q \in Prompts PROVE turns[q].pc = "live" => turns[q].life # wipes + 1
    BY <1>1, <1>3, ThreadHas DEF TurnsAreProper
  <2>. QED
    BY <1>2, <1>3, <2>1 DEF TurnsAreOpened
<1>10. ReadsAreInitial'
  BY <1>2 DEF ReadsAreInitial
<1>11. PlansAreKept'
  <2>1. PlansSeen' \subseteq PlansSeen
    BY <1>2, <1>5 DEF PlansSeen
  <2>. SUFFICES ASSUME NEW plan \in PlansSeen
                PROVE  /\ plan.through < next'
                       /\ \A id \in plan.covers : Named(id)'
                       /\ Sound(plan)' /\ Kept(plan)'
    BY <2>1 DEF PlansAreKept
  <2>2. /\ plan.through < next /\ plan.covers \subseteq Ids
        /\ \A id \in plan.covers : Named(id)
    BY <1>1, PlansSeenAre DEF PlansAreKept
  <2>3. \A id \in plan.covers : Named(id)'
    BY <1>1, <1>4, <1>6, <2>2, NamesStay
  <2>4. Sound(plan)' /\ Kept(plan)'
    BY <1>2 DEF Sound, Kept, Messages
  <2>. QED
    BY <1>2, <2>2, <2>3, <2>4
<1>. QED
  BY <1>4, <1>7, <1>8, <1>9, <1>10, <1>11 DEF HistoryInv

LEMMA NextKeeps == HistoryInv /\ [Next]_vars => HistoryInv'
<1>. SUFFICES ASSUME HistoryInv, [Next]_vars PROVE HistoryInv'
  OBVIOUS
<1>1. ASSUME NEW p \in Prompts, Begin(p) PROVE HistoryInv'
  BY <1>1, BeginKeeps
<1>2. ASSUME NEW p \in Prompts, Scan(p) PROVE HistoryInv'
  BY <1>2, ScanKeeps
<1>3. ASSUME NEW p \in Prompts, Compact(p) PROVE HistoryInv'
  BY <1>3, CompactKeeps
<1>4. ASSUME NEW p \in Prompts, OpenTurn(p) PROVE HistoryInv'
  BY <1>4, OpenTurnKeeps
<1>5. ASSUME NEW p \in Prompts, Text(p) PROVE HistoryInv'
  BY <1>5, TextKeeps
<1>6. CASE Wipe
  BY <1>6, WipeKeeps
<1>7. CASE UNCHANGED vars
  <2>1. rows' = rows /\ next' = next /\ turns' = turns /\ wipes' = wipes
    BY <1>7 DEF vars
  <2>2. Types' /\ Seen' = Seen /\ PlansSeen' = PlansSeen
    BY <2>1 DEF HistoryInv, Types, Seen, PlansSeen
  <2>3. RowsAreProper'
    BY <2>1, <2>2 DEF HistoryInv, RowsAreProper, Proper, Named, KeyOf, LifeOf
  <2>4. TurnsAreProper' /\ TurnsAreOpened' /\ ReadsAreInitial'
    BY <2>1 DEF HistoryInv, TurnsAreProper, TurnsAreOpened, Opened, ReadsAreInitial
  <2>5. PlansAreKept'
    <3>. SUFFICES ASSUME NEW plan \in PlansSeen
                  PROVE  /\ plan.through < next'
                         /\ \A id \in plan.covers : Named(id)'
                         /\ Sound(plan)' /\ Kept(plan)'
      BY <2>2 DEF PlansAreKept
    <3>1. /\ plan.through < next /\ (\A id \in plan.covers : Named(id))
          /\ Sound(plan) /\ Kept(plan)
      BY PlanSeenIsKept
    <3>2. \A id \in plan.covers : Named(id)'
      BY <2>1, <3>1 DEF Named
    <3>3. Sound(plan)' /\ Kept(plan)'
      BY <2>1, <3>1 DEF Sound, Kept, NoStragglers, Messages, UsersAfter
    <3>. QED
      BY <2>1, <3>1, <3>2, <3>3
  <2>. QED
    BY <2>2, <2>3, <2>4, <2>5 DEF HistoryInv
<1>. QED
  BY <1>1, <1>2, <1>3, <1>4, <1>5, <1>6, <1>7 DEF Next

\* The rows, the handlers and the plans they carry are what the migration, the
\* pages and the summaries make of them (Agent.ts, Compaction.ts, JournalRead.ts).
THEOREM HistoryIsProper == Spec => []HistoryInv
<1>1. Init => HistoryInv
  BY InitHolds
<1>2. HistoryInv /\ [Next]_vars => HistoryInv'
  BY NextKeeps
<1>. QED
  BY <1>1, <1>2, PTL DEF Spec

-----------------------------------------------------------------------------
(* What the model is shown.                                                  *)

\* The last compaction of the journal is a plan in sight, and the messages
\* beyond its watermark are served word for word.
LEMMA HistoryIs ==
  ASSUME HistoryInv
  PROVE  /\ Latest(rows) \in PlansSeen
         /\ \A row \in Messages(rows) :
              row.id \in Verbatim(rows) <=> row.turn > Latest(rows).through
<1>1. Types /\ RowsAreProper /\ next \in Nat /\ rows \subseteq Rows
  BY DEF HistoryInv, Types
<1>2. \A row \in rows : row \in Seen /\ Proper(row) /\ row.seq <= next
  <2>. SUFFICES ASSUME NEW row \in rows PROVE row \in Seen /\ Proper(row) /\ row.seq <= next
    OBVIOUS
  <2>1. row \in Seen
    BY DEF Seen
  <2>2. Proper(row) /\ row.seq \in Nat /\ row.seq < next
    BY <1>1, <2>1, SeenIs, RowHas DEF Proper
  <2>. QED
    BY <1>1, <2>1, <2>2
<1>3. Latest(rows) \in PlansSeen
  <2>1. Latest(rows) \in {NoPlan} \cup {row.plan : row \in rows}
    BY <1>1, <1>2, LatestIs
  <2>. QED
    BY <1>2, <2>1 DEF PlansSeen
<1>4. ASSUME NEW row \in Messages(rows)
      PROVE  row.id \in Verbatim(rows) <=> row.turn > Latest(rows).through
  <2>1. row.id \in Verbatim(rows) <=> row.turn \in Eligible(rows)
    BY <1>1, <1>2, MessagesAre DEF Verbatim
  <2>2. row.turn \in Eligible(rows) <=> row.turn > Latest(rows).through
    BY DEF Eligible
  <2>. QED
    BY <2>1, <2>2
<1>. QED
  BY <1>3, <1>4

\* However many requests compact the journal at once, page by page, and however
\* it is reset under them, a message is served word for word or through the
\* summary, and not both (Compaction.ts planCompaction; Agent.ts history).
THEOREM MessagesAreServedOnce == Spec => []ServedOnce
<1>1. HistoryInv => ServedOnce
  <2>. SUFFICES ASSUME HistoryInv, NoStragglers, NEW row \in Messages(rows), ~row.late
                PROVE  ~(row.id \in Verbatim(rows) <=> row.id \in Summarised(rows))
    BY DEF ServedOnce
  <2>1. /\ Latest(rows) \in PlansSeen
        /\ row.id \in Verbatim(rows) <=> row.turn > Latest(rows).through
    BY HistoryIs
  <2>2. Sound(Latest(rows)) /\ Latest(rows).through \in Int
    BY <2>1, PlanSeenIsKept, PlansSeenAre DEF HistoryInv
  <2>3. row.turn <= Latest(rows).through <=> row.id \in Summarised(rows)
    BY <2>2 DEF Sound, Summarised
  <2>4. row.turn \in Nat
    BY RowHas DEF HistoryInv, Types, Messages
  <2>. QED
    BY <2>1, <2>2, <2>3, <2>4
<1>. QED
  BY <1>1, HistoryIsProper, PTL

\* The last turns are served word for word (Compaction.ts KEEP_RECENT_TURNS).
THEOREM RecentTurnsStay == Spec => []RecentStayVerbatim
<1>1. HistoryInv => RecentStayVerbatim
  <2>. DEFINE users == {row \in rows : row.tag = "user"}
  <2>. SUFFICES ASSUME HistoryInv, NoStragglers, NEW row \in users,
                       Cardinality({other \in users : other.seq > row.seq}) < Keep
                PROVE  row.id \in Verbatim(rows)
    BY DEF RecentStayVerbatim
  <2>. DEFINE after == {other \in users : other.seq > row.seq}
             through == Latest(rows).through
  <2>1. /\ Latest(rows) \in PlansSeen /\ row \in Messages(rows)
        /\ row.id \in Verbatim(rows) <=> row.turn > through
    BY HistoryIs DEF Messages, IsMessage
  <2>2. Kept(Latest(rows)) /\ through \in Int
    BY <2>1, PlanSeenIsKept, PlansSeenAre DEF HistoryInv
  <2>3. \A user \in users : user.turn = user.seq /\ user.seq \in Nat
    <3>. SUFFICES ASSUME NEW user \in users PROVE user.turn = user.seq /\ user.seq \in Nat
      OBVIOUS
    <3>1. user \in Seen
      BY DEF Seen
    <3>. QED
      BY <3>1, SeenIs, RowHas DEF HistoryInv, Proper
  <2>. HIDE DEF through
  <2>4. SUFFICES ASSUME row.turn <= through PROVE FALSE
    BY <2>1, <2>2, <2>3
  <2>5. Cardinality(UsersAfter(through)) >= Keep
    BY <2>2, <2>3, <2>4 DEF Kept, through
  <2>6. UsersAfter(through) \subseteq after
    BY <2>2, <2>3, <2>4 DEF UsersAfter
  <2>7. IsFiniteSet(after)
    <3>1. after \subseteq rows /\ IsFiniteSet(rows)
      BY DEF HistoryInv, Types
    <3>. HIDE DEF after
    <3>. QED
      BY <3>1, FS_Subset
  <2>8. Cardinality(after) < Keep
    OBVIOUS
  <2>. HIDE DEF after
  <2>9. Cardinality(UsersAfter(through)) <= Cardinality(after) /\ IsFiniteSet(UsersAfter(through))
    BY <2>6, <2>7, FS_Subset
  <2>10. Cardinality(after) \in Nat /\ Cardinality(UsersAfter(through)) \in Nat /\ Keep \in Nat
    BY <2>7, <2>9, FS_CardinalityType, HistoryAssumption
  <2>. QED
    BY <2>5, <2>8, <2>9, <2>10
<1>. QED
  BY <1>1, HistoryIsProper, PTL
=============================================================================
