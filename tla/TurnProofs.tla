------------------------------ MODULE TurnProofs ------------------------------
(***************************************************************************)
(* What each step of a turn's drivers does, type correctness, that a call  *)
(* is answered once and text is journaled once, that a continuation's      *)
(* prompt has the call its approval is about, and that the journal passes  *)
(* verify-journal, for every number of requests, hops, calls, texts and    *)
(* faults; the last two in runs in which nothing but handlers fail.        *)
(***************************************************************************)
EXTENDS Turn, TLAPS, FiniteSetTheorems, WellFoundedInduction, NaturalsInduction, SequenceTheorems

\* A request whose driver has not begun its first hop.
Unstarted(drv) ==
  /\ drv.start = 0 /\ drv.hop = 0 /\ drv.made = 0 /\ drv.text = 0
  /\ drv.open = {} /\ drv.parts = {} /\ ~drv.parked /\ drv.knows

Begun ==
  \A d \in Drivers :
    /\ driver[d].pc \in Handling \cup {"none"} => Unstarted(driver[d])
    /\ driver[d].pc \in {"none", "opening"} => driver[d].answers = {}
    /\ driver[d].pc \in {"resolving", "reading"} => driver[d].turn \in Turns(journal)

HopsBounded == \E b \in Nat : \A s \in DOMAIN journal : journal[s].hop <= b

\* Type correctness, inductive.
TypeInv == TypeOK /\ HopsBounded /\ Begun

-----------------------------------------------------------------------------
(* Steps.  Every step gives one driver a new state and adds rows.            *)

Moves(d, new, rows) ==
  /\ driver' = [driver EXCEPT ![d] = new]
  /\ journal' = journal \o rows

\* What a row that is added is, and where it is found.
LEMMA Grown ==
  ASSUME journal \in Seq(RowType), NEW rows \in Seq(RowType), journal' = journal \o rows
  PROVE  /\ journal' \in Seq(RowType)
         /\ Len(journal) \in Nat /\ DOMAIN journal = 1 .. Len(journal)
         /\ DOMAIN journal \subseteq DOMAIN journal'
         /\ \A s \in DOMAIN journal : journal'[s] = journal[s]
         /\ \A s \in DOMAIN journal' \ DOMAIN journal :
              /\ s \in Nat /\ s > Len(journal)
              /\ s - Len(journal) \in DOMAIN rows /\ journal'[s] = rows[s - Len(journal)]
         /\ \A i \in DOMAIN rows :
              /\ Len(journal) + i \in DOMAIN journal' \ DOMAIN journal
              /\ journal'[Len(journal) + i] = rows[i]
<1>1. /\ Len(journal) \in Nat /\ DOMAIN journal = 1 .. Len(journal)
      /\ Len(rows) \in Nat /\ DOMAIN rows = 1 .. Len(rows)
  BY LenProperties
<1>2. /\ journal' \in Seq(RowType) /\ Len(journal') = Len(journal) + Len(rows)
      /\ \A i \in 1 .. Len(journal) + Len(rows) :
           journal'[i] = IF i <= Len(journal) THEN journal[i] ELSE rows[i - Len(journal)]
  BY ConcatProperties
<1>3. DOMAIN journal' = 1 .. Len(journal) + Len(rows)
  BY <1>1, <1>2, LenProperties
<1> QED
  BY <1>1, <1>2, <1>3

\* The same for one row.
LEMMA GrownByOne ==
  ASSUME journal \in Seq(RowType), NEW row \in RowType, journal' = journal \o <<row>>
  PROVE  /\ journal' \in Seq(RowType)
         /\ Len(journal) \in Nat /\ DOMAIN journal = 1 .. Len(journal)
         /\ DOMAIN journal' = DOMAIN journal \cup {Len(journal) + 1}
         /\ Len(journal) + 1 \notin DOMAIN journal
         /\ \A s \in DOMAIN journal : journal'[s] = journal[s] /\ s < Len(journal) + 1
         /\ journal'[Len(journal) + 1] = row
<1>1. <<row>> \in Seq(RowType) /\ Len(<<row>>) = 1 /\ <<row>>[1] = row
  OBVIOUS
<1>2. /\ journal' \in Seq(RowType) /\ Len(journal') = Len(journal) + 1
      /\ \A i \in 1 .. Len(journal) + 1 :
           journal'[i] = IF i <= Len(journal) THEN journal[i] ELSE <<row>>[i - Len(journal)]
  BY <1>1, ConcatProperties
<1>3. /\ Len(journal) \in Nat /\ DOMAIN journal = 1 .. Len(journal)
      /\ DOMAIN journal' = 1 .. Len(journal) + 1
  BY <1>2, LenProperties
<1>4. journal'[Len(journal) + 1] = row
  BY <1>1, <1>2, <1>3
<1> QED
  BY <1>2, <1>3, <1>4

LEMMA Unchanged ==
  ASSUME journal \in Seq(RowType)
  PROVE  journal \o << >> = journal /\ << >> \in Seq(RowType) /\ DOMAIN << >> = {}
  BY ConcatEmptySeq

\* The three outcomes of an append.
LEMMA AppendOutcomes ==
  ASSUME journal \in Seq(RowType), faults \subseteq Faults,
         NEW d \in Drivers, NEW rows, NEW answered, NEW failed, Appends(d, rows, answered, failed)
  PROVE  \/ Moves(d, answered, rows) /\ faults' = faults
         \/ /\ rows # << >>
            /\ Moves(d, failed, rows) \/ Moves(d, failed, << >>)
            /\ faults \subseteq faults' /\ faults' \subseteq Faults
            /\ faults' \cap {"lost", "refused"} # {}
<1>1. CASE journal' = journal \o rows /\ Set(d, answered) /\ UNCHANGED faults
  BY <1>1 DEF Moves, Set
<1>2. CASE rows # << >> /\ Fault("lost") /\ journal' = journal \o rows /\ Set(d, failed)
  BY <1>2 DEF Moves, Set, Fault
<1>3. CASE rows # << >> /\ Fault("refused") /\ UNCHANGED journal /\ Set(d, failed)
  BY <1>3, Unchanged DEF Moves, Set, Fault
<1> QED
  BY <1>1, <1>2, <1>3 DEF Appends

-----------------------------------------------------------------------------
(* The hop a continuation starts at.                                         *)

\* A set of numbers with a bound has a greatest one, if it has any.
LEMMA Greatest ==
  ASSUME NEW S, S \subseteq Nat, S # {}, NEW b \in Nat, \A n \in S : n <= b
  PROVE  \E m \in S : \A n \in S : n <= m
<1> DEFINE Gaps == {b - n : n \in S}
           Less == OpToRel(<, Nat)
<1>1. Gaps \subseteq Nat /\ Gaps # {}
  <2>1. \A n \in S : b - n \in Nat
    OBVIOUS
  <2> QED
    BY <2>1
<1>2. IsWellFoundedOn(Less, Nat)
  BY NatLessThanWellFounded, Zenon
<1>3. PICK g \in Gaps : \A h \in Gaps : ~(<<h, g>> \in Less)
  <2> HIDE DEF Gaps, Less
  <2> QED
    BY <1>1, <1>2, WFMin
<1>4. \A h \in Gaps : g <= h
  <2>1. \A m, n \in Nat : m < n => <<m, n>> \in Less
    BY Zenon DEF OpToRel
  <2>2. g \in Nat /\ \A h \in Gaps : h \in Nat
    BY <1>1
  <2> HIDE DEF Gaps, Less
  <2>3. ASSUME NEW h \in Gaps PROVE ~(h < g)
    <3>1. h < g => <<h, g>> \in Less
      BY <2>1, <2>2, Zenon
    <3> QED
      BY <1>3, <3>1, Zenon
  <2> QED
    BY <2>2, <2>3
<1>5. PICK m \in S : g = b - m
  OBVIOUS
<1>6. ASSUME NEW n \in S PROVE n <= m
  <2>1. b - n \in Gaps /\ n \in Nat /\ m \in Nat
    OBVIOUS
  <2> QED
    BY <1>4, <1>5, <2>1
<1> QED
  BY <1>6

LEMMA NextHopIsNext ==
  ASSUME journal \in Seq(RowType), HopsBounded, NEW turn
  PROVE  /\ NextHop(journal, turn) \in Nat
         /\ \A h \in HopsOf(journal, turn) : h < NextHop(journal, turn)
<1>0. \A s \in DOMAIN journal : journal[s].hop \in Nat
  <2>1. \A s \in DOMAIN journal : journal[s] \in RowType
    BY ElementOfSeq, LenProperties
  <2> QED
    BY <2>1 DEF RowType
<1>1. HopsOf(journal, turn) \subseteq Nat
  BY <1>0 DEF HopsOf, RowsOf
<1>2. PICK b \in Nat : \A h \in HopsOf(journal, turn) : h <= b
  BY DEF HopsBounded, HopsOf, RowsOf
<1>3. CASE HopsOf(journal, turn) = {}
  BY <1>3 DEF NextHop
<1>4. CASE HopsOf(journal, turn) # {}
  <2> DEFINE M == CHOOSE h \in HopsOf(journal, turn) : \A k \in HopsOf(journal, turn) : k <= h
  <2>1. M \in HopsOf(journal, turn) /\ \A k \in HopsOf(journal, turn) : k <= M
    BY <1>1, <1>2, <1>4, Greatest
  <2>2. NextHop(journal, turn) = 1 + M
    BY <1>4 DEF NextHop
  <2> HIDE DEF M
  <2> QED
    BY <1>1, <2>1, <2>2
<1> QED
  BY <1>3, <1>4

LEMMA SpendIsNat ==
  ASSUME journal \in Seq(RowType)
  PROVE  Spend(journal) \in Nat
<1>1. Len(journal) \in Nat /\ UsageRows(journal) \subseteq 1 .. Len(journal)
  BY DEF UsageRows
<1>2. Cardinality(UsageRows(journal)) \in Nat
  <2>1. 0 \in Int /\ 1 \in Int /\ Len(journal) \in Int
    BY <1>1
  <2>2. IsFiniteSet(1 .. Len(journal))
    BY <2>1, FS_Interval
  <2>3. IsFiniteSet(UsageRows(journal))
    BY <1>1, <2>2, FS_Subset
  <2> QED
    BY <2>3, FS_CardinalityType
<1>3. HopCost \in Nat
  BY TurnAssumption
<1> QED
  BY <1>2, <1>3 DEF Spend

-----------------------------------------------------------------------------
(* What becomes of a driver.                                                 *)

LEMMA IdleShape == Idle \in DriverType /\ Unstarted(Idle) /\ Idle.answers = {} /\ Idle.pc = "none"
  BY DEF Idle, DriverType, Unstarted, Handling, Driving, Resting

LEMMA FailsShape ==
  ASSUME NEW drv \in DriverType
  PROVE  /\ Fails(drv) \in DriverType
         /\ Fails(drv) = [drv EXCEPT !.pc = Fails(drv).pc]
         /\ Fails(drv).pc = IF drv.text = 0 THEN "erroring" ELSE "failing"
<1>1. CASE drv.text = 0
  BY <1>1 DEF Fails, DriverType, Driving
<1>2. CASE drv.text # 0
  BY <1>2 DEF Fails, DriverType, Driving
<1> QED
  BY <1>1, <1>2

LEMMA SettlesShape ==
  ASSUME NEW drv \in DriverType
  PROVE  /\ Settles(drv) \in DriverType
         /\ Settles(drv) = [drv EXCEPT !.pc = Settles(drv).pc]
         /\ Settles(drv).pc = IF drv.text = 0 THEN "over" ELSE "ending"
<1>1. CASE drv.text = 0
  BY <1>1 DEF Settles, DriverType, Driving, Resting
<1>2. CASE drv.text # 0
  BY <1>2 DEF Settles, DriverType, Driving, Resting
<1> QED
  BY <1>1, <1>2

\* The turn, and what the driver brought to it, stay.
SameTurn(drv, new) ==
  /\ new.turn = drv.turn /\ new.start = drv.start /\ new.opens = drv.opens
  /\ new.answers = drv.answers /\ new.knows = drv.knows

LEMMA EntersShape ==
  ASSUME NEW drv \in DriverType
  PROVE  LET new == EntersHop(drv) IN
         /\ new \in DriverType /\ SameTurn(drv, new)
         /\ new.hop = drv.hop /\ new.text = 0 /\ new.parked = drv.parked
         /\ \/ new.pc = "erroring" /\ new.made = drv.made
            \/ /\ new.pc = "streaming" /\ new.made = 0 /\ new.parts = {}
               /\ new.open = IF drv.hop = drv.start /\ drv.knows THEN drv.answers ELSE {}
<1> DEFINE first == IF drv.hop = drv.start /\ drv.knows THEN drv.answers ELSE {}
           broke == [drv EXCEPT !.text = 0, !.pc = "erroring"]
           hop == [drv EXCEPT !.pc = "streaming", !.text = 0, !.made = 0, !.parts = {}, !.open = first]
<1>1. first \subseteq Items
  BY DEF DriverType
<1>2. EntersHop(drv) = broke \/ EntersHop(drv) = hop
  <2>1. [drv EXCEPT !.text = 0] \in DriverType /\ [drv EXCEPT !.text = 0].text = 0
    BY DEF DriverType
  <2>2. Fails([drv EXCEPT !.text = 0]) = broke
    BY <2>1 DEF Fails
  <2> QED
    BY <2>2 DEF EntersHop
<1> HIDE DEF first
<1>3. /\ broke \in DriverType /\ SameTurn(drv, broke) /\ broke.hop = drv.hop /\ broke.text = 0
      /\ broke.parked = drv.parked /\ broke.pc = "erroring" /\ broke.made = drv.made
  BY DEF DriverType, Driving, SameTurn
<1>4. /\ hop \in DriverType /\ SameTurn(drv, hop) /\ hop.hop = drv.hop /\ hop.text = 0
      /\ hop.parked = drv.parked /\ hop.pc = "streaming" /\ hop.made = 0 /\ hop.parts = {}
      /\ hop.open = first
  BY <1>1 DEF DriverType, Driving, SameTurn
<1> HIDE DEF broke, hop
<1> QED
  BY <1>2, <1>3, <1>4 DEF first

LEMMA AfterShape ==
  ASSUME NEW drv \in DriverType, drv.pc = "streaming", drv.hop >= drv.start,
         NEW reason \in {"none", "stop", "tool-calls"}
  PROVE  LET new == AfterHop(drv, reason) IN
         /\ new \in DriverType /\ SameTurn(drv, new) /\ new.text = 0
         /\ \/ /\ new.pc \in {"over", "capped"}
               /\ new.hop = drv.hop /\ new.made = drv.made
            \/ /\ new.pc \in {"streaming", "erroring"} /\ new.hop = drv.hop + 1
               /\ new.hop < drv.start + MaxHops
               /\ new.pc = "streaming" => new.open = {}
<1> DEFINE after == Charged(drv, reason)
           next == [after EXCEPT !.hop = @ + 1]
<1>1. HopCost \in Nat
  BY TurnAssumption
<1>2. after = [drv EXCEPT !.text = 0, !.running = after.running] /\ after.running \in Nat
  BY <1>1 DEF Charged, DriverType
<1>3. after \in DriverType /\ SameTurn(drv, after) /\ after.text = 0 /\ after.hop = drv.hop
      /\ after.made = drv.made
  <2> DEFINE r == after.running
  <2>1. after = [drv EXCEPT !.text = 0, !.running = r] /\ r \in Nat
    BY <1>2
  <2> HIDE DEF r, after
  <2> QED
    BY <2>1 DEF DriverType, SameTurn
<1>4. next \in DriverType /\ SameTurn(after, next) /\ next.hop = after.hop + 1 /\ next.start = after.start
  BY <1>3 DEF DriverType, SameTurn
<1> HIDE DEF after, next
<1>5. CASE EndsTurn(drv, reason)
  <2>1. AfterHop(drv, reason) = Settles(after)
    BY <1>5 DEF AfterHop, after
  <2> QED
    BY <1>3, <2>1, SettlesShape DEF DriverType, SameTurn
<1>6. CASE ~EndsTurn(drv, reason) /\ drv.hop + 1 < drv.start + MaxHops
  <2>1. AfterHop(drv, reason) = EntersHop(next)
    BY <1>6 DEF AfterHop, after, next
  <2>2. next.hop # next.start
    BY <1>3, <1>4 DEF DriverType, SameTurn
  <2> QED
    BY <1>3, <1>4, <1>6, <2>1, <2>2, EntersShape DEF DriverType, SameTurn
<1>7. CASE ~EndsTurn(drv, reason) /\ ~(drv.hop + 1 < drv.start + MaxHops)
  <2>1. AfterHop(drv, reason) = [after EXCEPT !.pc = "capped"]
    BY <1>7 DEF AfterHop, after
  <2> QED
    BY <1>3, <2>1 DEF DriverType, Driving, SameTurn
<1> QED
  BY <1>5, <1>6, <1>7

-----------------------------------------------------------------------------
(* Type correctness.                                                         *)

\* What TypeInv says of one driver.
Fits(drv, turns) ==
  /\ drv.pc \in Handling \cup {"none"} => Unstarted(drv)
  /\ drv.pc \in {"none", "opening"} => drv.answers = {}
  /\ drv.pc \in Driving \cup {"resolving", "reading"} => drv.turn \in turns
  /\ drv.pc \in Driving => drv.hop \in drv.start .. drv.start + MaxHops - 1

LEMMA TypeInvFits ==
  ASSUME TypeInv
  PROVE  /\ journal \in Seq(RowType) /\ driver \in [Drivers -> DriverType]
         /\ streamed \subseteq Items /\ faults \subseteq Faults
         /\ \A s \in DOMAIN journal : journal[s] \in RowType /\ journal[s].turn \in Turns(journal)
         /\ \A d \in Drivers : Fits(driver[d], Turns(journal))
<1>1. \A s \in DOMAIN journal : journal[s] \in RowType
  BY ElementOfSeq, LenProperties DEF TypeInv, TypeOK
<1>2. \A d \in Drivers : Fits(driver[d], Turns(journal))
  BY DEF TypeInv, TypeOK, Begun, Fits
<1> QED
  BY <1>1, <1>2 DEF TypeInv, TypeOK

\* Rows of a driver that keep the journal well formed.
Fitting(rows, d, turns) ==
  \A i \in DOMAIN rows : /\ rows[i].by = d /\ rows[i].turn \in turns
                         /\ rows[i].hop \in {0, driver[d].hop}

LEMMA TurnsGrow ==
  ASSUME journal \in Seq(RowType), NEW rows \in Seq(RowType), journal' = journal \o rows
  PROVE  Turns(journal) \subseteq Turns(journal')
  BY Grown DEF Turns

LEMMA Stepping ==
  ASSUME TypeInv, NEW d \in Drivers, NEW new \in DriverType, NEW rows \in Seq(RowType),
         Moves(d, new, rows), Fitting(rows, d, Turns(journal')), Fits(new, Turns(journal')),
         streamed' \subseteq Items, faults' \subseteq Faults
  PROVE  TypeInv'
<1>1. /\ journal \in Seq(RowType) /\ driver \in [Drivers -> DriverType]
      /\ \A s \in DOMAIN journal : journal[s] \in RowType /\ journal[s].turn \in Turns(journal)
      /\ \A k \in Drivers : Fits(driver[k], Turns(journal))
  BY TypeInvFits
<1>2. journal' = journal \o rows
  BY DEF Moves
<1>3. /\ driver' \in [Drivers -> DriverType] /\ driver'[d] = new
      /\ \A k \in Drivers : k # d => driver'[k] = driver[k]
  BY <1>1 DEF Moves
<1>4. Turns(journal) \subseteq Turns(journal')
  BY <1>1, <1>2, TurnsGrow
<1>5. \A k \in Drivers : Fits(driver'[k], Turns(journal'))
  BY <1>1, <1>3, <1>4 DEF Fits
<1>6. \A s \in DOMAIN journal' : journal'[s].turn \in Turns(journal')
  <2>1. ASSUME NEW s \in DOMAIN journal' PROVE journal'[s].turn \in Turns(journal')
    <3>1. CASE s \in DOMAIN journal
      BY <1>1, <1>2, <1>4, <3>1, Grown
    <3>2. CASE s \notin DOMAIN journal
      BY <1>1, <1>2, <3>2, Grown DEF Fitting
    <3> QED
      BY <3>1, <3>2
  <2> QED
    BY <2>1
<1>7. HopsBounded'
  <2>1. PICK b \in Nat : \A s \in DOMAIN journal : journal[s].hop <= b
    BY DEF TypeInv, HopsBounded
  <2>2. driver[d].hop \in Nat
    BY <1>1 DEF DriverType
  <2>3. \A s \in DOMAIN journal : journal[s].hop \in Nat
    BY <1>1 DEF RowType
  <2>4. ASSUME NEW s \in DOMAIN journal' PROVE journal'[s].hop <= b + driver[d].hop
    <3>1. CASE s \in DOMAIN journal
      <4>1. journal'[s] = journal[s]
        BY <1>1, <1>2, <3>1, Grown
      <4> QED
        BY <2>1, <2>2, <2>3, <3>1, <4>1
    <3>2. CASE s \notin DOMAIN journal
      <4>1. journal'[s].hop \in {0, driver[d].hop}
        BY <1>1, <1>2, <3>2, Grown DEF Fitting
      <4> QED
        BY <2>1, <2>2, <4>1
    <3> QED
      BY <3>1, <3>2
  <2>5. b + driver[d].hop \in Nat
    BY <2>2
  <2> QED
    BY <2>4, <2>5 DEF HopsBounded
<1>8. journal' \in Seq(RowType)
  BY <1>1, <1>2, Grown
<1>9. TypeOK'
  BY <1>3, <1>5, <1>6, <1>8 DEF TypeOK, Fits
<1>10. Begun'
  BY <1>3, <1>5 DEF Begun, Fits
<1> QED
  BY <1>7, <1>9, <1>10 DEF TypeInv

\* A step that adds at most one row.
LEMMA OneRow ==
  ASSUME NEW type \in RowTypes, NEW turn \in Nat, NEW hop \in Nat, NEW ids \in SUBSET Items,
         NEW d \in Drivers
  PROVE  LET rows == <<Row(type, turn, hop, ids, d)>> IN
         /\ rows \in Seq(RowType) /\ rows # << >> /\ Len(rows) = 1 /\ DOMAIN rows = {1}
         /\ Row(type, turn, hop, ids, d) \in RowType /\ rows[1] = Row(type, turn, hop, ids, d)
         /\ \A turns : turn \in turns /\ hop \in {0, driver[d].hop} => Fitting(rows, d, turns)
<1>1. Row(type, turn, hop, ids, d) \in RowType
  BY DEF Row, RowType
<1>2. /\ Row(type, turn, hop, ids, d).by = d /\ Row(type, turn, hop, ids, d).turn = turn
      /\ Row(type, turn, hop, ids, d).hop = hop
  BY DEF Row
<1> DEFINE row == Row(type, turn, hop, ids, d)
<1> HIDE DEF row
<1>3. /\ <<row>> \in Seq(RowType) /\ <<row>> # << >> /\ Len(<<row>>) = 1
      /\ DOMAIN <<row>> = {1} /\ <<row>>[1] = row
  BY <1>1 DEF row
<1>4. \A turns : turn \in turns /\ hop \in {0, driver[d].hop} => Fitting(<<row>>, d, turns)
  BY <1>2, <1>3 DEF Fitting, row
<1> QED
  BY <1>1, <1>3, <1>4 DEF row

\* Rows of which each has a type of its own.
RowSet(rows) == {rows[i] : i \in DOMAIN rows}
Assorted(rows) ==
  rows \in Seq(RowType) /\ \A i, j \in DOMAIN rows : rows[i].type = rows[j].type => i = j

LEMMA RowSetOfFew == RowSet(<< >>) = {} /\ \A row : RowSet(<<row>>) = {row}
<1>1. RowSet(<< >>) = {}
  BY DEF RowSet
<1>2. ASSUME NEW row PROVE RowSet(<<row>>) = {row}
  <2>1. DOMAIN <<row>> = {1} /\ <<row>>[1] = row
    OBVIOUS
  <2> QED
    BY <2>1 DEF RowSet
<1> QED
  BY <1>1, <1>2

LEMMA AssortedGrows ==
  ASSUME NEW rows, Assorted(rows), NEW more, NEW row \in RowType, more \in {<< >>, <<row>>},
         \A r \in RowSet(rows) : r.type # row.type
  PROVE  Assorted(rows \o more) /\ RowSet(rows \o more) = RowSet(rows) \cup RowSet(more)
<1>1. rows \in Seq(RowType) /\ Len(rows) \in Nat /\ DOMAIN rows = 1 .. Len(rows)
  BY LenProperties DEF Assorted
<1>2. CASE more = << >>
  <2>1. rows \o more = rows /\ RowSet(more) = {}
    BY <1>1, <1>2 DEF RowSet
  <2> QED
    BY <2>1
<1>3. CASE more = <<row>>
  <2> DEFINE t == rows \o <<row>>
  <2>1. /\ t \in Seq(RowType) /\ Len(t) = Len(rows) + 1 /\ t[Len(rows) + 1] = row
        /\ \A i \in 1 .. Len(rows) : t[i] = rows[i]
    BY <1>1
  <2>2. DOMAIN t = 1 .. Len(rows) + 1
    BY <2>1, LenProperties
  <2>3. \A i \in DOMAIN rows : rows[i].type # row.type
    BY DEF RowSet
  <2> HIDE DEF t
  <2>4. Assorted(t)
    BY <1>1, <2>1, <2>2, <2>3 DEF Assorted
  <2>5. RowSet(t) = RowSet(rows) \cup {row}
    BY <1>1, <2>1, <2>2 DEF RowSet
  <2>6. RowSet(<<row>>) = {row}
    BY DEF RowSet
  <2> QED
    BY <1>3, <2>4, <2>5, <2>6 DEF t
<1> QED
  BY <1>2, <1>3

\* The rows of a hop's batch.
LEMMA BatchRows ==
  ASSUME NEW d \in Drivers, driver[d] \in DriverType, NEW reason \in {"none", "stop", "tool-calls"}
  PROVE  LET drv == driver[d]
             rows == HopBatch(d, reason)
             texts == {Item(d, drv.hop, n) : n \in 1 .. drv.text} IN
         /\ Assorted(rows)
         /\ RowSet(rows) \subseteq
              {Row("hop-messages", drv.turn, drv.hop, drv.parts, d),
               Row("assistant-text", drv.turn, drv.hop, texts, d),
               Row("usage", drv.turn, drv.hop, {}, d), Row("done", drv.turn, 0, {}, d)}
         /\ drv.parts # {} \/ drv.text > 0 =>
              Row("hop-messages", drv.turn, drv.hop, drv.parts, d) \in RowSet(rows)
         /\ drv.text > 0 => Row("assistant-text", drv.turn, drv.hop, texts, d) \in RowSet(rows)
         /\ drv.text = 0 => Row("assistant-text", drv.turn, drv.hop, texts, d) \notin RowSet(rows)
<1> DEFINE drv == driver[d]
           texts == {Item(d, drv.hop, n) : n \in 1 .. drv.text}
           M == Row("hop-messages", drv.turn, drv.hop, drv.parts, d)
           T == Row("assistant-text", drv.turn, drv.hop, texts, d)
           U == Row("usage", drv.turn, drv.hop, {}, d)
           D == Row("done", drv.turn, 0, {}, d)
           A == MessagesRow(d)
           B == TextRow(d)
           C == UsageRow(d, reason)
           E == IF EndsTurn(driver[d], reason) /\ reason # "none" /\ ~driver[d].parked
                THEN DoneRow(d) ELSE << >>
<1>1. /\ drv.turn \in Nat /\ drv.hop \in Nat /\ drv.text \in Nat
      /\ drv.parts \in SUBSET Items /\ texts \in SUBSET Items /\ {} \in SUBSET Items
  BY DEF DriverType, Items, Item
<1>2. M \in RowType /\ T \in RowType /\ U \in RowType /\ D \in RowType
  BY <1>1 DEF Row, RowType, RowTypes
<1>3. /\ M.type = "hop-messages" /\ T.type = "assistant-text" /\ U.type = "usage" /\ D.type = "done"
  BY DEF Row
<1>4. A = IF drv.parts = {} /\ drv.text = 0 THEN << >> ELSE <<M>>
  BY DEF MessagesRow
<1>5. B = IF drv.text = 0 THEN << >> ELSE <<T>>
  BY DEF TextRow
<1>6. C \in {<< >>, <<U>>}
  BY DEF UsageRow
<1>7. E \in {<< >>, <<D>>}
  BY DEF DoneRow
<1>8. HopBatch(d, reason) = A \o B \o C \o E
  BY DEF HopBatch
<1> HIDE DEF M, T, U, D, A, B, C, E, texts
<1>9. /\ RowSet(<< >>) = {} /\ RowSet(<<M>>) = {M} /\ RowSet(<<T>>) = {T}
      /\ RowSet(<<U>>) = {U} /\ RowSet(<<D>>) = {D}
  BY RowSetOfFew
<1>10. Assorted(A)
  <2>1. Assorted(<< >>)
    BY DEF Assorted
  <2>2. Assorted(<<M>>)
    BY <1>2 DEF Assorted
  <2> QED
    BY <1>4, <2>1, <2>2
<1>11. RowSet(A) \subseteq {M} /\ RowSet(B) \subseteq {T} /\ RowSet(C) \subseteq {U} /\ RowSet(E) \subseteq {D}
  BY <1>4, <1>5, <1>6, <1>7, <1>9
<1>12. Assorted(A \o B) /\ RowSet(A \o B) = RowSet(A) \cup RowSet(B)
  BY <1>2, <1>3, <1>5, <1>10, <1>11, AssortedGrows
<1>13. Assorted(A \o B \o C) /\ RowSet(A \o B \o C) = RowSet(A) \cup RowSet(B) \cup RowSet(C)
  <2>1. \A r \in RowSet(A \o B) : r.type # U.type
    BY <1>3, <1>11, <1>12
  <2> QED
    BY <1>2, <1>6, <1>12, <2>1, AssortedGrows
<1>14. /\ Assorted(HopBatch(d, reason))
       /\ RowSet(HopBatch(d, reason)) = RowSet(A) \cup RowSet(B) \cup RowSet(C) \cup RowSet(E)
  <2>1. \A r \in RowSet(A \o B \o C) : r.type # D.type
    BY <1>3, <1>11, <1>13
  <2> QED
    <3> DEFINE F == A \o B \o C
    <3>1. Assorted(F) /\ RowSet(F) = RowSet(A) \cup RowSet(B) \cup RowSet(C)
      BY <1>13
    <3>2. HopBatch(d, reason) = F \o E /\ \A r \in RowSet(F) : r.type # D.type
      BY <1>8, <2>1
    <3> HIDE DEF F
    <3> QED
      BY <1>2, <1>7, <3>1, <3>2, AssortedGrows
<1>15. ASSUME drv.parts # {} \/ drv.text > 0 PROVE M \in RowSet(A)
  <2>1. ~(drv.parts = {} /\ drv.text = 0)
    BY <1>1, <1>15
  <2>2. A = <<M>>
    BY <1>4, <2>1, Zenon
  <2> QED
    BY <1>9, <2>2
<1>16. ASSUME drv.text > 0 PROVE T \in RowSet(B)
  <2>1. ~(drv.text = 0)
    BY <1>1, <1>16
  <2>2. B = <<T>>
    BY <1>5, <2>1, Zenon
  <2> QED
    BY <1>9, <2>2
<1>17. drv.text = 0 => T \notin RowSet(HopBatch(d, reason))
  BY <1>3, <1>5, <1>9, <1>11, <1>14
<1> QED
  BY <1>11, <1>14, <1>15, <1>16, <1>17 DEF M, T, U, D, texts

\* A driver at work stays on its turn and its hop, or comes to rest.
LEMMA FitsOn ==
  ASSUME NEW drv, NEW new, NEW turns, NEW more, turns \subseteq more, Fits(drv, turns),
         \/ new.pc \in {"over", "dead"}
         \/ /\ drv.pc \in Driving /\ new.pc \in Driving \cup {"over", "dead"}
            /\ new.turn = drv.turn /\ new.start = drv.start /\ new.hop = drv.hop
  PROVE  Fits(new, more)
  BY DEF Fits, Driving, Handling

LEMMA NoRows ==
  ASSUME journal \in Seq(RowType)
  PROVE  /\ << >> \in Seq(RowType) /\ journal \o << >> = journal
         /\ \A d \in Drivers : \A turns : Fitting(<< >>, d, turns)
  BY Unchanged DEF Fitting

\* A step without rows, and one whose append went through or was lost.
LEMMA Quietly ==
  ASSUME TypeInv, NEW d \in Drivers, NEW new \in DriverType, Moves(d, new, << >>),
         Fits(new, Turns(journal)), streamed' \subseteq Items, faults' \subseteq Faults
  PROVE  TypeInv'
<1>1. journal \in Seq(RowType)
  BY TypeInvFits
<1>2. journal' = journal
  BY <1>1, NoRows DEF Moves
<1> QED
  BY <1>1, <1>2, NoRows, Stepping

LEMMA Appending ==
  ASSUME TypeInv, NEW d \in Drivers, NEW rows \in Seq(RowType),
         NEW answered \in DriverType, NEW failed \in DriverType, Appends(d, rows, answered, failed),
         \A turns : turns = Turns(journal \o rows) /\ Turns(journal) \subseteq turns =>
           Fitting(rows, d, turns) /\ Fits(answered, turns),
         Fits(failed, Turns(journal)), failed.pc \notin {"none", "opening"},
         streamed' \subseteq Items
  PROVE  TypeInv'
<1>1. journal \in Seq(RowType) /\ faults \subseteq Faults
  BY TypeInvFits
<1>2. CASE Moves(d, answered, rows) /\ faults' = faults
  <2>1. journal' = journal \o rows
    BY <1>2 DEF Moves
  <2>2. Fitting(rows, d, Turns(journal')) /\ Fits(answered, Turns(journal'))
    BY <1>1, <2>1, TurnsGrow
  <2> QED
    BY <1>1, <1>2, <2>2, Stepping
<1>3. CASE Moves(d, failed, rows) /\ faults' \subseteq Faults
  <2>1. journal' = journal \o rows
    BY <1>3 DEF Moves
  <2>2. Turns(journal) \subseteq Turns(journal') /\ Fitting(rows, d, Turns(journal'))
    BY <1>1, <2>1, TurnsGrow
  <2>3. Fits(failed, Turns(journal'))
    BY <2>2 DEF Fits
  <2> QED
    BY <1>3, <2>2, <2>3, Stepping
<1>4. CASE Moves(d, failed, << >>) /\ faults' \subseteq Faults
  BY <1>4, Quietly
<1> QED
  BY <1>1, <1>2, <1>3, <1>4, AppendOutcomes

LEMMA DriverTypes ==
  ASSUME TypeInv, NEW d \in Drivers
  PROVE  /\ driver[d] \in DriverType /\ Fits(driver[d], Turns(journal))
         /\ journal \in Seq(RowType) /\ faults \subseteq Faults /\ streamed \subseteq Items
  BY TypeInvFits

LEMMA FaultsAreKnown ==
  ASSUME faults \subseteq Faults, NEW kind, Fault(kind)
  PROVE  faults' \subseteq Faults
  BY DEF Fault

LEMMA SetsMove ==
  ASSUME journal \in Seq(RowType), NEW d, NEW new, Set(d, new), journal' = journal
  PROVE  Moves(d, new, << >>)
  BY Unchanged DEF Moves, Set

LEMMA TypeInit == Init => TypeInv
<1> SUFFICES ASSUME Init PROVE TypeInv
  OBVIOUS
<1>1. /\ journal = << >> /\ driver = [d \in Drivers |-> Idle] /\ streamed = {} /\ faults = {}
  BY DEF Init
<1>2. \A d \in Drivers : driver[d] = Idle
  BY <1>1
<1>3. journal \in Seq(RowType) /\ DOMAIN journal = {}
  BY <1>1
<1>4. driver \in [Drivers -> DriverType]
  BY <1>1, IdleShape
<1>5. TypeOK
  BY <1>1, <1>2, <1>3, <1>4, IdleShape DEF TypeOK, Driving
<1>6. HopsBounded
  BY <1>3 DEF HopsBounded
<1>7. Begun
  BY <1>2, IdleShape DEF Begun
<1> QED
  BY <1>5, <1>6, <1>7 DEF TypeInv

LEMMA StreamRequestedTypes ==
  ASSUME TypeInv, NEW d \in Drivers, StreamRequested(d)
  PROVE  TypeInv'
<1> DEFINE spend == Spend(journal)
           new == [Idle EXCEPT !.pc = "opening", !.opens = TRUE, !.running = spend]
<1>1. journal \in Seq(RowType) /\ faults \subseteq Faults /\ streamed \subseteq Items
  BY DriverTypes
<1>2. spend \in Nat
  BY <1>1, SpendIsNat
<1>3. Set(d, new) /\ journal' = journal /\ streamed' = streamed /\ faults' = faults
  BY DEF StreamRequested
<1> HIDE DEF spend
<1>4. new \in DriverType /\ Unstarted(new) /\ new.pc = "opening" /\ new.answers = {}
  BY <1>2 DEF Idle, DriverType, Unstarted, Handling, Driving, Resting
<1> HIDE DEF new
<1>5. Moves(d, new, << >>)
  BY <1>1, <1>3, SetsMove
<1>6. Fits(new, Turns(journal))
  BY <1>4 DEF Fits, Driving
<1> QED
  BY <1>1, <1>3, <1>4, <1>5, <1>6, Quietly

\* The state of a driver whose turn is open.
LEMMA OpenedShape ==
  ASSUME TypeInv, NEW d \in Drivers, driver[d].pc = "opening", NEW turn \in Nat
  PROVE  LET new == EntersHop([driver[d] EXCEPT !.turn = turn]) IN
         /\ new \in DriverType /\ new.turn = turn /\ new.start = 0 /\ new.hop = 0
         /\ new.text = 0 /\ new.answers = {} /\ new.knows
         /\ \/ new.pc = "erroring"
            \/ new.pc = "streaming" /\ new.open = {}
<1> DEFINE drv == [driver[d] EXCEPT !.turn = turn]
<1>1. driver[d] \in DriverType /\ Unstarted(driver[d]) /\ driver[d].answers = {}
  BY DriverTypes DEF Fits, Handling
<1>2. /\ drv \in DriverType /\ drv.turn = turn /\ drv.start = 0 /\ drv.hop = 0
      /\ drv.answers = {} /\ drv.knows
  BY <1>1 DEF DriverType, Unstarted
<1> HIDE DEF drv
<1>3. EntersHop(drv).start = drv.start /\ EntersHop(drv).turn = drv.turn
      /\ EntersHop(drv).answers = drv.answers /\ EntersHop(drv).knows = drv.knows
  BY <1>2, EntersShape DEF SameTurn
<1>4. \/ EntersHop(drv).pc = "erroring"
      \/ EntersHop(drv).pc = "streaming" /\ EntersHop(drv).open = {}
  BY <1>2, EntersShape
<1> QED
  BY <1>2, <1>3, <1>4, EntersShape DEF drv

LEMMA OpenTurnRowTypes ==
  ASSUME TypeInv, NEW d \in Drivers, OpenTurnRow(d)
  PROVE  TypeInv'
<1> DEFINE turn == Len(journal) + 1
           new == EntersHop([driver[d] EXCEPT !.turn = turn])
           gone == [driver[d] EXCEPT !.pc = "dead"]
           rows == << Row("user-message", turn, 0, {}, d) >>
<1>1. driver[d].pc = "opening" /\ Appends(d, rows, new, gone) /\ streamed' = streamed
  BY DEF OpenTurnRow
<1>2. /\ driver[d] \in DriverType /\ journal \in Seq(RowType) /\ streamed \subseteq Items
      /\ Fits(driver[d], Turns(journal))
  BY DriverTypes
<1>3. turn \in Nat
  BY <1>2
<1>4. gone \in DriverType /\ gone.pc = "dead"
  BY <1>2 DEF DriverType, Resting
<1>5. /\ new \in DriverType /\ new.turn = turn /\ new.start = 0 /\ new.hop = 0
      /\ new.pc \in {"erroring", "streaming"}
  BY <1>1, <1>3, OpenedShape, SMTT(30)
<1>6. /\ rows \in Seq(RowType)
      /\ \A turns : turn \in turns => Fitting(rows, d, turns)
  BY <1>3, OneRow DEF RowTypes
<1>7. turn \in Turns(journal \o rows)
  <2> DEFINE row == Row("user-message", turn, 0, {}, d)
  <2>1. row \in RowType
    BY <1>3, OneRow DEF RowTypes
  <2>2. row.type = "user-message"
    BY DEF Row
  <2> HIDE DEF row
  <2>3. DOMAIN (journal \o <<row>>) = 1 .. turn /\ (journal \o <<row>>)[turn] = row
    BY <1>2, <2>1
  <2> QED
    BY <1>3, <2>2, <2>3 DEF Turns, row
<1> HIDE DEF turn, new, gone, rows
<1>8. Fits(gone, Turns(journal))
  BY <1>4 DEF Fits, Handling, Driving
<1>9. MaxHops \in Nat \ {0}
  BY TurnAssumption
<1>10. \A turns : turn \in turns => Fits(new, turns)
  BY <1>5, <1>9 DEF Fits, Handling
<1> QED
  BY <1>1, <1>2, <1>4, <1>5, <1>6, <1>7, <1>8, <1>10, Appending

\* The states an approval's driver may start from.
Resolving(turn, ids) == [Idle EXCEPT !.pc = "resolving", !.turn = turn, !.answers = ids]
Unresolved(turn) == [Idle EXCEPT !.pc = "dead", !.turn = turn]

LEMMA ResolvingShape ==
  ASSUME NEW turn \in Nat, NEW ids \in SUBSET Items
  PROVE  LET new == Resolving(turn, ids)
             gone == Unresolved(turn) IN
         /\ new \in DriverType /\ Unstarted(new) /\ new.pc = "resolving"
         /\ new.turn = turn /\ new.answers = ids
         /\ gone \in DriverType /\ Unstarted(gone) /\ gone.pc = "dead" /\ gone.turn = turn
         /\ gone.answers = {}
  BY DEF Resolving, Unresolved, Idle, DriverType, Unstarted, Handling, Resting

LEMMA ResolveApprovalTypes ==
  ASSUME TypeInv, NEW d \in Drivers, NEW s \in DOMAIN journal, ResolveApproval(d, s)
  PROVE  TypeInv'
<1> DEFINE turn == journal[s].turn
           ids == journal[s].ids
           new == Resolving(turn, ids)
           gone == Unresolved(turn)
           rows == << Row("approval-resolved", turn, 0, ids, d) >>
<1>1. Appends(d, rows, new, gone) /\ streamed' = streamed
  BY DEF ResolveApproval, Resolving, Unresolved
<1>2. /\ journal \in Seq(RowType) /\ streamed \subseteq Items
      /\ journal[s] \in RowType /\ turn \in Turns(journal)
  BY TypeInvFits
<1>3. turn \in Nat /\ ids \in SUBSET Items
  BY <1>2 DEF RowType
<1> HIDE DEF turn, ids
<1>4. /\ new \in DriverType /\ Unstarted(new) /\ new.pc = "resolving" /\ new.turn = turn
      /\ gone \in DriverType /\ gone.pc = "dead"
  BY <1>3, ResolvingShape
<1>5. /\ rows \in Seq(RowType)
      /\ \A turns : turn \in turns => Fitting(rows, d, turns)
  BY <1>3, OneRow DEF RowTypes
<1> HIDE DEF new, gone, rows
<1>6. Fits(gone, Turns(journal))
  BY <1>4 DEF Fits, Handling, Driving
<1>7. \A turns : turn \in turns => Fits(new, turns)
  BY <1>4 DEF Fits, Driving
<1> QED
  BY <1>1, <1>2, <1>4, <1>5, <1>6, <1>7, Appending

LEMMA SpendReadTypes ==
  ASSUME TypeInv, NEW d \in Drivers, SpendRead(d)
  PROVE  TypeInv'
<1> DEFINE spend == Spend(journal)
           new == [driver[d] EXCEPT !.pc = "reading", !.running = spend]
<1>1. /\ driver[d] \in DriverType /\ Fits(driver[d], Turns(journal))
      /\ journal \in Seq(RowType) /\ faults \subseteq Faults /\ streamed \subseteq Items
  BY DriverTypes
<1>2. spend \in Nat
  BY <1>1, SpendIsNat
<1>3. /\ driver[d].pc = "resolving" /\ Set(d, new)
      /\ journal' = journal /\ streamed' = streamed /\ faults' = faults
  BY DEF SpendRead
<1> HIDE DEF spend
<1>4. new \in DriverType /\ new.pc = "reading" /\ new.turn = driver[d].turn
  BY <1>1, <1>2 DEF DriverType, Handling
<1>5. Unstarted(driver[d]) => Unstarted(new)
  BY <1>1 DEF DriverType, Unstarted
<1> HIDE DEF new
<1>6. Fits(new, Turns(journal))
  BY <1>1, <1>3, <1>4, <1>5 DEF Fits, Driving, Handling
<1>7. Moves(d, new, << >>)
  BY <1>1, <1>3, SetsMove
<1> QED
  BY <1>1, <1>3, <1>4, <1>6, <1>7, Quietly

\* The state of a driver that has read the journal.
LEMMA ReadShape ==
  ASSUME TypeInv, NEW d \in Drivers, EventsRead(d)
  PROVE  \E new \in DriverType :
           /\ Moves(d, new, << >>) /\ driver[d].pc = "reading" /\ journal' = journal
           /\ new.turn = driver[d].turn /\ new.answers = driver[d].answers /\ new.text = 0
           /\ new.start = NextHop(journal, driver[d].turn) /\ new.hop = new.start
           /\ new.knows = (driver[d].answers \subseteq CallsInMessages(journal, driver[d].turn))
           /\ \/ new.pc = "erroring"
              \/ new.pc = "streaming" /\ new.open = IF new.knows THEN new.answers ELSE {}
           /\ streamed' = streamed /\ faults' = faults
<1> DEFINE first == NextHop(journal, driver[d].turn)
           known == driver[d].answers \subseteq CallsInMessages(journal, driver[d].turn)
           drv == [driver[d] EXCEPT !.start = first, !.hop = first, !.knows = known]
           new == EntersHop(drv)
<1>1. /\ driver[d] \in DriverType /\ Fits(driver[d], Turns(journal)) /\ journal \in Seq(RowType)
  BY DriverTypes
<1>2. first \in Nat /\ known \in BOOLEAN
  BY <1>1, NextHopIsNext DEF TypeInv
<1>3. /\ driver[d].pc = "reading" /\ Set(d, new)
      /\ journal' = journal /\ streamed' = streamed /\ faults' = faults
  BY DEF EventsRead
<1> HIDE DEF first, known
<1>4. /\ drv \in DriverType /\ drv.start = first /\ drv.hop = first /\ drv.knows = known
      /\ drv.turn = driver[d].turn /\ drv.answers = driver[d].answers
  BY <1>1, <1>2 DEF DriverType
<1> HIDE DEF drv
<1>5. new \in DriverType /\ SameTurn(drv, new) /\ new.hop = drv.hop /\ new.text = 0
      /\ \/ new.pc = "erroring"
         \/ new.pc = "streaming" /\ new.open = IF drv.hop = drv.start /\ drv.knows THEN drv.answers ELSE {}
  BY <1>4, EntersShape
<1> HIDE DEF new
<1>6. Moves(d, new, << >>)
  BY <1>1, <1>3, SetsMove
<1>7. /\ new.turn = driver[d].turn /\ new.answers = driver[d].answers
      /\ new.start = first /\ new.hop = first /\ new.knows = known
  BY <1>4, <1>5 DEF SameTurn
<1>8. new.pc = "streaming" => new.open = IF new.knows THEN new.answers ELSE {}
  BY <1>4, <1>5, <1>7
<1> QED
  BY <1>3, <1>5, <1>6, <1>7, <1>8 DEF first, known

LEMMA EventsReadTypes ==
  ASSUME TypeInv, NEW d \in Drivers, EventsRead(d)
  PROVE  TypeInv'
<1>1. PICK new \in DriverType :
        /\ Moves(d, new, << >>) /\ driver[d].pc = "reading" /\ new.turn = driver[d].turn
        /\ new.hop = new.start /\ new.pc \in {"erroring", "streaming"}
        /\ streamed' = streamed /\ faults' = faults
  BY ReadShape
<1>2. /\ driver[d] \in DriverType /\ Fits(driver[d], Turns(journal))
      /\ faults \subseteq Faults /\ streamed \subseteq Items
  BY DriverTypes
<1>3. MaxHops \in Nat \ {0} /\ new.hop \in Nat /\ new.start \in Nat
  BY TurnAssumption DEF DriverType
<1>4. Fits(new, Turns(journal))
  BY <1>1, <1>2, <1>3 DEF Fits, Handling, Driving
<1> QED
  BY <1>1, <1>2, <1>4, Quietly

\* A driver that has come to a call, has asked about one or has a result:
\* what it has made, has open and has as parts, all else being as before.
Progress(drv, new, made, open, parts) ==
  /\ new \in DriverType /\ SameTurn(drv, new)
  /\ new.hop = drv.hop /\ new.text = drv.text
  /\ new.made = made /\ new.open = open /\ new.parts = parts

CallSeen(drv, call) ==
  [drv EXCEPT !.made = @ + 1, !.open = @ \cup {call}, !.parts = @ \cup {call}]
AskSeen(drv, call) == [drv EXCEPT !.open = @ \ {call}]
ResultSeen(drv, call) == [drv EXCEPT !.open = @ \ {call}, !.parts = @ \cup {call}]
Asked(drv, call) == [AskSeen(drv, call) EXCEPT !.parked = TRUE]

LEMMA ProgressFails ==
  ASSUME NEW drv \in DriverType, NEW seen, NEW made, NEW open, NEW parts,
         Progress(drv, seen, made, open, parts)
  PROVE  /\ Progress(drv, Fails(seen), made, open, parts)
         /\ Fails(seen).pc = IF drv.text = 0 THEN "erroring" ELSE "failing"
<1>1. seen \in DriverType
  BY DEF Progress
<1>2. Fails(seen) = [seen EXCEPT !.pc = Fails(seen).pc] /\ Fails(seen) \in DriverType
  BY <1>1, FailsShape
<1>3. Fails(seen).pc = IF seen.text = 0 THEN "erroring" ELSE "failing"
  BY <1>1, FailsShape
<1> DEFINE failed == Fails(seen)
           pc == failed.pc
<1>4. failed = [seen EXCEPT !.pc = pc] /\ failed \in DriverType
  BY <1>2
<1> HIDE DEF failed, pc
<1>5. Progress(drv, failed, made, open, parts)
  BY <1>1, <1>4 DEF Progress, SameTurn, DriverType
<1> QED
  BY <1>3, <1>5 DEF failed, Progress

LEMMA CallShape ==
  ASSUME NEW drv \in DriverType, NEW call \in Items
  PROVE  /\ Progress(drv, CallSeen(drv, call), drv.made + 1, drv.open \cup {call}, drv.parts \cup {call})
         /\ CallSeen(drv, call).pc = drv.pc
<1> DEFINE made == drv.made + 1
           open == drv.open \cup {call}
           parts == drv.parts \cup {call}
           new == [drv EXCEPT !.made = made, !.open = open, !.parts = parts]
<1>1. CallSeen(drv, call) = new
  BY DEF CallSeen
<1>2. made \in Nat /\ open \in SUBSET Items /\ parts \in SUBSET Items
  BY DEF DriverType
<1> HIDE DEF made, open, parts
<1>3. new \in DriverType /\ SameTurn(drv, new) /\ new.pc = drv.pc /\ new.hop = drv.hop
      /\ new.text = drv.text /\ new.made = made /\ new.open = open /\ new.parts = parts
  BY <1>2 DEF SameTurn, DriverType
<1> HIDE DEF new
<1>4. Progress(drv, new, made, open, parts)
  BY <1>3 DEF Progress
<1> QED
  BY <1>1, <1>3, <1>4 DEF made, open, parts

LEMMA ResultShape ==
  ASSUME NEW drv \in DriverType, NEW call \in Items
  PROVE  /\ Progress(drv, ResultSeen(drv, call), drv.made, drv.open \ {call}, drv.parts \cup {call})
         /\ ResultSeen(drv, call).pc = drv.pc
  BY DEF Progress, ResultSeen, SameTurn, DriverType

LEMMA AskShape ==
  ASSUME NEW drv \in DriverType, NEW call \in Items
  PROVE  /\ Progress(drv, AskSeen(drv, call), drv.made, drv.open \ {call}, drv.parts)
         /\ AskSeen(drv, call).pc = drv.pc
         /\ Progress(drv, Asked(drv, call), drv.made, drv.open \ {call}, drv.parts)
         /\ Asked(drv, call).pc = drv.pc
<1>1. /\ Progress(drv, AskSeen(drv, call), drv.made, drv.open \ {call}, drv.parts)
      /\ AskSeen(drv, call).pc = drv.pc
  BY DEF Progress, AskSeen, SameTurn, DriverType
<1> DEFINE seen == AskSeen(drv, call)
           asked == [seen EXCEPT !.parked = TRUE]
<1>2. Asked(drv, call) = asked
  BY DEF Asked
<1>3. seen \in DriverType
  BY <1>1 DEF Progress
<1> HIDE DEF seen
<1>4. /\ asked \in DriverType /\ SameTurn(seen, asked) /\ asked.hop = seen.hop /\ asked.text = seen.text
      /\ asked.made = seen.made /\ asked.open = seen.open /\ asked.parts = seen.parts
      /\ asked.pc = seen.pc
  BY <1>3 DEF SameTurn, DriverType
<1> HIDE DEF asked
<1>5. Progress(drv, asked, drv.made, drv.open \ {call}, drv.parts) /\ asked.pc = drv.pc
  BY <1>1, <1>4 DEF seen, Progress, SameTurn
<1> QED
  BY <1>1, <1>2, <1>5

\* The three actions that journal a row about a call as it comes.  With the
\* answer the hop goes on; without, it has failed.
CallRow(d, type, call, made, open, parts) ==
  LET drv == driver[d] IN
  /\ type \in {"tool-call", "tool-result", "approval-requested"} /\ call \in Items
  /\ drv.pc = "streaming"
  /\ \E answered, failed \in DriverType :
       /\ Appends(d, << Row(type, drv.turn, drv.hop, {call}, d) >>, answered, failed)
       /\ Progress(drv, answered, made, open, parts) /\ answered.pc = "streaming"
       /\ Progress(drv, failed, made, open, parts)
       /\ failed.pc = IF drv.text = 0 THEN "erroring" ELSE "failing"
  /\ streamed' = streamed

LEMMA ToolCallRow ==
  ASSUME TypeInv, NEW d \in Drivers, ToolCall(d)
  PROVE  LET drv == driver[d]
             call == Item(d, drv.hop, drv.made + 1) IN
         CallRow(d, "tool-call", call, drv.made + 1, drv.open \cup {call}, drv.parts \cup {call})
<1> DEFINE drv == driver[d]
           call == Item(d, drv.hop, drv.made + 1)
           seen == CallSeen(drv, call)
<1>1. drv \in DriverType
  BY DriverTypes
<1>2. call \in Items
  BY <1>1 DEF Item, Items, DriverType
<1>3. /\ drv.pc = "streaming" /\ streamed' = streamed
      /\ Appends(d, << Row("tool-call", drv.turn, drv.hop, {call}, d) >>, seen, Fails(seen))
  BY DEF ToolCall, CallSeen
<1> HIDE DEF drv, call
<1>4. /\ Progress(drv, seen, drv.made + 1, drv.open \cup {call}, drv.parts \cup {call})
      /\ seen.pc = "streaming"
  BY <1>1, <1>2, <1>3, CallShape
<1> HIDE DEF seen
<1>5. /\ Progress(drv, Fails(seen), drv.made + 1, drv.open \cup {call}, drv.parts \cup {call})
      /\ Fails(seen).pc = IF drv.text = 0 THEN "erroring" ELSE "failing"
  BY <1>1, <1>4, ProgressFails
<1>6. seen \in DriverType /\ Fails(seen) \in DriverType
  BY <1>4, <1>5 DEF Progress
<1>7. CallRow(d, "tool-call", call, drv.made + 1, drv.open \cup {call}, drv.parts \cup {call})
  BY <1>2, <1>3, <1>4, <1>5, <1>6 DEF CallRow, drv
<1> QED
  BY <1>7 DEF drv, call

LEMMA AskApprovalRow ==
  ASSUME TypeInv, NEW d \in Drivers, NEW call \in driver[d].open, AskApproval(d, call)
  PROVE  LET drv == driver[d] IN
         /\ CallRow(d, "approval-requested", call, drv.made, drv.open \ {call}, drv.parts)
         /\ call \notin drv.answers
<1> DEFINE drv == driver[d]
           seen == AskSeen(drv, call)
           asked == Asked(drv, call)
<1>1. drv \in DriverType
  BY DriverTypes
<1>2. call \in Items
  BY <1>1 DEF DriverType
<1>3. /\ drv.pc = "streaming" /\ streamed' = streamed /\ call \notin drv.answers
      /\ Appends(d, << Row("approval-requested", drv.turn, drv.hop, {call}, d) >>, asked, Fails(seen))
  BY DEF AskApproval, AskSeen, Asked
<1> HIDE DEF drv
<1>4. /\ Progress(drv, seen, drv.made, drv.open \ {call}, drv.parts)
      /\ Progress(drv, asked, drv.made, drv.open \ {call}, drv.parts)
      /\ asked.pc = "streaming"
  BY <1>1, <1>2, <1>3, AskShape
<1> HIDE DEF seen, asked
<1>5. /\ Progress(drv, Fails(seen), drv.made, drv.open \ {call}, drv.parts)
      /\ Fails(seen).pc = IF drv.text = 0 THEN "erroring" ELSE "failing"
  BY <1>1, <1>4, ProgressFails
<1>6. asked \in DriverType /\ Fails(seen) \in DriverType
  BY <1>4, <1>5 DEF Progress
<1>7. CallRow(d, "approval-requested", call, drv.made, drv.open \ {call}, drv.parts)
  BY <1>2, <1>3, <1>4, <1>5, <1>6 DEF CallRow, drv
<1> QED
  BY <1>3, <1>7 DEF drv

LEMMA ToolResultRow ==
  ASSUME TypeInv, NEW d \in Drivers, NEW call \in driver[d].open, ToolResult(d, call)
  PROVE  LET drv == driver[d] IN
         CallRow(d, "tool-result", call, drv.made, drv.open \ {call}, drv.parts \cup {call})
<1> DEFINE drv == driver[d]
           seen == ResultSeen(drv, call)
<1>1. drv \in DriverType
  BY DriverTypes
<1>2. call \in Items
  BY <1>1 DEF DriverType
<1>3. /\ drv.pc = "streaming" /\ streamed' = streamed
      /\ Appends(d, << Row("tool-result", drv.turn, drv.hop, {call}, d) >>, seen, Fails(seen))
  BY DEF ToolResult, ResultSeen
<1> HIDE DEF drv
<1>4. /\ Progress(drv, seen, drv.made, drv.open \ {call}, drv.parts \cup {call})
      /\ seen.pc = "streaming"
  BY <1>1, <1>2, <1>3, ResultShape
<1> HIDE DEF seen
<1>5. /\ Progress(drv, Fails(seen), drv.made, drv.open \ {call}, drv.parts \cup {call})
      /\ Fails(seen).pc = IF drv.text = 0 THEN "erroring" ELSE "failing"
  BY <1>1, <1>4, ProgressFails
<1>6. seen \in DriverType /\ Fails(seen) \in DriverType
  BY <1>4, <1>5 DEF Progress
<1>7. CallRow(d, "tool-result", call, drv.made, drv.open \ {call}, drv.parts \cup {call})
  BY <1>2, <1>3, <1>4, <1>5, <1>6 DEF CallRow, drv
<1> QED
  BY <1>7 DEF drv

LEMMA CallRowTypes ==
  ASSUME TypeInv, NEW d \in Drivers, NEW type, NEW call, NEW made, NEW open, NEW parts,
         CallRow(d, type, call, made, open, parts)
  PROVE  TypeInv'
<1> DEFINE drv == driver[d]
           rows == << Row(type, drv.turn, drv.hop, {call}, d) >>
<1>1. PICK answered, failed \in DriverType :
        /\ Appends(d, rows, answered, failed)
        /\ Progress(drv, answered, made, open, parts) /\ answered.pc = "streaming"
        /\ Progress(drv, failed, made, open, parts)
        /\ failed.pc = IF drv.text = 0 THEN "erroring" ELSE "failing"
  BY DEF CallRow
<1>2. /\ drv \in DriverType /\ Fits(drv, Turns(journal)) /\ streamed \subseteq Items
      /\ drv.pc = "streaming" /\ streamed' = streamed
      /\ type \in RowTypes /\ {call} \in SUBSET Items
  BY DriverTypes DEF CallRow, RowTypes
<1>3. drv.turn \in Nat /\ drv.hop \in Nat /\ drv.turn \in Turns(journal)
  BY <1>2 DEF DriverType, Fits, Driving
<1>4. rows \in Seq(RowType) /\ \A turns : drv.turn \in turns => Fitting(rows, d, turns)
  BY <1>2, <1>3, OneRow
<1> HIDE DEF rows, drv
<1>5. \A turns : Turns(journal) \subseteq turns => Fits(answered, turns) /\ Fits(failed, turns)
  <2>1. /\ answered.pc \in Driving /\ failed.pc \in Driving /\ drv.pc \in Driving
    BY <1>1, <1>2 DEF Driving
  <2>2. /\ answered.turn = drv.turn /\ answered.start = drv.start /\ answered.hop = drv.hop
        /\ failed.turn = drv.turn /\ failed.start = drv.start /\ failed.hop = drv.hop
    BY <1>1 DEF Progress, SameTurn
  <2> QED
    BY <1>2, <2>1, <2>2, FitsOn
<1>6. failed.pc \notin {"none", "opening"}
  BY <1>1
<1> QED
  BY <1>1, <1>2, <1>3, <1>4, <1>5, <1>6, Appending

\* A driver that only changes its state of work.
LEMMA PcShape ==
  ASSUME NEW drv \in DriverType, NEW pc \in Handling \cup Driving \cup Resting
  PROVE  LET new == [drv EXCEPT !.pc = pc] IN
         /\ new \in DriverType /\ SameTurn(drv, new) /\ new.pc = pc
         /\ new.hop = drv.hop /\ new.text = drv.text /\ new.made = drv.made
         /\ new.open = drv.open /\ new.parts = drv.parts
  BY DEF DriverType, SameTurn

\* Steps that write nothing and only change a driver's state of work.
Turning(d, pc) ==
  /\ Moves(d, [driver[d] EXCEPT !.pc = pc], << >>) /\ journal' = journal
  /\ streamed' = streamed /\ faults' \subseteq Faults

LEMMA TurningTypes ==
  ASSUME TypeInv, NEW d \in Drivers, NEW pc, Turning(d, pc),
         pc = "dead" \/ (driver[d].pc \in Driving /\ pc \in Driving)
  PROVE  TypeInv'
<1> DEFINE new == [driver[d] EXCEPT !.pc = pc]
<1>1. driver[d] \in DriverType /\ Fits(driver[d], Turns(journal)) /\ streamed \subseteq Items
  BY DriverTypes
<1>2. new \in DriverType /\ SameTurn(driver[d], new) /\ new.pc = pc /\ new.hop = driver[d].hop
  BY <1>1, PcShape DEF Resting
<1> HIDE DEF new
<1>3. Fits(new, Turns(journal))
  BY <1>1, <1>2, FitsOn DEF SameTurn
<1>4. Moves(d, new, << >>) /\ streamed' = streamed /\ faults' \subseteq Faults
  BY DEF Turning, new
<1> QED
  BY <1>1, <1>2, <1>3, <1>4, Quietly

LEMMA HandlerFailsTurns ==
  ASSUME TypeInv, NEW d \in Drivers, HandlerFails(d)
  PROVE  Turning(d, "dead") /\ driver[d].pc \in Handling
<1>1. journal \in Seq(RowType) /\ faults \subseteq Faults
  BY DriverTypes
<1> QED
  BY <1>1, SetsMove, FaultsAreKnown DEF HandlerFails, Turning

LEMMA DriverDiesTurns ==
  ASSUME TypeInv, NEW d \in Drivers, DriverDies(d)
  PROVE  Turning(d, "dead") /\ driver[d].pc \in Driving /\ "die" \in faults'
<1>1. journal \in Seq(RowType) /\ faults \subseteq Faults
  BY DriverTypes
<1> QED
  BY <1>1, SetsMove, FaultsAreKnown DEF DriverDies, Turning, Fault

LEMMA HopFailsTurns ==
  ASSUME TypeInv, NEW d \in Drivers, HopFails(d)
  PROVE  /\ Turning(d, IF driver[d].text = 0 THEN "erroring" ELSE "failing")
         /\ driver[d].pc = "streaming" /\ "model" \in faults'
<1>1. journal \in Seq(RowType) /\ faults \subseteq Faults
  BY DriverTypes
<1>2. Fails(driver[d]) = [driver[d] EXCEPT !.pc = IF driver[d].text = 0 THEN "erroring" ELSE "failing"]
  BY DEF Fails
<1> QED
  BY <1>1, <1>2, SetsMove, FaultsAreKnown DEF HopFails, Turning, Fault

\* A piece of text is sent to the client.
LEMMA TextDeltaWrites ==
  ASSUME TypeInv, NEW d \in Drivers, TextDelta(d)
  PROVE  \E new \in DriverType :
           LET drv == driver[d] IN
           /\ Moves(d, new, << >>) /\ journal' = journal /\ faults' = faults
           /\ drv.pc = "streaming" /\ new.pc = "streaming" /\ SameTurn(drv, new)
           /\ new.hop = drv.hop /\ new.made = drv.made /\ new.open = drv.open
           /\ new.parts = drv.parts /\ new.text = drv.text + 1
           /\ streamed' = streamed \cup {Item(d, drv.hop, drv.text + 1)}
<1> DEFINE drv == driver[d]
           text == drv.text + 1
           new == [drv EXCEPT !.text = text]
<1>1. drv \in DriverType /\ journal \in Seq(RowType)
  BY DriverTypes
<1>2. text \in Nat
  BY <1>1 DEF DriverType
<1>3. /\ drv.pc = "streaming" /\ Set(d, new) /\ journal' = journal /\ faults' = faults
      /\ streamed' = streamed \cup {Item(d, drv.hop, text)}
  BY DEF TextDelta
<1> HIDE DEF text
<1>4. /\ new \in DriverType /\ SameTurn(drv, new) /\ new.pc = drv.pc /\ new.hop = drv.hop
      /\ new.made = drv.made /\ new.open = drv.open /\ new.parts = drv.parts /\ new.text = text
  BY <1>1, <1>2 DEF DriverType, SameTurn
<1> HIDE DEF new
<1>5. Moves(d, new, << >>)
  BY <1>1, <1>3, SetsMove
<1> QED
  BY <1>3, <1>4, <1>5 DEF text

LEMMA TextDeltaTypes ==
  ASSUME TypeInv, NEW d \in Drivers, TextDelta(d)
  PROVE  TypeInv'
<1>1. PICK new \in DriverType :
        LET drv == driver[d] IN
        /\ Moves(d, new, << >>) /\ faults' = faults
        /\ drv.pc = "streaming" /\ new.pc = "streaming" /\ SameTurn(drv, new)
        /\ new.hop = drv.hop
        /\ streamed' = streamed \cup {Item(d, drv.hop, drv.text + 1)}
  BY TextDeltaWrites
<1>2. /\ driver[d] \in DriverType /\ Fits(driver[d], Turns(journal))
      /\ streamed \subseteq Items /\ faults \subseteq Faults
  BY DriverTypes
<1>3. Item(d, driver[d].hop, driver[d].text + 1) \in Items
  BY <1>2 DEF Item, Items, DriverType
<1>4. Fits(new, Turns(journal))
  BY <1>1, <1>2, FitsOn DEF SameTurn, Driving
<1> QED
  BY <1>1, <1>2, <1>3, <1>4, Quietly

\* The state after a hop's batch.
LEMMA AfterHopState ==
  ASSUME TypeInv, NEW d \in Drivers, driver[d].pc = "streaming",
         NEW reason \in {"none", "stop", "tool-calls"}
  PROVE  LET drv == driver[d]
             new == AfterHop(drv, reason) IN
         /\ new \in DriverType /\ SameTurn(drv, new) /\ new.text = 0
         /\ \/ new.pc \in {"over", "capped"} /\ new.hop = drv.hop
            \/ /\ new.pc \in {"streaming", "erroring"} /\ new.hop = drv.hop + 1
               /\ new.pc = "streaming" => new.open = {}
         /\ new.hop >= drv.hop /\ (new.hop = drv.hop => new.made = drv.made)
         /\ \A turns : Turns(journal) \subseteq turns => Fits(new, turns)
<1> DEFINE drv == driver[d]
           new == AfterHop(drv, reason)
<1>1. drv \in DriverType /\ Fits(drv, Turns(journal)) /\ drv.pc = "streaming"
  BY DriverTypes
<1>2. /\ drv.hop \in Nat /\ drv.start \in Nat /\ MaxHops \in Nat \ {0}
      /\ drv.hop \in drv.start .. drv.start + MaxHops - 1 /\ drv.turn \in Turns(journal)
  BY <1>1, TurnAssumption DEF Fits, Driving, DriverType
<1> HIDE DEF drv
<1>3. /\ new \in DriverType /\ SameTurn(drv, new) /\ new.text = 0
      /\ \/ /\ new.pc \in {"over", "capped"}
            /\ new.hop = drv.hop /\ new.made = drv.made
         \/ /\ new.pc \in {"streaming", "erroring"} /\ new.hop = drv.hop + 1
            /\ new.hop < drv.start + MaxHops
            /\ new.pc = "streaming" => new.open = {}
  BY <1>1, <1>2, AfterShape
<1> HIDE DEF new
<1>4. new.start = drv.start /\ new.turn = drv.turn
  BY <1>3 DEF SameTurn
<1>5. \A turns : Turns(journal) \subseteq turns => Fits(new, turns)
  BY <1>2, <1>3, <1>4 DEF Fits, Handling, Driving
<1>6. new.hop >= drv.hop /\ (new.hop = drv.hop => new.made = drv.made)
  BY <1>2, <1>3
<1> QED
  BY <1>3, <1>5, <1>6 DEF new, drv

\* What a batch adds is well formed.
LEMMA BatchFits ==
  ASSUME TypeInv, NEW d \in Drivers, driver[d].pc = "streaming",
         NEW reason \in {"none", "stop", "tool-calls"}
  PROVE  /\ HopBatch(d, reason) \in Seq(RowType)
         /\ \A turns : Turns(journal) \subseteq turns => Fitting(HopBatch(d, reason), d, turns)
<1> DEFINE drv == driver[d]
           texts == {Item(d, drv.hop, n) : n \in 1 .. drv.text}
           rows == HopBatch(d, reason)
<1>1. drv \in DriverType /\ drv.turn \in Turns(journal)
  BY DriverTypes DEF Fits, Driving
<1>2. /\ rows \in Seq(RowType)
      /\ RowSet(rows) \subseteq
           {Row("hop-messages", drv.turn, drv.hop, drv.parts, d),
            Row("assistant-text", drv.turn, drv.hop, texts, d),
            Row("usage", drv.turn, drv.hop, {}, d), Row("done", drv.turn, 0, {}, d)}
  BY <1>1, BatchRows DEF Assorted
<1>3. \A row \in RowSet(rows) : row.by = d /\ row.turn = drv.turn /\ row.hop \in {0, drv.hop}
  BY <1>2 DEF Row
<1>4. \A i \in DOMAIN rows : rows[i] \in RowSet(rows)
  BY DEF RowSet
<1> HIDE DEF rows
<1>5. \A turns : Turns(journal) \subseteq turns => Fitting(rows, d, turns)
  BY <1>1, <1>3, <1>4 DEF Fitting
<1> QED
  BY <1>2, <1>5 DEF rows

LEMMA FailsFits ==
  ASSUME TypeInv, NEW d \in Drivers, driver[d].pc \in Driving
  PROVE  LET new == Fails(driver[d]) IN
         /\ new \in DriverType /\ new.pc \in {"erroring", "failing"}
         /\ \A turns : Turns(journal) \subseteq turns => Fits(new, turns)
<1> DEFINE drv == driver[d]
           pc == Fails(drv).pc
           new == [drv EXCEPT !.pc = pc]
<1>1. drv \in DriverType /\ Fits(drv, Turns(journal))
  BY DriverTypes
<1>2. Fails(drv) = new /\ pc \in {"erroring", "failing"}
  BY <1>1, FailsShape
<1> HIDE DEF pc, drv
<1>3. new \in DriverType /\ SameTurn(drv, new) /\ new.pc = pc /\ new.hop = drv.hop
  BY <1>1, <1>2, PcShape DEF Driving
<1> HIDE DEF new
<1>4. \A turns : Turns(journal) \subseteq turns => Fits(new, turns)
  BY <1>1, <1>2, <1>3, FitsOn DEF SameTurn, Driving, drv
<1> QED
  BY <1>2, <1>3, <1>4 DEF drv

LEMMA StreamEndsTypes ==
  ASSUME TypeInv, NEW d \in Drivers, StreamEnds(d)
  PROVE  TypeInv'
<1>1. driver[d].pc = "streaming" /\ streamed' = streamed /\ streamed \subseteq Items
  BY DriverTypes DEF StreamEnds
<1>2. PICK reason \in {"none", "stop", "tool-calls"} :
        Appends(d, HopBatch(d, reason), AfterHop(driver[d], reason), Fails(driver[d]))
  BY DEF StreamEnds
<1>3. /\ HopBatch(d, reason) \in Seq(RowType)
      /\ \A turns : Turns(journal) \subseteq turns => Fitting(HopBatch(d, reason), d, turns)
  BY <1>1, BatchFits
<1>4. /\ AfterHop(driver[d], reason) \in DriverType
      /\ \A turns : Turns(journal) \subseteq turns => Fits(AfterHop(driver[d], reason), turns)
  BY <1>1, AfterHopState
<1>5. /\ Fails(driver[d]) \in DriverType /\ Fails(driver[d]).pc \in {"erroring", "failing"}
      /\ \A turns : Turns(journal) \subseteq turns => Fits(Fails(driver[d]), turns)
  BY <1>1, FailsFits DEF Driving
<1> QED
  BY <1>1, <1>2, <1>3, <1>4, <1>5, Appending

LEMMA StreamCutTypes ==
  ASSUME TypeInv, NEW d \in Drivers, StreamCut(d)
  PROVE  TypeInv'
<1> DEFINE rows == HopBatch(d, "none")
           new == AfterHop(driver[d], "none")
<1>1. /\ driver[d].pc = "streaming" /\ streamed' = streamed /\ Fault("cut")
      /\ Moves(d, new, rows)
  BY DEF StreamCut, Moves, Set
<1>2. journal \in Seq(RowType) /\ streamed \subseteq Items /\ faults' \subseteq Faults
  BY <1>1, DriverTypes, FaultsAreKnown
<1>3. rows \in Seq(RowType) /\ \A turns : Turns(journal) \subseteq turns => Fitting(rows, d, turns)
  BY <1>1, BatchFits
<1>4. new \in DriverType /\ \A turns : Turns(journal) \subseteq turns => Fits(new, turns)
  BY <1>1, AfterHopState
<1> HIDE DEF rows, new
<1>5. Turns(journal) \subseteq Turns(journal')
  BY <1>1, <1>2, <1>3, TurnsGrow DEF Moves
<1> QED
  BY <1>1, <1>2, <1>3, <1>4, <1>5, Stepping

\* The rows of a driver's terminals.
LEMMA CapDoneTypes ==
  ASSUME TypeInv, NEW d \in Drivers, CapDone(d)
  PROVE  TypeInv'
<1> DEFINE drv == driver[d]
           pc == IF drv.text = 0 THEN "over" ELSE "ending"
           new == [drv EXCEPT !.pc = pc]
<1>1. /\ drv \in DriverType /\ drv.turn \in Turns(journal) /\ drv.turn \in Nat
      /\ Fits(drv, Turns(journal)) /\ streamed \subseteq Items
      /\ drv.pc = "capped"
  BY DriverTypes DEF CapDone, Fits, Driving, DriverType
<1>2. Appends(d, DoneRow(d), Settles(drv), Fails(drv)) /\ streamed' = streamed
  BY DEF CapDone
<1>3. DoneRow(d) \in Seq(RowType) /\ \A turns : drv.turn \in turns => Fitting(DoneRow(d), d, turns)
  BY <1>1, OneRow DEF DoneRow, RowTypes
<1>4. Settles(drv) = new
  BY DEF Settles
<1>5. new \in DriverType /\ SameTurn(drv, new) /\ new.pc = pc /\ new.hop = drv.hop
  BY <1>1, PcShape DEF Driving, Resting
<1> HIDE DEF new
<1>6. \A turns : Turns(journal) \subseteq turns => Fits(new, turns)
  BY <1>1, <1>5, FitsOn DEF SameTurn, Driving
<1>7. /\ Fails(drv) \in DriverType /\ Fails(drv).pc \in {"erroring", "failing"}
      /\ \A turns : Turns(journal) \subseteq turns => Fits(Fails(drv), turns)
  BY <1>1, FailsFits DEF Driving
<1> HIDE DEF drv
<1> QED
  BY <1>1, <1>2, <1>3, <1>4, <1>5, <1>6, <1>7, Appending

\* The driver that has flushed, or not, what was left of its hop's text.
Flushed(drv) ==
  [drv EXCEPT !.text = 0, !.pc = IF drv.pc = "ending" THEN "over" ELSE "erroring"]

LEMMA FlushedShape ==
  ASSUME NEW drv \in DriverType
  PROVE  LET new == Flushed(drv) IN
         /\ new \in DriverType /\ SameTurn(drv, new) /\ new.text = 0
         /\ new.hop = drv.hop /\ new.made = drv.made /\ new.parts = drv.parts
         /\ new.pc = IF drv.pc = "ending" THEN "over" ELSE "erroring"
<1> DEFINE pc == IF drv.pc = "ending" THEN "over" ELSE "erroring"
           new == [drv EXCEPT !.text = 0, !.pc = pc]
<1>1. Flushed(drv) = new
  BY DEF Flushed
<1>2. pc \in Driving \cup Resting
  BY DEF Driving, Resting
<1> HIDE DEF pc
<1>3. /\ new \in DriverType /\ SameTurn(drv, new) /\ new.text = 0 /\ new.pc = pc
      /\ new.hop = drv.hop /\ new.made = drv.made /\ new.parts = drv.parts
  BY <1>2 DEF DriverType, SameTurn
<1> QED
  BY <1>1, <1>3 DEF pc

LEMMA TextRowIs ==
  ASSUME NEW d \in Drivers, driver[d] \in DriverType
  PROVE  LET drv == driver[d]
             texts == {Item(d, drv.hop, n) : n \in 1 .. drv.text}
             row == Row("assistant-text", drv.turn, drv.hop, texts, d) IN
         /\ row \in RowType
         /\ TextRow(d) = IF drv.text = 0 THEN << >> ELSE <<row>>
         /\ TextRow(d) \in Seq(RowType)
         /\ \A turns : drv.turn \in turns => Fitting(TextRow(d), d, turns)
<1> DEFINE drv == driver[d]
           texts == {Item(d, drv.hop, n) : n \in 1 .. drv.text}
           row == Row("assistant-text", drv.turn, drv.hop, texts, d)
<1>1. drv.turn \in Nat /\ drv.hop \in Nat /\ texts \in SUBSET Items
  BY DEF DriverType, Items, Item
<1>2. TextRow(d) = IF drv.text = 0 THEN << >> ELSE <<row>>
  BY DEF TextRow
<1> HIDE DEF texts
<1>3. /\ row \in RowType /\ <<row>> \in Seq(RowType)
      /\ \A turns : drv.turn \in turns => Fitting(<<row>>, d, turns)
  BY <1>1, OneRow DEF RowTypes
<1>4. << >> \in Seq(RowType) /\ \A turns : Fitting(<< >>, d, turns)
  BY DEF Fitting
<1> QED
  BY <1>2, <1>3, <1>4 DEF texts

LEMMA FlushPartialHopTextTypes ==
  ASSUME TypeInv, NEW d \in Drivers, FlushPartialHopText(d)
  PROVE  TypeInv'
<1> DEFINE drv == driver[d]
           new == Flushed(drv)
<1>1. /\ drv \in DriverType /\ drv.turn \in Turns(journal)
      /\ Fits(drv, Turns(journal)) /\ streamed \subseteq Items
      /\ drv.pc \in {"ending", "failing"}
  BY DriverTypes DEF FlushPartialHopText, Fits, Driving
<1>2. Appends(d, TextRow(d), new, new) /\ streamed' = streamed
  BY DEF FlushPartialHopText, Flushed
<1>3. TextRow(d) \in Seq(RowType) /\ \A turns : drv.turn \in turns => Fitting(TextRow(d), d, turns)
  BY <1>1, TextRowIs
<1>4. /\ new \in DriverType /\ SameTurn(drv, new) /\ new.hop = drv.hop
      /\ new.pc \in {"over", "erroring"}
  BY <1>1, FlushedShape
<1> HIDE DEF new
<1>5. \A turns : Turns(journal) \subseteq turns => Fits(new, turns)
  BY <1>1, <1>4, FitsOn DEF SameTurn, Driving
<1> HIDE DEF drv
<1> QED
  BY <1>1, <1>2, <1>3, <1>4, <1>5, Appending

LEMMA JournalTurnErrorTypes ==
  ASSUME TypeInv, NEW d \in Drivers, JournalTurnError(d)
  PROVE  TypeInv'
<1> DEFINE drv == driver[d]
           new == [drv EXCEPT !.pc = "over"]
           rows == << Row("error", drv.turn, 0, {}, d) >>
<1>1. /\ drv \in DriverType /\ drv.turn \in Turns(journal) /\ drv.turn \in Nat
      /\ Fits(drv, Turns(journal)) /\ streamed \subseteq Items
      /\ drv.pc = "erroring"
  BY DriverTypes DEF JournalTurnError, Fits, Driving, DriverType
<1>2. Appends(d, rows, new, new) /\ streamed' = streamed
  BY DEF JournalTurnError
<1>3. rows \in Seq(RowType) /\ \A turns : drv.turn \in turns => Fitting(rows, d, turns)
  BY <1>1, OneRow DEF RowTypes
<1>4. new \in DriverType /\ new.pc = "over"
  BY <1>1, PcShape DEF Resting
<1> HIDE DEF new, rows
<1>5. \A turns : Fits(new, turns)
  BY <1>4 DEF Fits, Driving, Handling
<1> HIDE DEF drv
<1> QED
  BY <1>1, <1>2, <1>3, <1>4, <1>5, Appending

\* Every action keeps the types.
LEMMA TypeNext == TypeInv /\ [Next]_vars => TypeInv'
<1> SUFFICES ASSUME TypeInv, [Next]_vars PROVE TypeInv'
  OBVIOUS
<1>1. CASE UNCHANGED vars
  BY <1>1 DEF vars, TypeInv, TypeOK, HopsBounded, Begun
<1>2. CASE Next
  <2>1. PICK d \in Drivers : Request(d) \/ DriverStep(d) \/ Failure(d)
    BY <1>2 DEF Next
  <2>2. CASE Request(d)
    BY <2>2, StreamRequestedTypes, ResolveApprovalTypes DEF Request
  <2>3. ASSUME NEW call \in driver[d].open, AskApproval(d, call) PROVE TypeInv'
    BY <2>3, AskApprovalRow, CallRowTypes
  <2>4. ASSUME NEW call \in driver[d].open, ToolResult(d, call) PROVE TypeInv'
    BY <2>4, ToolResultRow, CallRowTypes
  <2>5. CASE ToolCall(d)
    BY <2>5, ToolCallRow, CallRowTypes
  <2>6. CASE DriverStep(d)
    BY <2>3, <2>4, <2>5, <2>6, OpenTurnRowTypes, SpendReadTypes, EventsReadTypes, TextDeltaTypes,
       StreamEndsTypes, CapDoneTypes, FlushPartialHopTextTypes, JournalTurnErrorTypes DEF DriverStep
  <2>7. CASE HandlerFails(d)
    BY <2>7, HandlerFailsTurns, TurningTypes
  <2>8. CASE DriverDies(d)
    BY <2>8, DriverDiesTurns, TurningTypes
  <2>9. CASE HopFails(d)
    BY <2>9, HopFailsTurns, TurningTypes DEF Driving
  <2>10. CASE Failure(d)
    BY <2>7, <2>8, <2>9, <2>10, StreamCutTypes DEF Failure
  <2> QED
    BY <2>1, <2>2, <2>6, <2>10
<1> QED
  BY <1>1, <1>2

\* The journal and the drivers keep their shape, whatever is requested,
\* answered, lost or refused (the rows of Agent.ts's appendEvents, and the loop
\* of runStreamingTurn with its hop cap).
THEOREM TypesAreKept == Spec => []TypeOK
<1>1. TypeInv => TypeOK
  BY DEF TypeInv
<1> QED
  BY <1>1, TypeInit, TypeNext, PTL DEF Spec


-----------------------------------------------------------------------------
(* Calls.                                                                    *)

CallTypes == {"tool-call", "tool-result", "approval-requested", "approval-resolved"}

\* A row of the type is about the call.
Logged(type, call) == \E s \in DOMAIN journal : journal[s].type = type /\ journal[s].ids = {call}

\* The driver the call is named after has come to it.
Made(call) ==
  /\ call \in Items
  /\ driver[call[1]].pc \notin Handling \cup {"none"}
  /\ \/ call[2] < driver[call[1]].hop
     \/ call[2] = driver[call[1]].hop /\ call[3] <= driver[call[1]].made

RowsNameCalls ==
  \A s \in DOMAIN journal :
    journal[s].type \in CallTypes => \E c \in Items : journal[s].ids = {c} /\ Made(c)

\* A continuation's answer is on record under its name, and is not used
\* before its first hop.
AnswersAreOnRecord ==
  \A d \in Drivers : \A c \in driver[d].answers :
    /\ Made(c) /\ c[1] # d
    /\ \E s \in DOMAIN journal : /\ journal[s].type = "approval-resolved"
                                 /\ journal[s].ids = {c} /\ journal[s].by = d
    /\ driver[d].pc \in {"resolving", "reading"} => ~Logged("tool-result", c)

\* The calls a hop is to settle: its own, about which nobody has been asked,
\* or the one it has the answer for.
OpenCallsAreNew ==
  \A d \in Drivers : driver[d].pc = "streaming" => \A c \in driver[d].open :
    /\ ~Logged("tool-result", c)
    /\ \/ c \in driver[d].answers
       \/ Made(c) /\ c[1] = d /\ ~Logged("approval-requested", c)

ResolvedOnce ==
  \A s \in DOMAIN journal : journal[s].type = "approval-resolved" =>
    /\ \E r \in DOMAIN journal : /\ journal[r].type = "approval-requested"
                                 /\ journal[r].ids = journal[s].ids
    /\ \A r \in DOMAIN journal : journal[r].type = "approval-resolved"
                                   /\ journal[r].ids = journal[s].ids => r = s

\* A call that was asked about has a result only once it was resolved.
AskedBeforeRun ==
  \A c \in Items : Logged("tool-result", c) /\ Logged("approval-requested", c)
    => Logged("approval-resolved", c)

CallInv ==
  /\ RowsNameCalls /\ AnswersAreOnRecord /\ OpenCallsAreNew
  /\ ResolvedOnce /\ AskedBeforeRun /\ CallAnsweredOnce

-----------------------------------------------------------------------------
(* Text.                                                                     *)

NoLoss == faults \cap {"lost", "refused"} = {}

\* A row of text has pieces of its writer's hop, one that is over if the
\* driver has text it has not journaled, or may yet have.
TextRowsAreOfHops ==
  \A s \in TextRows : LET drv == driver[journal[s].by] IN
    /\ \A i \in journal[s].ids : i[1] = journal[s].by /\ i[2] = journal[s].hop
    /\ drv.pc \notin Handling \cup {"none"}
    /\ journal[s].hop <= drv.hop
    /\ drv.pc = "streaming" \/ drv.text > 0 => journal[s].hop < drv.hop

OneTextPerHop ==
  \A s, r \in TextRows :
    journal[s].by = journal[r].by /\ journal[s].hop = journal[r].hop => s = r

\* What a client has been sent is journaled or is the buffer of the hop.
StreamedIsKept ==
  \A i \in streamed :
    /\ driver[i[1]].pc \notin Handling \cup {"none"}
    /\ \/ \E s \in TextRows : i \in journal[s].ids
       \/ i[2] = driver[i[1]].hop /\ i[3] \in 1 .. driver[i[1]].text

OverIsEmpty == \A d \in Drivers : driver[d].pc \in {"over", "capped", "erroring"} => driver[d].text = 0

Texts == TextRowsAreOfHops /\ OneTextPerHop /\ StreamedIsKept /\ OverIsEmpty
TextInv == NoLoss => Texts


-----------------------------------------------------------------------------
(* A call is answered at most once.                                          *)

\* A driver that goes on has still made the calls it had.
Onward(drv, new) ==
  drv.pc \notin Handling \cup {"none"} =>
    /\ new.pc \notin Handling \cup {"none"}
    /\ new.hop >= drv.hop /\ (new.hop = drv.hop => new.made >= drv.made)

LEMMA MadeStays ==
  ASSUME TypeInv, NEW d \in Drivers, NEW new \in DriverType, NEW rows,
         Moves(d, new, rows), Onward(driver[d], new), NEW c, Made(c)
  PROVE  Made(c)'
<1>1. /\ c \in Items /\ c[1] \in Drivers /\ c[2] \in Nat /\ c[3] \in Nat
  BY DEF Made, Items
<1>2. driver \in [Drivers -> DriverType]
  BY TypeInvFits
<1>3. driver[c[1]] \in DriverType
  BY <1>1, <1>2
<1>4. CASE c[1] = d
  <2>1. driver'[c[1]] = new
    BY <1>2, <1>4 DEF Moves
  <2>2. /\ driver[d].hop \in Nat /\ driver[d].made \in Nat /\ new.hop \in Nat /\ new.made \in Nat
    BY <1>3, <1>4 DEF DriverType
  <2> QED
    BY <1>1, <1>4, <2>1, <2>2 DEF Made, Onward
<1>5. CASE c[1] # d
  <2>1. driver'[c[1]] = driver[c[1]]
    BY <1>1, <1>2, <1>5 DEF Moves
  <2> QED
    BY <1>1, <2>1 DEF Made
<1> QED
  BY <1>4, <1>5

\* What is on record once one row is added.
LEMMA LoggedByOne ==
  ASSUME journal \in Seq(RowType), NEW row \in RowType, journal' = journal \o <<row>>
  PROVE  \A t, c : Logged(t, c)' <=> (Logged(t, c) \/ (row.type = t /\ row.ids = {c}))
<1> DEFINE n == Len(journal) + 1
<1>1. /\ DOMAIN journal' = DOMAIN journal \cup {n} /\ journal'[n] = row
      /\ \A s \in DOMAIN journal : journal'[s] = journal[s]
  BY GrownByOne
<1> HIDE DEF n
<1> QED
  BY <1>1 DEF Logged

\* Rows that are not about calls change no record of calls.
LEMMA LoggedStays ==
  ASSUME journal \in Seq(RowType), NEW rows \in Seq(RowType), journal' = journal \o rows,
         \A i \in DOMAIN rows : rows[i].type \notin CallTypes
  PROVE  /\ DOMAIN journal \subseteq DOMAIN journal'
         /\ \A s \in DOMAIN journal' : journal'[s].type \in CallTypes =>
              s \in DOMAIN journal /\ journal'[s] = journal[s]
         /\ \A s \in DOMAIN journal : journal'[s] = journal[s]
         /\ \A t \in CallTypes : \A c : Logged(t, c)' <=> Logged(t, c)
<1>1. /\ DOMAIN journal \subseteq DOMAIN journal'
      /\ \A s \in DOMAIN journal : journal'[s] = journal[s]
  BY Grown
<1>2. \A s \in DOMAIN journal' : journal'[s].type \in CallTypes =>
        s \in DOMAIN journal /\ journal'[s] = journal[s]
  <2>1. \A s \in DOMAIN journal' \ DOMAIN journal : journal'[s].type \notin CallTypes
    BY Grown
  <2> QED
    BY <1>1, <2>1
<1>3. \A t \in CallTypes : \A c : Logged(t, c)' <=> Logged(t, c)
  BY <1>1, <1>2 DEF Logged
<1> QED
  BY <1>1, <1>2, <1>3

\* Steps that add nothing about calls keep the invariant.
LEMMA CallsUntouched ==
  ASSUME TypeInv, CallInv, NEW d \in Drivers, NEW new \in DriverType, NEW rows \in Seq(RowType),
         Moves(d, new, rows), \A i \in DOMAIN rows : rows[i].type \notin CallTypes,
         Onward(driver[d], new), new.answers = driver[d].answers,
         new.pc \in {"resolving", "reading"} => driver[d].pc \in {"resolving", "reading"},
         new.pc = "streaming" => \A c \in new.open :
           \/ driver[d].pc = "streaming" /\ c \in driver[d].open
           \/ driver[d].pc = "reading" /\ c \in new.answers
  PROVE  CallInv'
<1>1. journal \in Seq(RowType) /\ journal' = journal \o rows /\ driver \in [Drivers -> DriverType]
  BY TypeInvFits DEF Moves
<1>2. /\ driver'[d] = new
      /\ \A k \in Drivers : k # d => driver'[k] = driver[k]
  BY <1>1 DEF Moves
<1>3. /\ DOMAIN journal \subseteq DOMAIN journal'
      /\ \A s \in DOMAIN journal' : journal'[s].type \in CallTypes =>
           s \in DOMAIN journal /\ journal'[s] = journal[s]
      /\ \A s \in DOMAIN journal : journal'[s] = journal[s]
      /\ \A t \in CallTypes : \A c : Logged(t, c)' <=> Logged(t, c)
  BY <1>1, LoggedStays
<1>4. \A c : Made(c) => Made(c)'
  BY MadeStays
<1>5. RowsNameCalls'
  BY <1>3, <1>4 DEF CallInv, RowsNameCalls
<1>6. AnswersAreOnRecord'
  <2>1. SUFFICES ASSUME NEW k \in Drivers, NEW c \in driver'[k].answers
                 PROVE  /\ Made(c)' /\ c[1] # k
                        /\ \E s \in DOMAIN journal' : /\ journal'[s].type = "approval-resolved"
                                                      /\ journal'[s].ids = {c} /\ journal'[s].by = k
                        /\ driver'[k].pc \in {"resolving", "reading"} => ~Logged("tool-result", c)'
    BY DEF AnswersAreOnRecord
  <2>2. c \in driver[k].answers
    BY <1>2
  <2>3. driver'[k].pc \in {"resolving", "reading"} => driver[k].pc \in {"resolving", "reading"}
    BY <1>2
  <2>4. /\ Made(c) /\ c[1] # k
        /\ \E s \in DOMAIN journal : /\ journal[s].type = "approval-resolved"
                                     /\ journal[s].ids = {c} /\ journal[s].by = k
        /\ driver[k].pc \in {"resolving", "reading"} => ~Logged("tool-result", c)
    BY <2>2 DEF CallInv, AnswersAreOnRecord
  <2>5. ~Logged("tool-result", c) => ~Logged("tool-result", c)'
    BY <1>3 DEF CallTypes
  <2> QED
    BY <1>3, <1>4, <2>3, <2>4, <2>5
<1>7. OpenCallsAreNew'
  <2>1. SUFFICES ASSUME NEW k \in Drivers, driver'[k].pc = "streaming", NEW c \in driver'[k].open
                 PROVE  /\ ~Logged("tool-result", c)'
                        /\ \/ c \in driver'[k].answers
                           \/ Made(c)' /\ c[1] = k /\ ~Logged("approval-requested", c)'
    BY DEF OpenCallsAreNew
  <2>2. /\ ~Logged("tool-result", c) => ~Logged("tool-result", c)'
        /\ ~Logged("approval-requested", c) => ~Logged("approval-requested", c)'
    BY <1>3 DEF CallTypes
  <2>3. CASE driver[k].pc = "streaming" /\ c \in driver[k].open
    BY <1>2, <1>4, <2>2, <2>3 DEF CallInv, OpenCallsAreNew
  <2>4. CASE k = d /\ driver[d].pc = "reading" /\ c \in new.answers
    BY <1>2, <2>2, <2>4 DEF CallInv, AnswersAreOnRecord
  <2> QED
    BY <1>2, <2>1, <2>3, <2>4
<1>8. ResolvedOnce'
  BY <1>3 DEF CallInv, ResolvedOnce, CallTypes
<1>9. AskedBeforeRun'
  BY <1>3 DEF CallInv, AskedBeforeRun, CallTypes
<1>10. CallAnsweredOnce'
  BY <1>3 DEF CallInv, CallAnsweredOnce, CallTypes
<1> QED
  BY <1>5, <1>6, <1>7, <1>8, <1>9, <1>10 DEF CallInv

LEMMA MovesOne ==
  ASSUME TypeInv, NEW d \in Drivers, NEW new, NEW rows, Moves(d, new, rows)
  PROVE  driver'[d] = new /\ \A k \in Drivers : k # d => driver'[k] = driver[k]
<1>1. driver \in [Drivers -> DriverType]
  BY TypeInvFits
<1> QED
  BY <1>1 DEF Moves

\* What a step that adds one row about a call has in common.
LEMMA OneCallRow ==
  ASSUME TypeInv, CallInv, NEW d \in Drivers, NEW new \in DriverType, NEW call \in Items,
         NEW row \in RowType, row.type \in CallTypes, row.ids = {call}, row.by = d,
         Moves(d, new, <<row>>), Onward(driver[d], new), Made(call)'
  PROVE  /\ driver'[d] = new /\ \A k \in Drivers : k # d => driver'[k] = driver[k]
         /\ \A c : Made(c) => Made(c)'
         /\ \A t, c : Logged(t, c)' <=> (Logged(t, c) \/ (t = row.type /\ c = call))
         /\ \E n : /\ n \notin DOMAIN journal /\ DOMAIN journal' = DOMAIN journal \cup {n}
                   /\ journal'[n] = row
         /\ \A s \in DOMAIN journal : journal'[s] = journal[s]
         /\ RowsNameCalls'
<1> DEFINE n == Len(journal) + 1
<1>1. journal \in Seq(RowType) /\ journal' = journal \o <<row>>
  BY TypeInvFits DEF Moves
<1>2. driver'[d] = new /\ \A k \in Drivers : k # d => driver'[k] = driver[k]
  BY MovesOne
<1>3. \A c : Made(c) => Made(c)'
  BY MadeStays
<1>4. \A t, c : Logged(t, c)' <=> (Logged(t, c) \/ (row.type = t /\ row.ids = {c}))
  BY <1>1, LoggedByOne
<1>5. \A c : {call} = {c} <=> c = call
  OBVIOUS
<1>6. /\ n \notin DOMAIN journal /\ DOMAIN journal' = DOMAIN journal \cup {n}
      /\ \A s \in DOMAIN journal : journal'[s] = journal[s]
      /\ journal'[n] = row
  BY <1>1, GrownByOne
<1>7. RowsNameCalls'
  <2>1. \A s \in DOMAIN journal : journal[s].type \in CallTypes =>
          \E c \in Items : journal[s].ids = {c} /\ Made(c)
    BY DEF CallInv, RowsNameCalls
  <2> HIDE DEF n
  <2> QED
    BY <1>3, <1>6, <2>1 DEF RowsNameCalls
<1>8. \A t, c : Logged(t, c)' <=> (Logged(t, c) \/ (t = row.type /\ c = call))
  BY <1>4, <1>5
<1>9. \E m : /\ m \notin DOMAIN journal /\ DOMAIN journal' = DOMAIN journal \cup {m}
             /\ journal'[m] = row
  BY <1>6
<1> HIDE DEF n
<1> QED
  BY <1>2, <1>3, <1>6, <1>7, <1>8, <1>9

\* The same, and the calls and answers the other drivers hold.
LEMMA MadeOnward ==
  ASSUME NEW drv \in DriverType, NEW new, NEW made, NEW open, NEW parts,
         Progress(drv, new, made, open, parts), made >= drv.made,
         new.pc \in {"streaming", "erroring", "failing"}
  PROVE  Onward(drv, new) /\ new.hop = drv.hop /\ new.made = made /\ new.open = open
         /\ new.answers = drv.answers
  BY DEF Progress, Onward, DriverType, Handling, SameTurn

LEMMA NewCallKeepsCalls ==
  ASSUME TypeInv, CallInv, NEW d \in Drivers, NEW new \in DriverType, NEW call \in Items,
         Made(call)', ~Made(call), call[1] = d, Onward(driver[d], new),
         driver[d].pc = "streaming",
         new.open = driver[d].open \cup {call}, new.answers = driver[d].answers,
         new.pc \in {"streaming", "erroring", "failing"},
         NEW row \in RowType, row.type = "tool-call", row.ids = {call}, row.by = d,
         Moves(d, new, <<row>>)
  PROVE  CallInv'
<1> DEFINE drv == driver[d]
<1>8. /\ driver'[d] = new /\ \A k \in Drivers : k # d => driver'[k] = driver[k]
      /\ \A c : Made(c) => Made(c)'
      /\ \A t, c : Logged(t, c)' <=> (Logged(t, c) \/ (t = row.type /\ c = call))
      /\ \E n : /\ n \notin DOMAIN journal /\ DOMAIN journal' = DOMAIN journal \cup {n}
                /\ journal'[n] = row
      /\ \A s \in DOMAIN journal : journal'[s] = journal[s]
      /\ RowsNameCalls'
  BY OneCallRow DEF CallTypes
<1> HIDE DEF drv
<1>9. AnswersAreOnRecord'
  BY SMTT(30), <1>8 DEF CallInv, AnswersAreOnRecord, drv
<1>10. OpenCallsAreNew'
  <2>1. \A t \in CallTypes : ~Logged(t, call)
    BY DEF CallInv, RowsNameCalls, Logged
  <2>2. ASSUME NEW k \in Drivers, driver'[k].pc = "streaming", NEW c \in driver'[k].open
        PROVE  /\ ~Logged("tool-result", c)'
               /\ \/ c \in driver'[k].answers
                  \/ Made(c)' /\ c[1] = k /\ ~Logged("approval-requested", c)'
    <3>1. CASE k = d /\ c = call
      BY <1>8, <2>1, <3>1 DEF CallTypes
    <3>2. CASE driver[k].pc = "streaming" /\ c \in driver[k].open
      <4>1. /\ ~Logged("tool-result", c)
            /\ \/ c \in driver[k].answers
               \/ Made(c) /\ c[1] = k /\ ~Logged("approval-requested", c)
        BY <3>2 DEF CallInv, OpenCallsAreNew
      <4>2. driver'[k].answers = driver[k].answers
        BY <1>8 DEF drv
      <4> QED
        BY <1>8, <4>1, <4>2
    <3> QED
      BY <1>8, <2>2, <3>1, <3>2 DEF drv
  <2> QED
    BY <2>2 DEF OpenCallsAreNew
<1>11. ResolvedOnce' /\ CallAnsweredOnce'
  BY <1>8 DEF CallInv, ResolvedOnce, CallAnsweredOnce
<1>12. AskedBeforeRun'
  BY <1>8 DEF CallInv, AskedBeforeRun
<1> QED
  BY <1>8, <1>9, <1>10, <1>11, <1>12 DEF CallInv

LEMMA ToolCallKeepsCalls ==
  ASSUME TypeInv, CallInv, NEW d \in Drivers, NEW new \in DriverType, NEW call,
         driver[d].pc = "streaming", new.pc \in {"streaming", "erroring", "failing"},
         call = Item(d, driver[d].hop, driver[d].made + 1),
         LET drv == driver[d] IN
         /\ Moves(d, new, << Row("tool-call", drv.turn, drv.hop, {call}, d) >>)
         /\ Progress(drv, new, drv.made + 1, drv.open \cup {call}, drv.parts \cup {call})
  PROVE  CallInv'
<1> DEFINE drv == driver[d]
           row == Row("tool-call", drv.turn, drv.hop, {call}, d)
<1>1. drv \in DriverType /\ drv.hop \in Nat /\ drv.made \in Nat /\ drv.turn \in Nat
  BY DriverTypes DEF DriverType
<1>2. /\ call \in Items /\ call[1] = d /\ call[2] = drv.hop /\ call[3] = drv.made + 1
  BY <1>1 DEF Item, Items
<1>3. /\ Onward(drv, new) /\ new.hop = drv.hop /\ new.made = drv.made + 1
      /\ new.open = drv.open \cup {call} /\ new.answers = drv.answers
  BY <1>1, MadeOnward
<1>4. {call} \in SUBSET Items
  BY <1>2
<1>5. row \in RowType /\ row.type = "tool-call" /\ row.ids = {call} /\ row.by = d
  BY <1>1, <1>4 DEF Row, RowType, RowTypes
<1> HIDE DEF row
<1>6. Made(call)' /\ ~Made(call)
  <2>1. driver'[d] = new
    BY MovesOne
  <2> QED
    BY <1>1, <1>2, <1>3, <2>1 DEF Made, Handling
<1>7. Moves(d, new, <<row>>)
  BY DEF row
<1> QED
  BY <1>2, <1>3, <1>5, <1>6, <1>7, NewCallKeepsCalls

LEMMA AskKeepsCalls ==
  ASSUME TypeInv, CallInv, NEW d \in Drivers, NEW new \in DriverType, NEW call \in driver[d].open,
         driver[d].pc = "streaming", new.pc \in {"streaming", "erroring", "failing"},
         call \notin driver[d].answers,
         LET drv == driver[d] IN
         /\ Moves(d, new, << Row("approval-requested", drv.turn, drv.hop, {call}, d) >>)
         /\ Progress(drv, new, drv.made, drv.open \ {call}, drv.parts)
  PROVE  CallInv'
<1> DEFINE drv == driver[d]
           row == Row("approval-requested", drv.turn, drv.hop, {call}, d)
<1>1. drv \in DriverType /\ drv.hop \in Nat /\ drv.made \in Nat /\ drv.turn \in Nat /\ call \in Items
  BY DriverTypes DEF DriverType
<1>2. Made(call) /\ call[1] = d /\ ~Logged("tool-result", call)
  BY DEF CallInv, OpenCallsAreNew
<1>3. /\ Onward(drv, new) /\ new.open = drv.open \ {call} /\ new.answers = drv.answers
  BY <1>1, MadeOnward
<1>4. row \in RowType /\ row.type = "approval-requested" /\ row.ids = {call} /\ row.by = d
  <2>1. {call} \in SUBSET Items
    BY <1>1
  <2> QED
    BY <1>1, <2>1 DEF Row, RowType, RowTypes
<1>5. Made(call)' /\ Moves(d, new, <<row>>)
  BY <1>2, <1>3, MadeStays
<1> HIDE DEF row
<1>7. /\ driver'[d] = new /\ \A k \in Drivers : k # d => driver'[k] = driver[k]
      /\ \A c : Made(c) => Made(c)'
      /\ \A t, c : Logged(t, c)' <=> (Logged(t, c) \/ (t = row.type /\ c = call))
      /\ \E n : /\ n \notin DOMAIN journal /\ DOMAIN journal' = DOMAIN journal \cup {n}
                /\ journal'[n] = row
      /\ \A s \in DOMAIN journal : journal'[s] = journal[s]
      /\ RowsNameCalls'
  BY <1>1, <1>3, <1>4, <1>5, OneCallRow DEF CallTypes
<1> HIDE DEF drv
<1>8. AnswersAreOnRecord'
  BY <1>3, <1>4, <1>7, SMTT(30) DEF CallInv, AnswersAreOnRecord, drv
<1>9. OpenCallsAreNew'
  <2>1. ASSUME NEW k \in Drivers, driver'[k].pc = "streaming", NEW c \in driver'[k].open
        PROVE  /\ ~Logged("tool-result", c)'
               /\ \/ c \in driver'[k].answers
                  \/ Made(c)' /\ c[1] = k /\ ~Logged("approval-requested", c)'
    <3>1. driver[k].pc = "streaming" /\ c \in driver[k].open /\ driver'[k].answers = driver[k].answers
      BY <1>3, <1>4, <1>7, <2>1 DEF drv
    <3>2. /\ ~Logged("tool-result", c)
          /\ \/ c \in driver[k].answers
             \/ Made(c) /\ c[1] = k /\ ~Logged("approval-requested", c)
      BY <3>1 DEF CallInv, OpenCallsAreNew
    <3>3. k = d => c # call
      BY <1>3, <1>4, <1>7, <2>1
    <3> QED
      BY <1>2, <1>4, <1>7, <3>1, <3>2, <3>3
  <2> QED
    BY <2>1 DEF OpenCallsAreNew
<1>10. ResolvedOnce' /\ CallAnsweredOnce'
  BY <1>4, <1>7 DEF CallInv, ResolvedOnce, CallAnsweredOnce
<1>11. AskedBeforeRun'
  BY <1>2, <1>4, <1>7 DEF CallInv, AskedBeforeRun
<1> QED
  BY <1>4, <1>7, <1>8, <1>9, <1>10, <1>11 DEF CallInv

\* Two drivers never hold the same call, and no one is about to.
LEMMA CallsHaveOneHolder ==
  ASSUME TypeInv, CallInv, NEW d \in Drivers, driver[d].pc = "streaming", NEW c \in driver[d].open,
         NEW k \in Drivers,
         \/ driver[k].pc = "streaming" /\ c \in driver[k].open
         \/ driver[k].pc \in {"resolving", "reading"} /\ c \in driver[k].answers
  PROVE  k = d
<1>1. /\ driver[d] \in DriverType /\ c \in Items
  BY DriverTypes DEF DriverType
<1>2. \A j \in Drivers : c \in driver[j].answers =>
        /\ Logged("approval-requested", c)
        /\ \E s \in DOMAIN journal : /\ journal[s].type = "approval-resolved"
                                     /\ journal[s].ids = {c} /\ journal[s].by = j
  <2>1. ASSUME NEW j \in Drivers, c \in driver[j].answers
        PROVE  /\ Logged("approval-requested", c)
               /\ \E s \in DOMAIN journal : /\ journal[s].type = "approval-resolved"
                                            /\ journal[s].ids = {c} /\ journal[s].by = j
    <3>1. PICK s \in DOMAIN journal : /\ journal[s].type = "approval-resolved"
                                      /\ journal[s].ids = {c} /\ journal[s].by = j
      BY <2>1 DEF CallInv, AnswersAreOnRecord
    <3>2. Logged("approval-requested", c)
      BY <3>1 DEF CallInv, ResolvedOnce, Logged
    <3> QED
      BY <3>1, <3>2
  <2> QED
    BY <2>1
<1>3. ASSUME NEW j \in Drivers, c \in driver[j].answers, c \in driver[d].answers PROVE j = d
  <2>1. PICK s \in DOMAIN journal : /\ journal[s].type = "approval-resolved"
                                    /\ journal[s].ids = {c} /\ journal[s].by = j
    BY <1>2, <1>3
  <2>2. PICK r \in DOMAIN journal : /\ journal[r].type = "approval-resolved"
                                    /\ journal[r].ids = {c} /\ journal[r].by = d
    BY <1>2, <1>3
  <2>3. r = s
    BY <2>1, <2>2 DEF CallInv, ResolvedOnce
  <2> QED
    BY <2>1, <2>2, <2>3
<1>4. CASE c \in driver[d].answers
  <2>1. c \in driver[k].answers
    BY <1>2, <1>4 DEF CallInv, OpenCallsAreNew
  <2> QED
    BY <1>3, <1>4, <2>1
<1>5. CASE c[1] = d /\ ~Logged("approval-requested", c)
  <2>1. c \notin driver[k].answers
    BY <1>2, <1>5
  <2> QED
    BY <1>5, <2>1 DEF CallInv, OpenCallsAreNew
<1> QED
  BY <1>4, <1>5 DEF CallInv, OpenCallsAreNew

LEMMA ResultKeepsCalls ==
  ASSUME TypeInv, CallInv, NEW d \in Drivers, NEW new \in DriverType, NEW call \in driver[d].open,
         driver[d].pc = "streaming", new.pc \in {"streaming", "erroring", "failing"},
         LET drv == driver[d] IN
         /\ Moves(d, new, << Row("tool-result", drv.turn, drv.hop, {call}, d) >>)
         /\ Progress(drv, new, drv.made, drv.open \ {call}, drv.parts \cup {call})
  PROVE  CallInv'
<1> DEFINE drv == driver[d]
           row == Row("tool-result", drv.turn, drv.hop, {call}, d)
<1>1. drv \in DriverType /\ drv.hop \in Nat /\ drv.made \in Nat /\ drv.turn \in Nat /\ call \in Items
  BY DriverTypes DEF DriverType
<1>2. Made(call) /\ ~Logged("tool-result", call)
  BY DEF CallInv, OpenCallsAreNew, AnswersAreOnRecord
<1>3. /\ Onward(drv, new) /\ new.open = drv.open \ {call} /\ new.answers = drv.answers
  BY <1>1, MadeOnward
<1>4. row \in RowType /\ row.type = "tool-result" /\ row.ids = {call} /\ row.by = d
  <2>1. {call} \in SUBSET Items
    BY <1>1
  <2> QED
    BY <1>1, <2>1 DEF Row, RowType, RowTypes
<1>5. Made(call)' /\ Moves(d, new, <<row>>)
  BY <1>2, <1>3, MadeStays
<1> HIDE DEF row
<1>7. /\ driver'[d] = new /\ \A k \in Drivers : k # d => driver'[k] = driver[k]
      /\ \A c : Made(c) => Made(c)'
      /\ \A t, c : Logged(t, c)' <=> (Logged(t, c) \/ (t = row.type /\ c = call))
      /\ \E n : /\ n \notin DOMAIN journal /\ DOMAIN journal' = DOMAIN journal \cup {n}
                /\ journal'[n] = row
      /\ \A s \in DOMAIN journal : journal'[s] = journal[s]
      /\ RowsNameCalls'
  BY <1>1, <1>3, <1>4, <1>5, OneCallRow DEF CallTypes
<1> HIDE DEF drv
<1>8. AnswersAreOnRecord'
  <2>1. ASSUME NEW k \in Drivers, NEW c \in driver'[k].answers
        PROVE  /\ Made(c)' /\ c[1] # k
               /\ \E s \in DOMAIN journal' : /\ journal'[s].type = "approval-resolved"
                                             /\ journal'[s].ids = {c} /\ journal'[s].by = k
               /\ driver'[k].pc \in {"resolving", "reading"} => ~Logged("tool-result", c)'
    <3>1. c \in driver[k].answers
      BY <1>3, <1>4, <1>7, <2>1 DEF drv
    <3>2. /\ Made(c) /\ c[1] # k
          /\ \E s \in DOMAIN journal : /\ journal[s].type = "approval-resolved"
                                       /\ journal[s].ids = {c} /\ journal[s].by = k
          /\ driver[k].pc \in {"resolving", "reading"} => ~Logged("tool-result", c)
      BY <3>1 DEF CallInv, AnswersAreOnRecord
    <3>3. driver'[k].pc \in {"resolving", "reading"} => k # d /\ driver'[k] = driver[k]
      BY <1>4, <1>7
    <3>4. driver'[k].pc \in {"resolving", "reading"} => c # call
      BY <3>1, <3>3, CallsHaveOneHolder
    <3> QED
      BY <1>4, <1>7, <3>2, <3>3, <3>4
  <2> QED
    BY <2>1 DEF AnswersAreOnRecord
<1>9. OpenCallsAreNew'
  <2>1. ASSUME NEW k \in Drivers, driver'[k].pc = "streaming", NEW c \in driver'[k].open
        PROVE  /\ ~Logged("tool-result", c)'
               /\ \/ c \in driver'[k].answers
                  \/ Made(c)' /\ c[1] = k /\ ~Logged("approval-requested", c)'
    <3>1. driver[k].pc = "streaming" /\ c \in driver[k].open /\ driver'[k].answers = driver[k].answers
      BY <1>3, <1>4, <1>7, <2>1 DEF drv
    <3>2. /\ ~Logged("tool-result", c)
          /\ \/ c \in driver[k].answers
             \/ Made(c) /\ c[1] = k /\ ~Logged("approval-requested", c)
      BY <3>1 DEF CallInv, OpenCallsAreNew
    <3>3. k = d => c # call
      BY <1>3, <1>4, <1>7, <2>1
    <3>4. k # d => c # call
      BY <3>1, CallsHaveOneHolder
    <3> QED
      BY <1>4, <1>7, <3>1, <3>2, <3>3, <3>4
  <2> QED
    BY <2>1 DEF OpenCallsAreNew
<1>10. ResolvedOnce'
  BY <1>4, <1>7 DEF CallInv, ResolvedOnce
<1>11. CallAnsweredOnce'
  <2>1. \A s \in DOMAIN journal : journal[s].type = "tool-result" => journal[s].ids # {call}
    BY <1>2 DEF Logged
  <2> QED
    BY <1>4, <1>7, <2>1 DEF CallInv, CallAnsweredOnce
<1>12. AskedBeforeRun'
  <2>1. Logged("approval-requested", call) => Logged("approval-resolved", call)
    <3>1. CASE call \in drv.answers
      BY <3>1 DEF CallInv, AnswersAreOnRecord, Logged, drv
    <3> QED
      BY <3>1 DEF CallInv, OpenCallsAreNew, drv
  <2> QED
    BY <1>4, <1>7, <2>1 DEF CallInv, AskedBeforeRun
<1> QED
  BY <1>4, <1>7, <1>8, <1>9, <1>10, <1>11, <1>12 DEF CallInv

LEMMA ResolveKeepsCalls ==
  ASSUME TypeInv, CallInv, NEW d \in Drivers, NEW new \in DriverType, NEW s \in DOMAIN journal,
         driver[d].pc = "none", new.pc \in {"resolving", "dead"},
         journal[s].type = "approval-requested",
         \A call \in journal[s].ids : ~AlreadyResolved(journal, call),
         new.answers = journal[s].ids \/ (new.answers = {} /\ new.pc = "dead"),
         NEW row \in RowType, row.type = "approval-resolved", row.ids = journal[s].ids, row.by = d,
         Moves(d, new, <<row>>)
  PROVE  CallInv'
<1>1. PICK call \in Items : journal[s].ids = {call} /\ Made(call)
  BY DEF CallInv, RowsNameCalls, CallTypes
<1>2. ~Logged("approval-resolved", call) /\ Logged("approval-requested", call)
  BY <1>1 DEF Logged, AlreadyResolved
<1>3. ~Logged("tool-result", call)
  BY <1>1, <1>2 DEF CallInv, AskedBeforeRun
<1>4. call[1] # d
  BY <1>1 DEF Made
<1>5. Onward(driver[d], new)
  BY DEF Onward
<1>6. Made(call)'
  BY <1>1, <1>5, MadeStays
<1>7. row.ids = {call}
  BY <1>1
<1>8. /\ driver'[d] = new /\ \A k \in Drivers : k # d => driver'[k] = driver[k]
      /\ \A c : Made(c) => Made(c)'
      /\ \A t, c : Logged(t, c)' <=> (Logged(t, c) \/ (t = row.type /\ c = call))
      /\ \E n : /\ n \notin DOMAIN journal /\ DOMAIN journal' = DOMAIN journal \cup {n}
                /\ journal'[n] = row
      /\ \A r \in DOMAIN journal : journal'[r] = journal[r]
      /\ RowsNameCalls'
  BY <1>5, <1>6, <1>7, OneCallRow DEF CallTypes
<1>9. AnswersAreOnRecord'
  <2>1. ASSUME NEW k \in Drivers, NEW c \in driver'[k].answers
        PROVE  /\ Made(c)' /\ c[1] # k
               /\ \E r \in DOMAIN journal' : /\ journal'[r].type = "approval-resolved"
                                             /\ journal'[r].ids = {c} /\ journal'[r].by = k
               /\ driver'[k].pc \in {"resolving", "reading"} => ~Logged("tool-result", c)'
    <3>1. CASE k = d
      <4>1. c = call
        BY <1>1, <1>8, <2>1, <3>1
      <4> QED
        BY <1>3, <1>4, <1>6, <1>7, <1>8, <3>1, <4>1
    <3>2. CASE k # d
      BY <1>8, <2>1, <3>2 DEF CallInv, AnswersAreOnRecord
    <3> QED
      BY <3>1, <3>2
  <2> QED
    BY <2>1 DEF AnswersAreOnRecord
<1>10. OpenCallsAreNew'
  BY <1>8 DEF CallInv, OpenCallsAreNew
<1>11. ResolvedOnce'
  <2>1. \A r \in DOMAIN journal : journal[r].type = "approval-resolved" => journal[r].ids # {call}
    BY <1>2 DEF Logged
  <2> QED
    <3>1. PICK n : /\ n \notin DOMAIN journal /\ DOMAIN journal' = DOMAIN journal \cup {n}
                   /\ journal'[n] = row
      BY <1>8
    <3>2. ASSUME NEW q \in DOMAIN journal', journal'[q].type = "approval-resolved"
          PROVE  \E r \in DOMAIN journal' : /\ journal'[r].type = "approval-requested"
                                             /\ journal'[r].ids = journal'[q].ids
      <4>1. CASE q = n
        <5>1. journal'[s].type = "approval-requested" /\ journal'[s].ids = journal'[q].ids
          BY <1>8, <3>1, <4>1
        <5> QED
          BY <3>1, <5>1
      <4>2. CASE q \in DOMAIN journal
        <5>1. PICK r \in DOMAIN journal : /\ journal[r].type = "approval-requested"
                                          /\ journal[r].ids = journal[q].ids
          BY <1>8, <3>2, <4>2 DEF CallInv, ResolvedOnce
        <5> QED
          BY <1>8, <3>1, <4>2, <5>1
      <4> QED
        BY <3>1, <4>1, <4>2
    <3>3. ASSUME NEW q \in DOMAIN journal', journal'[q].type = "approval-resolved",
                 NEW r \in DOMAIN journal', journal'[r].type = "approval-resolved",
                 journal'[r].ids = journal'[q].ids
          PROVE  r = q
      <4>1. CASE q \in DOMAIN journal /\ r \in DOMAIN journal
        BY <1>8, <3>3, <4>1 DEF CallInv, ResolvedOnce
      <4> QED
        BY <1>7, <1>8, <2>1, <3>1, <3>3, <4>1
    <3> QED
      BY <3>2, <3>3 DEF ResolvedOnce
<1>12. CallAnsweredOnce'
  BY <1>8 DEF CallInv, CallAnsweredOnce
<1>13. AskedBeforeRun'
  BY <1>8 DEF CallInv, AskedBeforeRun
<1> QED
  BY <1>8, <1>9, <1>10, <1>11, <1>12, <1>13 DEF CallInv

\* A driver that keeps its answer and opens no call but the one it answers.
Keeps(drv, new) ==
  /\ new \in DriverType /\ Onward(drv, new) /\ new.answers = drv.answers
  /\ new.pc \in {"resolving", "reading"} => drv.pc \in {"resolving", "reading"}
  /\ new.pc = "streaming" => \A c \in new.open :
       \/ drv.pc = "streaming" /\ c \in drv.open
       \/ drv.pc = "reading" /\ c \in new.answers

LEMMA MovesKeepCalls ==
  ASSUME TypeInv, CallInv, NEW d \in Drivers, NEW new, Keeps(driver[d], new),
         NEW rows \in Seq(RowType), \A i \in DOMAIN rows : rows[i].type \notin CallTypes,
         Moves(d, new, rows)
  PROVE  CallInv'
  BY CallsUntouched DEF Keeps

LEMMA AppendsKeepCalls ==
  ASSUME TypeInv, CallInv, NEW d \in Drivers, NEW answered, NEW failed,
         Keeps(driver[d], answered), Keeps(driver[d], failed),
         NEW rows \in Seq(RowType), \A i \in DOMAIN rows : rows[i].type \notin CallTypes,
         Appends(d, rows, answered, failed)
  PROVE  CallInv'
<1>1. journal \in Seq(RowType) /\ faults \subseteq Faults
  BY TypeInvFits
<1>2. << >> \in Seq(RowType) /\ DOMAIN << >> = {}
  BY <1>1, Unchanged
<1>3. \/ Moves(d, answered, rows)
      \/ Moves(d, failed, rows)
      \/ Moves(d, failed, << >>)
  BY <1>1, AppendOutcomes
<1>4. CASE Moves(d, failed, << >>)
  BY <1>2, <1>4, MovesKeepCalls
<1> QED
  BY <1>3, <1>4, MovesKeepCalls

\* A driver that was at work and comes to a state without open calls.
LEMMA KeepsOn ==
  ASSUME NEW drv \in DriverType, NEW new \in DriverType,
         new.answers = drv.answers,
         drv.pc \notin Handling \cup {"none"} =>
           new.hop >= drv.hop /\ (new.hop = drv.hop => new.made >= drv.made),
         \/ new.pc \in {"dead", "over", "capped", "ending", "failing", "erroring"}
         \/ new.pc = "streaming" /\ new.open = {}
         \/ new.pc = "streaming" /\ drv.pc = "streaming" /\ new.open \subseteq drv.open
  PROVE  Keeps(drv, new)
<1>1. new.pc \notin Handling \cup {"none"}
  BY DEF Handling
<1>2. Onward(drv, new)
  BY <1>1 DEF Onward
<1> QED
  BY <1>2 DEF Keeps

LEMMA KeepsTurning ==
  ASSUME NEW drv \in DriverType, NEW pc \in {"dead", "over", "capped", "ending", "failing", "erroring"}
  PROVE  Keeps(drv, [drv EXCEPT !.pc = pc])
<1> DEFINE new == [drv EXCEPT !.pc = pc]
<1>1. /\ new \in DriverType /\ SameTurn(drv, new) /\ new.pc = pc
      /\ new.hop = drv.hop /\ new.made = drv.made
  BY PcShape DEF Driving, Resting
<1> HIDE DEF new
<1>2. new.answers = drv.answers /\ new.hop >= drv.hop /\ new.made >= drv.made
  BY <1>1 DEF SameTurn, DriverType
<1>3. Keeps(drv, new)
  BY <1>1, <1>2, KeepsOn
<1> QED
  BY <1>3 DEF new

LEMMA KeepsFails ==
  ASSUME NEW drv \in DriverType
  PROVE  Keeps(drv, Fails(drv)) /\ Keeps(drv, Settles(drv))
<1>1. Fails(drv) = [drv EXCEPT !.pc = Fails(drv).pc] /\ Fails(drv).pc \in {"erroring", "failing"}
  BY FailsShape
<1>2. Settles(drv) = [drv EXCEPT !.pc = Settles(drv).pc] /\ Settles(drv).pc \in {"over", "ending"}
  BY SettlesShape
<1> DEFINE p == Fails(drv).pc
           q == Settles(drv).pc
<1>3. Keeps(drv, [drv EXCEPT !.pc = p]) /\ Keeps(drv, [drv EXCEPT !.pc = q])
  <2>1. p \in {"erroring", "failing"} /\ q \in {"over", "ending"}
    BY <1>1, <1>2
  <2> HIDE DEF p, q
  <2> QED
    BY <2>1, KeepsTurning
<1> QED
  BY <1>1, <1>2, <1>3

LEMMA RequestKeepsCalls ==
  ASSUME TypeInv, CallInv, NEW d \in Drivers, Request(d)
  PROVE  CallInv'
<1>1. driver[d] \in DriverType /\ Fits(driver[d], Turns(journal)) /\ journal \in Seq(RowType)
      /\ faults \subseteq Faults
  BY DriverTypes
<1>2. CASE StreamRequested(d)
  <2> DEFINE spend == Spend(journal)
             new == [Idle EXCEPT !.pc = "opening", !.opens = TRUE, !.running = spend]
  <2>1. /\ driver[d].pc = "none" /\ Set(d, new) /\ journal' = journal
    BY <1>2 DEF StreamRequested, Fresh
  <2>2. spend \in Nat
    BY <1>1, SpendIsNat
  <2> HIDE DEF spend
  <2>3. new \in DriverType /\ new.pc = "opening" /\ new.answers = {}
    BY <2>2 DEF Idle, DriverType, Handling
  <2> HIDE DEF new
  <2>4. Keeps(driver[d], new)
    BY <1>1, <2>1, <2>3 DEF Keeps, Onward, Fits
  <2>5. Moves(d, new, << >>) /\ << >> \in Seq(RowType) /\ DOMAIN << >> = {}
    BY <1>1, <2>1, SetsMove, Unchanged
  <2> QED
    BY <2>4, <2>5, MovesKeepCalls
<1>3. ASSUME NEW s \in DOMAIN journal, ResolveApproval(d, s) PROVE CallInv'
  <2> DEFINE turn == journal[s].turn
             ids == journal[s].ids
             new == Resolving(turn, ids)
             gone == Unresolved(turn)
             row == Row("approval-resolved", turn, 0, ids, d)
  <2>1. /\ driver[d].pc = "none" /\ journal[s].type = "approval-requested"
        /\ \A call \in ids : ~AlreadyResolved(journal, call)
        /\ Appends(d, <<row>>, new, gone)
    BY <1>3 DEF ResolveApproval, Fresh, Resolving, Unresolved
  <2>2. turn \in Nat /\ ids \in SUBSET Items
    BY TypeInvFits DEF RowType
  <2>3. /\ new \in DriverType /\ new.pc = "resolving" /\ new.answers = ids
        /\ gone \in DriverType /\ gone.pc = "dead" /\ gone.answers = {}
    BY <2>2, ResolvingShape
  <2>4. row \in RowType /\ row.type = "approval-resolved" /\ row.ids = ids /\ row.by = d
    BY <2>2 DEF Row, RowType, RowTypes
  <2> HIDE DEF row, new, gone
  <2>5. \/ Moves(d, new, <<row>>)
        \/ Moves(d, gone, <<row>>)
        \/ Moves(d, gone, << >>)
    BY <1>1, <2>1, AppendOutcomes
  <2>6. CASE Moves(d, gone, << >>)
    <3>1. Keeps(driver[d], gone)
      BY <1>1, <2>1, <2>3 DEF Keeps, Onward, Fits
    <3>2. << >> \in Seq(RowType) /\ DOMAIN << >> = {}
      BY <1>1, Unchanged
    <3> QED
      BY <2>6, <3>1, <3>2, MovesKeepCalls
  <2>7. CASE Moves(d, new, <<row>>)
    BY <2>1, <2>3, <2>4, <2>7, ResolveKeepsCalls
  <2>8. CASE Moves(d, gone, <<row>>)
    BY <2>1, <2>3, <2>4, <2>8, ResolveKeepsCalls
  <2> QED
    BY <2>5, <2>6, <2>7, <2>8
<1> QED
  BY <1>2, <1>3 DEF Request

\* The rows that come with a call.
LEMMA CallRowsKeepCalls ==
  ASSUME TypeInv, CallInv, NEW d \in Drivers,
         \/ ToolCall(d)
         \/ \E call \in driver[d].open : AskApproval(d, call) \/ ToolResult(d, call)
  PROVE  CallInv'
<1>1. driver[d] \in DriverType /\ journal \in Seq(RowType) /\ faults \subseteq Faults
  BY DriverTypes
<1> DEFINE drv == driver[d]
<1>2. ASSUME NEW type, NEW call, NEW made, NEW open, NEW parts,
             CallRow(d, type, call, made, open, parts), made >= drv.made,
             \A new \in DriverType :
               /\ Progress(drv, new, made, open, parts)
               /\ new.pc \in {"streaming", "erroring", "failing"}
               /\ Moves(d, new, << Row(type, drv.turn, drv.hop, {call}, d) >>)
               => CallInv'
      PROVE  CallInv'
  <2> DEFINE rows == << Row(type, drv.turn, drv.hop, {call}, d) >>
  <2>1. PICK answered, failed \in DriverType :
          /\ Appends(d, rows, answered, failed)
          /\ Progress(drv, answered, made, open, parts) /\ answered.pc = "streaming"
          /\ Progress(drv, failed, made, open, parts)
          /\ failed.pc = IF drv.text = 0 THEN "erroring" ELSE "failing"
    BY <1>2 DEF CallRow
  <2>2. drv.pc = "streaming"
    BY <1>2 DEF CallRow
  <2> HIDE DEF rows
  <2>3. \/ Moves(d, answered, rows)
        \/ Moves(d, failed, rows)
        \/ Moves(d, failed, << >>)
    BY <1>1, <2>1, AppendOutcomes
  <2>4. CASE Moves(d, failed, << >>)
    <3>1. Onward(drv, failed) /\ failed.answers = drv.answers
      BY <1>1, <1>2, <2>1, MadeOnward
    <3>2. Keeps(drv, failed)
      BY <2>1, <3>1 DEF Keeps
    <3>3. << >> \in Seq(RowType) /\ DOMAIN << >> = {}
      BY <1>1, Unchanged
    <3> QED
      BY <2>4, <3>2, <3>3, MovesKeepCalls
  <2>5. failed.pc \in {"streaming", "erroring", "failing"} /\ answered.pc \in {"streaming", "erroring", "failing"}
    BY <2>1
  <2> QED
    BY <1>2, <2>1, <2>3, <2>4, <2>5 DEF rows
<1>3. drv.made \in Nat
  BY <1>1 DEF DriverType
<1>4. CASE ToolCall(d)
  <2>1. PICK call : call = Item(d, drv.hop, drv.made + 1)
    OBVIOUS
  <2>2. CallRow(d, "tool-call", call, drv.made + 1, drv.open \cup {call}, drv.parts \cup {call})
    BY <1>4, <2>1, ToolCallRow
  <2>3. drv.pc = "streaming"
    BY <2>2 DEF CallRow
  <2>4. \A new \in DriverType :
          /\ Progress(drv, new, drv.made + 1, drv.open \cup {call}, drv.parts \cup {call})
          /\ new.pc \in {"streaming", "erroring", "failing"}
          /\ Moves(d, new, << Row("tool-call", drv.turn, drv.hop, {call}, d) >>)
          => CallInv'
    BY <2>1, <2>3, ToolCallKeepsCalls
  <2>5. drv.made + 1 >= drv.made
    BY <1>3
  <2> QED
    BY <1>2, <2>2, <2>4, <2>5
<1>5. ASSUME NEW call \in drv.open, AskApproval(d, call) PROVE CallInv'
  <2>1. /\ CallRow(d, "approval-requested", call, drv.made, drv.open \ {call}, drv.parts)
        /\ call \notin drv.answers
    BY <1>5, AskApprovalRow
  <2>2. drv.pc = "streaming"
    BY <2>1 DEF CallRow
  <2>3. \A new \in DriverType :
          /\ Progress(drv, new, drv.made, drv.open \ {call}, drv.parts)
          /\ new.pc \in {"streaming", "erroring", "failing"}
          /\ Moves(d, new, << Row("approval-requested", drv.turn, drv.hop, {call}, d) >>)
          => CallInv'
    BY <2>1, <2>2, AskKeepsCalls
  <2>4. drv.made >= drv.made
    BY <1>3
  <2> QED
    BY <1>2, <2>1, <2>3, <2>4
<1>6. ASSUME NEW call \in drv.open, ToolResult(d, call) PROVE CallInv'
  <2>1. CallRow(d, "tool-result", call, drv.made, drv.open \ {call}, drv.parts \cup {call})
    BY <1>6, ToolResultRow
  <2>2. drv.pc = "streaming"
    BY <2>1 DEF CallRow
  <2>3. \A new \in DriverType :
          /\ Progress(drv, new, drv.made, drv.open \ {call}, drv.parts \cup {call})
          /\ new.pc \in {"streaming", "erroring", "failing"}
          /\ Moves(d, new, << Row("tool-result", drv.turn, drv.hop, {call}, d) >>)
          => CallInv'
    BY <2>1, <2>2, ResultKeepsCalls
  <2>4. drv.made >= drv.made
    BY <1>3
  <2> QED
    BY <1>2, <2>1, <2>3, <2>4
<1> QED
  BY <1>4, <1>5, <1>6

\* A step that adds one row, which is not about a call.
LEMMA OtherRow ==
  ASSUME NEW row \in RowType, row.type \notin CallTypes
  PROVE  /\ <<row>> \in Seq(RowType)
         /\ \A i \in DOMAIN <<row>> : <<row>>[i].type \notin CallTypes
<1>1. DOMAIN <<row>> = {1} /\ <<row>>[1] = row
  OBVIOUS
<1> QED
  BY <1>1

LEMMA OtherStepsKeepCalls ==
  ASSUME TypeInv, CallInv, NEW d \in Drivers,
         \/ OpenTurnRow(d) \/ SpendRead(d) \/ EventsRead(d) \/ TextDelta(d) \/ StreamEnds(d)
         \/ CapDone(d) \/ FlushPartialHopText(d) \/ JournalTurnError(d) \/ Failure(d)
  PROVE  CallInv'
<1> DEFINE drv == driver[d]
<1>1. /\ drv \in DriverType /\ journal \in Seq(RowType) /\ Fits(drv, Turns(journal))
      /\ << >> \in Seq(RowType) /\ DOMAIN << >> = {}
      /\ drv.turn \in Nat /\ drv.hop \in Nat /\ drv.made \in Nat
  BY DriverTypes, Unchanged DEF DriverType
<1>2. CASE OpenTurnRow(d)
  <2> DEFINE turn == Len(journal) + 1
             new == EntersHop([drv EXCEPT !.turn = turn])
             gone == [drv EXCEPT !.pc = "dead"]
             row == Row("user-message", turn, 0, {}, d)
  <2>1. drv.pc = "opening" /\ Appends(d, <<row>>, new, gone)
    BY <1>2 DEF OpenTurnRow
  <2>2. turn \in Nat
    BY <1>1
  <2>3. /\ new \in DriverType /\ new.answers = {}
        /\ \/ new.pc = "erroring"
           \/ new.pc = "streaming" /\ new.open = {}
    BY <2>1, <2>2, OpenedShape
  <2>4. drv.answers = {}
    BY <1>1, <2>1 DEF Fits
  <2>5. Keeps(drv, gone)
    BY <1>1, KeepsTurning
  <2>6. row \in RowType /\ row.type \notin CallTypes
    BY <2>2 DEF Row, RowType, RowTypes, CallTypes
  <2> HIDE DEF new, gone, row
  <2>7. <<row>> \in Seq(RowType) /\ \A i \in DOMAIN <<row>> : <<row>>[i].type \notin CallTypes
    BY <2>6, OtherRow
  <2>8. Keeps(drv, new)
    BY <1>1, <2>1, <2>3, <2>4, KeepsOn DEF Handling
  <2> QED
    BY <2>1, <2>5, <2>7, <2>8, AppendsKeepCalls
<1>3. CASE SpendRead(d)
  <2> DEFINE spend == Spend(journal)
             new == [drv EXCEPT !.pc = "reading", !.running = spend]
  <2>1. drv.pc = "resolving" /\ Set(d, new) /\ journal' = journal
    BY <1>3 DEF SpendRead
  <2>2. spend \in Nat
    BY <1>1, SpendIsNat
  <2> HIDE DEF spend
  <2>3. new \in DriverType /\ new.pc = "reading" /\ new.answers = drv.answers
    BY <1>1, <2>2 DEF DriverType, Handling
  <2> HIDE DEF new
  <2>4. Keeps(drv, new)
    BY <2>1, <2>3 DEF Keeps, Onward, Handling
  <2>5. Moves(d, new, << >>)
    BY <1>1, <2>1, SetsMove
  <2> QED
    BY <1>1, <2>4, <2>5, MovesKeepCalls
<1>4. CASE EventsRead(d)
  <2>1. PICK new \in DriverType :
          /\ Moves(d, new, << >>) /\ drv.pc = "reading" /\ new.answers = drv.answers
          /\ \/ new.pc = "erroring"
             \/ new.pc = "streaming" /\ new.open = IF new.knows THEN new.answers ELSE {}
    BY <1>4, ReadShape
  <2>2. Keeps(drv, new)
    BY <2>1 DEF Keeps, Onward, Handling
  <2> QED
    BY <1>1, <2>1, <2>2, MovesKeepCalls
<1>5. CASE TextDelta(d)
  <2>1. PICK new \in DriverType :
          /\ Moves(d, new, << >>) /\ drv.pc = "streaming" /\ new.pc = "streaming"
          /\ SameTurn(drv, new) /\ new.hop = drv.hop /\ new.made = drv.made /\ new.open = drv.open
    BY <1>5, TextDeltaWrites
  <2>2. Keeps(drv, new)
    BY <1>1, <2>1, KeepsOn DEF SameTurn
  <2> QED
    BY <1>1, <2>1, <2>2, MovesKeepCalls
<1>6. ASSUME NEW reason \in {"none", "stop", "tool-calls"}, drv.pc = "streaming"
      PROVE  /\ Keeps(drv, AfterHop(drv, reason)) /\ HopBatch(d, reason) \in Seq(RowType)
             /\ \A i \in DOMAIN HopBatch(d, reason) : HopBatch(d, reason)[i].type \notin CallTypes
  <2> DEFINE new == AfterHop(drv, reason)
             rows == HopBatch(d, reason)
             texts == {Item(d, drv.hop, n) : n \in 1 .. drv.text}
  <2>1. /\ new \in DriverType /\ SameTurn(drv, new)
        /\ \/ new.pc \in {"over", "capped"} /\ new.hop = drv.hop
           \/ /\ new.pc \in {"streaming", "erroring"} /\ new.hop = drv.hop + 1
              /\ new.pc = "streaming" => new.open = {}
        /\ new.hop >= drv.hop /\ (new.hop = drv.hop => new.made = drv.made)
    BY <1>6, AfterHopState
  <2>2. /\ rows \in Seq(RowType)
        /\ RowSet(rows) \subseteq
             {Row("hop-messages", drv.turn, drv.hop, drv.parts, d),
              Row("assistant-text", drv.turn, drv.hop, texts, d),
              Row("usage", drv.turn, drv.hop, {}, d), Row("done", drv.turn, 0, {}, d)}
    BY <1>1, BatchRows DEF Assorted
  <2> HIDE DEF new, rows
  <2>3. Keeps(drv, new)
    BY <1>1, <2>1, KeepsOn DEF SameTurn
  <2>4. \A row \in RowSet(rows) : row.type \notin CallTypes
    BY <2>2 DEF Row, CallTypes
  <2>5. \A i \in DOMAIN rows : rows[i] \in RowSet(rows)
    BY DEF RowSet
  <2> QED
    BY <2>2, <2>3, <2>4, <2>5 DEF new, rows
<1>7. CASE StreamEnds(d)
  <2>1. drv.pc = "streaming"
    BY <1>7 DEF StreamEnds
  <2>2. PICK reason \in {"none", "stop", "tool-calls"} :
          Appends(d, HopBatch(d, reason), AfterHop(drv, reason), Fails(drv))
    BY <1>7 DEF StreamEnds
  <2>3. Keeps(drv, Fails(drv))
    BY <1>1, KeepsFails
  <2> QED
    BY <1>6, <2>1, <2>2, <2>3, AppendsKeepCalls
<1>8. CASE StreamCut(d)
  <2> DEFINE reason == "none"
  <2>1. drv.pc = "streaming" /\ Moves(d, AfterHop(drv, reason), HopBatch(d, reason))
        /\ reason \in {"none", "stop", "tool-calls"}
    BY <1>8 DEF StreamCut, Moves, Set
  <2> HIDE DEF reason
  <2> QED
    BY <1>6, <2>1, MovesKeepCalls
<1>9. CASE CapDone(d)
  <2> DEFINE row == Row("done", drv.turn, 0, {}, d)
  <2>1. Appends(d, <<row>>, Settles(drv), Fails(drv))
    BY <1>9 DEF CapDone, DoneRow
  <2>2. Keeps(drv, Settles(drv)) /\ Keeps(drv, Fails(drv))
    BY <1>1, KeepsFails
  <2>3. row \in RowType /\ row.type \notin CallTypes
    BY <1>1 DEF Row, RowType, RowTypes, CallTypes
  <2> HIDE DEF row
  <2>4. <<row>> \in Seq(RowType) /\ \A i \in DOMAIN <<row>> : <<row>>[i].type \notin CallTypes
    BY <2>3, OtherRow
  <2> QED
    BY <2>1, <2>2, <2>3, <2>4, AppendsKeepCalls
<1>10. CASE FlushPartialHopText(d)
  <2> DEFINE new == Flushed(drv)
             texts == {Item(d, drv.hop, n) : n \in 1 .. drv.text}
             row == Row("assistant-text", drv.turn, drv.hop, texts, d)
             rows == TextRow(d)
  <2>1. Appends(d, rows, new, new)
    BY <1>10 DEF FlushPartialHopText, Flushed
  <2>2. /\ new \in DriverType /\ SameTurn(drv, new) /\ new.hop = drv.hop /\ new.made = drv.made
        /\ new.pc \in {"over", "erroring"}
    BY <1>1, FlushedShape
  <2>3. rows \in Seq(RowType) /\ rows = IF drv.text = 0 THEN << >> ELSE <<row>>
    BY <1>1, TextRowIs
  <2>4. row.type \notin CallTypes
    BY DEF Row, CallTypes
  <2> HIDE DEF new, rows, row
  <2>5. \A i \in DOMAIN rows : rows[i].type \notin CallTypes
    <3>1. CASE rows = << >>
      BY <1>1, <3>1
    <3>2. CASE rows = <<row>>
      <4>1. DOMAIN <<row>> = {1} /\ <<row>>[1] = row
        OBVIOUS
      <4> QED
        BY <2>4, <3>2, <4>1
    <3> QED
      BY <2>3, <3>1, <3>2
  <2>6. Keeps(drv, new)
    BY <1>1, <2>2, KeepsOn DEF SameTurn
  <2> QED
    BY <2>1, <2>3, <2>5, <2>6, AppendsKeepCalls
<1>11. CASE JournalTurnError(d)
  <2> DEFINE new == [drv EXCEPT !.pc = "over"]
             row == Row("error", drv.turn, 0, {}, d)
  <2>1. Appends(d, <<row>>, new, new)
    BY <1>11 DEF JournalTurnError
  <2>2. Keeps(drv, new)
    BY <1>1, KeepsTurning
  <2>3. row \in RowType /\ row.type \notin CallTypes
    BY <1>1 DEF Row, RowType, RowTypes, CallTypes
  <2> HIDE DEF new, row
  <2>4. <<row>> \in Seq(RowType) /\ \A i \in DOMAIN <<row>> : <<row>>[i].type \notin CallTypes
    BY <2>3, OtherRow
  <2> QED
    BY <2>1, <2>2, <2>3, <2>4, AppendsKeepCalls
<1>12. ASSUME NEW pc \in {"dead", "erroring", "failing"}, Turning(d, pc) PROVE CallInv'
  <2> DEFINE new == [drv EXCEPT !.pc = pc]
  <2>1. Keeps(drv, new)
    BY <1>1, KeepsTurning
  <2>2. Moves(d, new, << >>)
    BY <1>12 DEF Turning
  <2> HIDE DEF new
  <2> QED
    BY <1>1, <2>1, <2>2, MovesKeepCalls
<1>13. CASE Failure(d)
  <2>1. CASE HandlerFails(d)
    BY <1>12, <2>1, HandlerFailsTurns
  <2>2. CASE DriverDies(d)
    BY <1>12, <2>2, DriverDiesTurns
  <2>3. CASE HopFails(d)
    BY <1>12, <2>3, HopFailsTurns
  <2> QED
    BY <1>8, <1>13, <2>1, <2>2, <2>3 DEF Failure
<1> QED
  BY <1>2, <1>3, <1>4, <1>5, <1>7, <1>9, <1>10, <1>11, <1>13

LEMMA CallInit == Init => CallInv
<1> SUFFICES ASSUME Init PROVE CallInv
  OBVIOUS
<1>1. journal = << >> /\ \A d \in Drivers : driver[d] = Idle
  BY DEF Init
<1>2. DOMAIN journal = {}
  BY <1>1
<1>3. \A d \in Drivers : driver[d].pc = "none" /\ driver[d].answers = {}
  BY <1>1, IdleShape
<1> QED
  BY <1>2, <1>3 DEF CallInv, RowsNameCalls, AnswersAreOnRecord, OpenCallsAreNew, ResolvedOnce,
     AskedBeforeRun, CallAnsweredOnce, Logged

LEMMA CallNext == TypeInv /\ CallInv /\ [Next]_vars => CallInv'
<1> SUFFICES ASSUME TypeInv, CallInv, [Next]_vars PROVE CallInv'
  OBVIOUS
<1>1. CASE UNCHANGED vars
  <2>1. journal' = journal /\ driver' = driver
    BY <1>1 DEF vars
  <2>2. RowsNameCalls' /\ ResolvedOnce' /\ CallAnsweredOnce' /\ AskedBeforeRun'
    BY <2>1 DEF CallInv, RowsNameCalls, ResolvedOnce, CallAnsweredOnce, AskedBeforeRun, Logged, Made
  <2>3. AnswersAreOnRecord'
    BY <2>1 DEF CallInv, AnswersAreOnRecord, Logged, Made
  <2>4. OpenCallsAreNew'
    BY <2>1 DEF CallInv, OpenCallsAreNew, Logged, Made
  <2> QED
    BY <2>2, <2>3, <2>4 DEF CallInv
<1>2. CASE Next
  <2>1. PICK d \in Drivers : Request(d) \/ DriverStep(d) \/ Failure(d)
    BY <1>2 DEF Next
  <2>2. CASE DriverStep(d)
    BY <2>2, CallRowsKeepCalls, OtherStepsKeepCalls DEF DriverStep
  <2> QED
    BY <2>1, <2>2, RequestKeepsCalls, OtherStepsKeepCalls
<1> QED
  BY <1>1, <1>2

\* A call is answered at most once, however many approvals race, and whatever
\* append is lost or refused (resolveApproval's check and insert in one stretch).
THEOREM CallsAreAnsweredOnce == Spec => []CallAnsweredOnce
<1>1. CallInv => CallAnsweredOnce
  BY DEF CallInv
<1> QED
  BY <1>1, TypeInit, TypeNext, CallInit, CallNext, PTL DEF Spec

-----------------------------------------------------------------------------
(* Text is journaled once.                                                   *)

\* An append in a run without losses goes through.
LEMMA AppendGoesThrough ==
  ASSUME journal \in Seq(RowType), faults \subseteq Faults, NEW d \in Drivers, NEW rows,
         NEW answered, NEW failed, Appends(d, rows, answered, failed), NoLoss'
  PROVE  Moves(d, answered, rows) /\ NoLoss /\ faults' = faults
<1>1. Moves(d, answered, rows) /\ faults' = faults
  BY AppendOutcomes DEF NoLoss
<1> QED
  BY <1>1 DEF NoLoss

\* A step that leaves the text of the drivers as it is.
SameText(drv, new) ==
  \/ drv.pc \in Handling \cup {"none"} /\ new.text = 0
  \/ /\ drv.pc \notin Handling \cup {"none"} /\ new.pc \notin Handling \cup {"none"}
     /\ new.hop = drv.hop /\ new.text = drv.text
     /\ new.pc = "streaming" => drv.pc = "streaming"
     /\ new.pc \in {"over", "capped", "erroring"} => drv.text = 0

LEMMA TextRowsOfGrown ==
  ASSUME journal \in Seq(RowType), NEW rows \in Seq(RowType), journal' = journal \o rows
  PROVE  /\ TextRows \subseteq TextRows'
         /\ \A s \in TextRows : journal'[s] = journal[s]
         /\ \A s \in TextRows' \ TextRows :
              /\ s - Len(journal) \in DOMAIN rows /\ journal'[s] = rows[s - Len(journal)]
              /\ rows[s - Len(journal)].type = "assistant-text"
         /\ \A i \in DOMAIN rows : rows[i].type = "assistant-text" =>
              Len(journal) + i \in TextRows' \ TextRows /\ journal'[Len(journal) + i] = rows[i]
  BY Grown DEF TextRows

LEMMA TextsUntouched ==
  ASSUME TypeInv, Texts, NEW d \in Drivers, NEW new \in DriverType, NEW rows \in Seq(RowType),
         Moves(d, new, rows), \A i \in DOMAIN rows : rows[i].type # "assistant-text",
         SameText(driver[d], new), streamed' = streamed
  PROVE  Texts'
<1>1. journal \in Seq(RowType) /\ journal' = journal \o rows /\ driver[d] \in DriverType
      /\ streamed \subseteq Items
  BY TypeInvFits DEF Moves
<1>2. driver'[d] = new /\ \A k \in Drivers : k # d => driver'[k] = driver[k]
  BY MovesOne
<1>3. TextRows' = TextRows /\ \A s \in TextRows : journal'[s] = journal[s]
  BY <1>1, TextRowsOfGrown
<1>4. \A s \in TextRows : journal[s].by \in Drivers
  BY TypeInvFits DEF TextRows, RowType
<1>5. /\ \A s \in TextRows : driver[journal[s].by].pc \notin Handling \cup {"none"}
      /\ \A i \in streamed : driver[i[1]].pc \notin Handling \cup {"none"} /\ i[1] \in Drivers
  BY <1>1 DEF Texts, TextRowsAreOfHops, StreamedIsKept, Items
<1>6. TextRowsAreOfHops'
  <2>1. ASSUME NEW s \in TextRows
        PROVE  LET drv == driver'[journal[s].by] IN
               /\ \A i \in journal[s].ids : i[1] = journal[s].by /\ i[2] = journal[s].hop
               /\ drv.pc \notin Handling \cup {"none"}
               /\ journal[s].hop <= drv.hop
               /\ drv.pc = "streaming" \/ drv.text > 0 => journal[s].hop < drv.hop
    <3>1. LET drv == driver[journal[s].by] IN
               /\ \A i \in journal[s].ids : i[1] = journal[s].by /\ i[2] = journal[s].hop
               /\ drv.pc \notin Handling \cup {"none"}
               /\ journal[s].hop <= drv.hop
               /\ drv.pc = "streaming" \/ drv.text > 0 => journal[s].hop < drv.hop
      BY DEF Texts, TextRowsAreOfHops
    <3>2. CASE journal[s].by = d
      BY <1>2, <3>1, <3>2 DEF SameText
    <3>3. CASE journal[s].by # d
      BY <1>2, <1>4, <3>1, <3>3
    <3> QED
      BY <3>2, <3>3
  <2> QED
    BY <1>3, <2>1 DEF TextRowsAreOfHops
<1>7. OneTextPerHop'
  BY <1>3 DEF Texts, OneTextPerHop
<1>8. StreamedIsKept'
  <2>1. ASSUME NEW i \in streamed
        PROVE  /\ driver'[i[1]].pc \notin Handling \cup {"none"}
               /\ \/ \E s \in TextRows : i \in journal[s].ids
                  \/ i[2] = driver'[i[1]].hop /\ i[3] \in 1 .. driver'[i[1]].text
    <3>1. /\ driver[i[1]].pc \notin Handling \cup {"none"}
          /\ \/ \E s \in TextRows : i \in journal[s].ids
             \/ i[2] = driver[i[1]].hop /\ i[3] \in 1 .. driver[i[1]].text
      BY DEF Texts, StreamedIsKept
    <3>2. CASE i[1] = d
      BY <1>2, <3>1, <3>2 DEF SameText
    <3>3. CASE i[1] # d
      BY <1>2, <1>5, <3>1, <3>3
    <3> QED
      BY <3>2, <3>3
  <2> QED
    BY <1>3, <2>1 DEF StreamedIsKept
<1>9. OverIsEmpty'
  BY <1>2 DEF Texts, OverIsEmpty, SameText, Handling
<1> QED
  BY <1>6, <1>7, <1>8, <1>9 DEF Texts

LEMMA TextsWritten ==
  ASSUME TypeInv, Texts, NEW d \in Drivers, TextDelta(d)
  PROVE  Texts'
<1> DEFINE drv == driver[d]
<1>1. PICK new \in DriverType :
        /\ Moves(d, new, << >>) /\ journal' = journal
        /\ drv.pc = "streaming" /\ new.pc = "streaming"
        /\ new.hop = drv.hop /\ new.text = drv.text + 1
        /\ streamed' = streamed \cup {Item(d, drv.hop, drv.text + 1)}
  BY TextDeltaWrites
<1>2. /\ journal \in Seq(RowType) /\ drv \in DriverType /\ streamed \subseteq Items
      /\ drv.text \in Nat /\ drv.hop \in Nat
  BY TypeInvFits DEF DriverType
<1>3. driver'[d] = new /\ \A k \in Drivers : k # d => driver'[k] = driver[k]
  BY <1>1, MovesOne
<1>4. TextRows' = TextRows
  BY <1>1 DEF TextRows
<1>5. \A s \in TextRows : journal[s].by \in Drivers
  BY TypeInvFits DEF TextRows, RowType
<1>6. \A i \in streamed : i[1] \in Drivers
  BY <1>2 DEF Items
<1>7. TextRowsAreOfHops'
  BY <1>1, <1>3, <1>4, <1>5 DEF Texts, TextRowsAreOfHops, Handling
<1>8. OneTextPerHop'
  BY <1>1, <1>4 DEF Texts, OneTextPerHop
<1>9. StreamedIsKept'
  <2>1. ASSUME NEW i \in streamed
        PROVE  /\ driver'[i[1]].pc \notin Handling \cup {"none"}
               /\ \/ \E s \in TextRows : i \in journal[s].ids
                  \/ i[2] = driver'[i[1]].hop /\ i[3] \in 1 .. driver'[i[1]].text
    <3>1. /\ driver[i[1]].pc \notin Handling \cup {"none"}
          /\ \/ \E s \in TextRows : i \in journal[s].ids
             \/ i[2] = driver[i[1]].hop /\ i[3] \in 1 .. driver[i[1]].text
      BY DEF Texts, StreamedIsKept
    <3>2. CASE i[1] = d
      BY <1>1, <1>2, <1>3, <3>1, <3>2
    <3>3. CASE i[1] # d
      BY <1>3, <1>6, <3>1, <3>3
    <3> QED
      BY <3>2, <3>3
  <2> DEFINE t == Item(d, drv.hop, drv.text + 1)
  <2>2. t[1] = d /\ t[2] = drv.hop /\ t[3] = drv.text + 1
    BY DEF Item
  <2> HIDE DEF t
  <2>3. /\ driver'[t[1]].pc \notin Handling \cup {"none"}
        /\ t[2] = driver'[t[1]].hop /\ t[3] \in 1 .. driver'[t[1]].text
    BY <1>1, <1>2, <1>3, <2>2 DEF Handling
  <2>4. streamed' = streamed \cup {t}
    BY <1>1 DEF t
  <2> QED
    BY <1>1, <1>4, <2>1, <2>3, <2>4 DEF StreamedIsKept
<1>10. OverIsEmpty'
  BY <1>1, <1>3 DEF Texts, OverIsEmpty
<1> QED
  BY <1>7, <1>8, <1>9, <1>10 DEF Texts

\* The text of a hop goes to the journal in one row.
LEMMA TextsJournaled ==
  ASSUME TypeInv, Texts, NEW d \in Drivers, NEW new \in DriverType, NEW rows, Assorted(rows),
         Moves(d, new, rows), streamed' = streamed,
         driver[d].pc \notin Handling \cup {"none"}, new.pc \notin Handling \cup {"none"},
         driver[d].pc = "streaming" \/ driver[d].text > 0,
         new.text = 0, new.hop >= driver[d].hop,
         new.pc = "streaming" => new.hop > driver[d].hop,
         NEW row, row.type = "assistant-text", row.hop = driver[d].hop, row.by = d,
         row.ids = {Item(d, driver[d].hop, n) : n \in 1 .. driver[d].text},
         \A i \in DOMAIN rows : rows[i].type = "assistant-text" => rows[i] = row,
         driver[d].text > 0 => row \in RowSet(rows)
  PROVE  Texts'
<1> DEFINE drv == driver[d]
<1>1. /\ journal \in Seq(RowType) /\ journal' = journal \o rows /\ rows \in Seq(RowType)
      /\ drv \in DriverType /\ streamed \subseteq Items
      /\ drv.text \in Nat /\ drv.hop \in Nat /\ new.hop \in Nat
  BY TypeInvFits DEF Moves, Assorted, DriverType
<1>2. driver'[d] = new /\ \A k \in Drivers : k # d => driver'[k] = driver[k]
  BY MovesOne
<1>3. \A s \in TextRows : journal[s].by \in Drivers /\ journal[s].hop \in Nat
  BY TypeInvFits DEF TextRows, RowType
<1>4. \A i \in streamed : i[1] \in Drivers /\ i = Item(i[1], i[2], i[3])
  BY <1>1 DEF Items, Item
<1>5. /\ TextRows \subseteq TextRows'
      /\ \A s \in TextRows : journal'[s] = journal[s]
      /\ \A s \in TextRows' \ TextRows : journal'[s] = row
  <2>1. /\ TextRows \subseteq TextRows'
        /\ \A s \in TextRows : journal'[s] = journal[s]
        /\ \A s \in TextRows' \ TextRows :
             /\ s - Len(journal) \in DOMAIN rows /\ journal'[s] = rows[s - Len(journal)]
             /\ rows[s - Len(journal)].type = "assistant-text"
    BY <1>1, TextRowsOfGrown
  <2> QED
    BY <2>1
<1>6. \A s, r \in TextRows' \ TextRows : s = r
  <2>1. ASSUME NEW s \in TextRows' \ TextRows, NEW r \in TextRows' \ TextRows PROVE s = r
    <3>1. /\ s - Len(journal) \in DOMAIN rows /\ r - Len(journal) \in DOMAIN rows
          /\ rows[s - Len(journal)].type = "assistant-text"
          /\ rows[r - Len(journal)].type = "assistant-text"
      BY <1>1, TextRowsOfGrown
    <3>2. s - Len(journal) = r - Len(journal)
      BY <3>1 DEF Assorted
    <3>3. s \in Nat /\ r \in Nat /\ Len(journal) \in Nat
      BY <1>1, Grown DEF TextRows
    <3> QED
      BY <3>2, <3>3
  <2> QED
    BY <2>1
<1>7. \A i \in row.ids : i[1] = d /\ i[2] = drv.hop
  BY DEF Item
<1>8. TextRowsAreOfHops'
  <2>1. ASSUME NEW s \in TextRows'
        PROVE  LET w == driver'[journal'[s].by] IN
               /\ \A i \in journal'[s].ids : i[1] = journal'[s].by /\ i[2] = journal'[s].hop
               /\ w.pc \notin Handling \cup {"none"}
               /\ journal'[s].hop <= w.hop
               /\ w.pc = "streaming" \/ w.text > 0 => journal'[s].hop < w.hop
    <3>1. CASE s \notin TextRows
      <4>1. journal'[s] = row
        BY <1>5, <3>1
      <4>2. driver'[journal'[s].by] = new
        BY <1>2, <4>1
      <4> QED
        BY <1>1, <1>7, <4>1, <4>2
    <3>2. CASE s \in TextRows /\ journal[s].by = d
      <4>1. journal'[s] = journal[s] /\ driver'[journal'[s].by] = new /\ journal[s].hop \in Nat
        BY <1>2, <1>3, <1>5, <3>2
      <4>2. /\ \A i \in journal[s].ids : i[1] = journal[s].by /\ i[2] = journal[s].hop
            /\ journal[s].hop <= drv.hop
        BY <3>2 DEF Texts, TextRowsAreOfHops
      <4>3. journal[s].hop <= new.hop /\ (new.pc = "streaming" => journal[s].hop < new.hop)
        BY <1>1, <4>1, <4>2
      <4> QED
        BY <4>1, <4>2, <4>3
    <3>3. CASE s \in TextRows /\ journal[s].by # d
      BY <1>2, <1>3, <1>5, <3>3 DEF Texts, TextRowsAreOfHops
    <3> QED
      BY <3>1, <3>2, <3>3
  <2> QED
    BY <2>1 DEF TextRowsAreOfHops
<1>9. OneTextPerHop'
  <2>1. \A s \in TextRows : journal[s].by = d => journal[s].hop # drv.hop
    BY <1>1, <1>3 DEF Texts, TextRowsAreOfHops
  <2> QED
    BY <1>5, <1>6, <2>1 DEF Texts, OneTextPerHop
<1>10. StreamedIsKept'
  <2>1. ASSUME NEW i \in streamed
        PROVE  /\ driver'[i[1]].pc \notin Handling \cup {"none"}
               /\ \/ \E s \in TextRows' : i \in journal'[s].ids
                  \/ i[2] = driver'[i[1]].hop /\ i[3] \in 1 .. driver'[i[1]].text
    <3>1. /\ driver[i[1]].pc \notin Handling \cup {"none"}
          /\ \/ \E s \in TextRows : i \in journal[s].ids
             \/ i[2] = driver[i[1]].hop /\ i[3] \in 1 .. driver[i[1]].text
      BY DEF Texts, StreamedIsKept
    <3>2. driver'[i[1]].pc \notin Handling \cup {"none"}
      BY <1>2, <1>4, <3>1
    <3>3. CASE \E s \in TextRows : i \in journal[s].ids
      BY <1>5, <3>2, <3>3
    <3>4. CASE i[1] = d /\ i[2] = drv.hop /\ i[3] \in 1 .. drv.text
      <4>1. i = Item(d, drv.hop, i[3])
        BY <1>4, <3>4
      <4>2. i \in row.ids
        BY <3>4, <4>1
      <4>3. drv.text > 0
        BY <1>1, <3>4
      <4>4. PICK n \in DOMAIN rows : rows[n] = row
        BY <4>3 DEF RowSet
      <4>5. Len(journal) + n \in TextRows' /\ journal'[Len(journal) + n] = row
        BY <1>1, <4>4, TextRowsOfGrown
      <4> QED
        BY <3>2, <4>2, <4>5
    <3>5. CASE i[1] # d /\ i[2] = driver[i[1]].hop /\ i[3] \in 1 .. driver[i[1]].text
      BY <1>2, <1>4, <3>2, <3>5
    <3> QED
      BY <3>1, <3>3, <3>4, <3>5
  <2> QED
    BY <2>1 DEF StreamedIsKept
<1>11. OverIsEmpty'
  BY <1>2 DEF Texts, OverIsEmpty
<1> QED
  BY <1>8, <1>9, <1>10, <1>11 DEF Texts

LEMMA SameTextTurning ==
  ASSUME NEW drv \in DriverType, NEW pc \in Driving \cup {"over", "dead"},
         drv.pc \notin Handling \cup {"none"} \/ (drv.text = 0 /\ pc = "dead"),
         pc = "streaming" => drv.pc = "streaming",
         pc \in {"over", "capped", "erroring"} => drv.text = 0
  PROVE  SameText(drv, [drv EXCEPT !.pc = pc])
<1> DEFINE new == [drv EXCEPT !.pc = pc]
<1>1. new.pc = pc /\ new.hop = drv.hop /\ new.text = drv.text
  BY PcShape DEF Resting
<1>2. pc \notin Handling \cup {"none"}
  BY DEF Handling, Driving
<1> HIDE DEF new
<1>3. SameText(drv, new)
  BY <1>1, <1>2 DEF SameText
<1> QED
  BY <1>3 DEF new

\* One row that is not text.
LEMMA OtherThanText ==
  ASSUME NEW row \in RowType, row.type # "assistant-text"
  PROVE  /\ <<row>> \in Seq(RowType)
         /\ \A i \in DOMAIN <<row>> : <<row>>[i].type # "assistant-text"
<1>1. DOMAIN <<row>> = {1} /\ <<row>>[1] = row
  OBVIOUS
<1> QED
  BY <1>1

LEMMA TextStep ==
  ASSUME TypeInv, Texts, NoLoss', NEW d \in Drivers, Request(d) \/ DriverStep(d) \/ Failure(d)
  PROVE  Texts'
<1> DEFINE drv == driver[d]
<1>1. /\ drv \in DriverType /\ journal \in Seq(RowType) /\ faults \subseteq Faults
      /\ Fits(drv, Turns(journal)) /\ << >> \in Seq(RowType) /\ DOMAIN << >> = {}
      /\ drv.turn \in Nat /\ drv.hop \in Nat /\ drv.text \in Nat
  BY DriverTypes, Unchanged DEF DriverType
<1>2. drv.pc \in Handling \cup {"none"} => drv.text = 0
  BY <1>1 DEF Fits, Unstarted
<1>3. ASSUME NEW new \in DriverType, Moves(d, new, << >>), SameText(drv, new), streamed' = streamed
      PROVE  Texts'
  BY <1>1, <1>3, TextsUntouched
<1>4. ASSUME NEW new \in DriverType, NEW row \in RowType, row.type # "assistant-text",
             Moves(d, new, <<row>>), SameText(drv, new), streamed' = streamed
      PROVE  Texts'
  BY <1>4, OtherThanText, TextsUntouched
<1>5. ASSUME NEW pc \in {"dead", "erroring", "failing"}, Turning(d, pc),
             drv.pc \notin Handling \cup {"none"} \/ pc = "dead", pc = "erroring" => drv.text = 0
      PROVE  Texts'
  <2> DEFINE new == [drv EXCEPT !.pc = pc]
  <2>1. SameText(drv, new)
    BY <1>1, <1>2, <1>5, SameTextTurning DEF Driving
  <2>2. Moves(d, new, << >>) /\ streamed' = streamed
    BY <1>5 DEF Turning
  <2>3. new \in DriverType
    BY <1>1, PcShape DEF Driving, Resting
  <2> HIDE DEF new
  <2> QED
    BY <1>3, <2>1, <2>2, <2>3
<1>6. ASSUME NEW reason \in {"none", "stop", "tool-calls"}, drv.pc = "streaming", streamed' = streamed,
             Moves(d, AfterHop(drv, reason), HopBatch(d, reason))
      PROVE  Texts'
  <2> DEFINE new == AfterHop(drv, reason)
             rows == HopBatch(d, reason)
             texts == {Item(d, drv.hop, n) : n \in 1 .. drv.text}
             row == Row("assistant-text", drv.turn, drv.hop, texts, d)
             others == {Row("hop-messages", drv.turn, drv.hop, drv.parts, d),
                        Row("usage", drv.turn, drv.hop, {}, d), Row("done", drv.turn, 0, {}, d)}
  <2>1. /\ new \in DriverType /\ new.text = 0 /\ new.hop >= drv.hop
        /\ \/ new.pc \in {"over", "capped"} /\ new.hop = drv.hop
           \/ new.pc \in {"streaming", "erroring"} /\ new.hop = drv.hop + 1
    BY <1>6, AfterHopState
  <2>2. /\ Assorted(rows) /\ RowSet(rows) \subseteq others \cup {row}
        /\ drv.text > 0 => row \in RowSet(rows)
    BY <1>1, BatchRows
  <2>3. /\ row.type = "assistant-text" /\ row.hop = drv.hop /\ row.by = d /\ row.ids = texts
        /\ \A r \in others : r.type # "assistant-text"
    BY DEF Row
  <2>4. Moves(d, new, rows)
    BY <1>6
  <2> HIDE DEF new, rows, row, others
  <2>5. \A i \in DOMAIN rows : rows[i].type = "assistant-text" => rows[i] = row
    BY <2>2, <2>3 DEF RowSet
  <2>6. /\ new.pc \notin Handling \cup {"none"} /\ drv.pc \notin Handling \cup {"none"}
        /\ new.pc = "streaming" => new.hop > drv.hop
    BY <1>1, <1>6, <2>1 DEF Handling
  <2> QED
    BY <1>6, <2>1, <2>2, <2>3, <2>4, <2>5, <2>6, TextsJournaled
<1>7. CASE StreamRequested(d)
  <2> DEFINE spend == Spend(journal)
             new == [Idle EXCEPT !.pc = "opening", !.opens = TRUE, !.running = spend]
  <2>1. drv.pc = "none" /\ Set(d, new) /\ journal' = journal /\ streamed' = streamed
    BY <1>7 DEF StreamRequested, Fresh
  <2>2. spend \in Nat
    BY <1>1, SpendIsNat
  <2> HIDE DEF spend
  <2>3. new \in DriverType /\ new.text = 0
    BY <2>2 DEF Idle, DriverType, Handling
  <2> HIDE DEF new
  <2>4. Moves(d, new, << >>) /\ SameText(drv, new)
    BY <1>1, <2>1, <2>3, SetsMove DEF SameText
  <2> QED
    BY <1>3, <2>1, <2>3, <2>4
<1>8. ASSUME NEW s \in DOMAIN journal, ResolveApproval(d, s) PROVE Texts'
  <2> DEFINE turn == journal[s].turn
             ids == journal[s].ids
             new == Resolving(turn, ids)
             gone == Unresolved(turn)
             row == Row("approval-resolved", turn, 0, ids, d)
  <2>1. drv.pc = "none" /\ Appends(d, <<row>>, new, gone) /\ streamed' = streamed
    BY <1>8 DEF ResolveApproval, Fresh, Resolving, Unresolved
  <2>2. turn \in Nat /\ ids \in SUBSET Items
    BY TypeInvFits DEF RowType
  <2>3. new \in DriverType /\ new.text = 0
    BY <2>2, ResolvingShape DEF Unstarted
  <2>4. row \in RowType /\ row.type # "assistant-text"
    BY <2>2 DEF Row, RowType, RowTypes
  <2> HIDE DEF row, new, gone
  <2>5. Moves(d, new, <<row>>) /\ SameText(drv, new)
    BY <1>1, <2>1, <2>3, AppendGoesThrough DEF SameText
  <2> QED
    BY <1>4, <2>1, <2>3, <2>4, <2>5
<1>9. CASE OpenTurnRow(d)
  <2> DEFINE turn == Len(journal) + 1
             new == EntersHop([drv EXCEPT !.turn = turn])
             gone == [drv EXCEPT !.pc = "dead"]
             row == Row("user-message", turn, 0, {}, d)
  <2>1. drv.pc = "opening" /\ Appends(d, <<row>>, new, gone) /\ streamed' = streamed
    BY <1>9 DEF OpenTurnRow
  <2>2. turn \in Nat
    BY <1>1
  <2>3. new \in DriverType /\ new.text = 0
    BY SMTT(30), <2>1, <2>2, OpenedShape
  <2>4. row \in RowType /\ row.type # "assistant-text"
    BY <2>2 DEF Row, RowType, RowTypes
  <2> HIDE DEF row, new, gone
  <2>5. Moves(d, new, <<row>>) /\ SameText(drv, new)
    BY <1>1, <2>1, <2>3, AppendGoesThrough DEF SameText, Handling
  <2> QED
    BY <1>4, <2>1, <2>3, <2>4, <2>5
<1>10. CASE SpendRead(d)
  <2> DEFINE spend == Spend(journal)
             new == [drv EXCEPT !.pc = "reading", !.running = spend]
  <2>1. drv.pc = "resolving" /\ Set(d, new) /\ journal' = journal /\ streamed' = streamed
    BY <1>10 DEF SpendRead
  <2>2. spend \in Nat
    BY <1>1, SpendIsNat
  <2> HIDE DEF spend
  <2>3. new \in DriverType /\ new.text = drv.text
    BY <1>1, <2>2 DEF DriverType, Handling
  <2> HIDE DEF new
  <2>4. Moves(d, new, << >>) /\ SameText(drv, new)
    BY <1>1, <1>2, <2>1, <2>3, SetsMove DEF SameText, Handling
  <2> QED
    BY <1>3, <2>1, <2>3, <2>4
<1>11. CASE EventsRead(d)
  <2>1. PICK new \in DriverType :
          Moves(d, new, << >>) /\ drv.pc = "reading" /\ new.text = 0 /\ streamed' = streamed
    BY <1>11, ReadShape
  <2>2. SameText(drv, new)
    BY <2>1 DEF SameText, Handling
  <2> QED
    BY <1>3, <2>1, <2>2
<1>12. ASSUME NEW type, NEW call, NEW made, NEW open, NEW parts,
              CallRow(d, type, call, made, open, parts)
       PROVE  Texts'
  <2> DEFINE row == Row(type, drv.turn, drv.hop, {call}, d)
  <2>1. PICK answered, failed \in DriverType :
          /\ Appends(d, <<row>>, answered, failed)
          /\ Progress(drv, answered, made, open, parts) /\ answered.pc = "streaming"
    BY <1>12 DEF CallRow
  <2>2. drv.pc = "streaming" /\ streamed' = streamed /\ {call} \in SUBSET Items
        /\ type \in RowTypes /\ type # "assistant-text"
    BY <1>12 DEF CallRow, RowTypes
  <2>3. row \in RowType /\ row.type # "assistant-text"
    BY <1>1, <2>2 DEF Row, RowType
  <2> HIDE DEF row
  <2>4. Moves(d, answered, <<row>>)
    BY <1>1, <2>1, AppendGoesThrough
  <2>5. SameText(drv, answered)
    BY <2>1, <2>2 DEF SameText, Progress, Handling
  <2> QED
    BY <1>4, <2>2, <2>3, <2>4, <2>5
<1>13. CASE StreamEnds(d)
  <2>1. PICK reason \in {"none", "stop", "tool-calls"} :
          /\ drv.pc = "streaming" /\ streamed' = streamed
          /\ Appends(d, HopBatch(d, reason), AfterHop(drv, reason), Fails(drv))
    BY <1>13 DEF StreamEnds
  <2>2. Moves(d, AfterHop(drv, reason), HopBatch(d, reason))
    BY <1>1, <2>1, AppendGoesThrough
  <2> QED
    BY <1>6, <2>1, <2>2
<1>14. CASE StreamCut(d)
  <2> DEFINE reason == "none"
  <2>1. drv.pc = "streaming" /\ Moves(d, AfterHop(drv, reason), HopBatch(d, reason))
        /\ reason \in {"none", "stop", "tool-calls"} /\ streamed' = streamed
    BY <1>14 DEF StreamCut, Moves, Set
  <2> HIDE DEF reason
  <2> QED
    BY <1>6, <2>1
<1>15. CASE CapDone(d)
  <2> DEFINE row == Row("done", drv.turn, 0, {}, d)
             pc == IF drv.text = 0 THEN "over" ELSE "ending"
             new == [drv EXCEPT !.pc = pc]
  <2>1. Appends(d, <<row>>, Settles(drv), Fails(drv)) /\ drv.pc = "capped" /\ streamed' = streamed
    BY <1>15 DEF CapDone, DoneRow
  <2>2. Moves(d, Settles(drv), <<row>>)
    BY <1>1, <2>1, AppendGoesThrough
  <2>3. Settles(drv) = new
    BY DEF Settles
  <2>4. row \in RowType /\ row.type # "assistant-text"
    BY <1>1 DEF Row, RowType, RowTypes
  <2>5. pc \in Driving \cup {"over", "dead"} /\ pc # "streaming"
        /\ (pc \in {"over", "capped", "erroring"} => drv.text = 0)
    BY DEF Driving
  <2> HIDE DEF row, pc
  <2>6. SameText(drv, new) /\ new \in DriverType
    BY <1>1, <2>1, <2>5, SameTextTurning, PcShape DEF Handling, Resting
  <2> HIDE DEF new
  <2> QED
    BY <1>4, <2>1, <2>2, <2>3, <2>4, <2>6
<1>16. CASE FlushPartialHopText(d)
  <2> DEFINE new == Flushed(drv)
             rows == TextRow(d)
             texts == {Item(d, drv.hop, n) : n \in 1 .. drv.text}
             row == Row("assistant-text", drv.turn, drv.hop, texts, d)
  <2>1. Appends(d, rows, new, new) /\ drv.pc \in {"ending", "failing"} /\ streamed' = streamed
    BY <1>16 DEF FlushPartialHopText, Flushed
  <2>2. /\ new \in DriverType /\ new.hop = drv.hop /\ new.text = 0
        /\ new.pc \in {"over", "erroring"}
    BY <1>1, <2>1, FlushedShape
  <2>3. rows \in Seq(RowType) /\ rows = IF drv.text = 0 THEN << >> ELSE <<row>>
    BY <1>1, TextRowIs
  <2>4. row.type = "assistant-text" /\ row.hop = drv.hop /\ row.by = d /\ row.ids = texts
    BY DEF Row
  <2> HIDE DEF new, rows, row
  <2>5. Moves(d, new, rows)
    BY <1>1, <2>1, AppendGoesThrough
  <2>6. CASE drv.text = 0
    <3>1. SameText(drv, new)
      BY <2>1, <2>2, <2>6 DEF SameText, Handling
    <3> QED
      BY <1>3, <2>1, <2>2, <2>3, <2>5, <2>6, <3>1
  <2>7. CASE drv.text > 0
    <3>1. rows = <<row>> /\ row \in RowType
      BY <1>1, <2>3, <2>7, TextRowIs DEF row
    <3>2. Assorted(rows) /\ RowSet(rows) = {row} /\ \A i \in DOMAIN rows : rows[i] = row
      <4>1. DOMAIN <<row>> = {1} /\ <<row>>[1] = row /\ <<row>> \in Seq(RowType)
        BY <3>1
      <4> QED
        BY <3>1, <4>1, RowSetOfFew DEF Assorted
    <3>3. /\ new.pc \notin Handling \cup {"none"} /\ drv.pc \notin Handling \cup {"none"}
          /\ new.hop >= drv.hop /\ new.pc # "streaming"
      BY <1>1, <2>1, <2>2 DEF Handling
    <3> QED
      BY <2>1, <2>2, <2>4, <2>5, <2>7, <3>2, <3>3, TextsJournaled
  <2> QED
    BY <1>1, <2>6, <2>7
<1>17. CASE JournalTurnError(d)
  <2> DEFINE row == Row("error", drv.turn, 0, {}, d)
             pc == "over"
             new == [drv EXCEPT !.pc = pc]
  <2>1. Appends(d, <<row>>, new, new) /\ drv.pc = "erroring" /\ streamed' = streamed
    BY <1>17 DEF JournalTurnError
  <2>2. Moves(d, new, <<row>>)
    BY <1>1, <2>1, AppendGoesThrough
  <2>3. row \in RowType /\ row.type # "assistant-text"
    BY <1>1 DEF Row, RowType, RowTypes
  <2>4. drv.text = 0 /\ pc \in Driving \cup {"over", "dead"} /\ pc # "streaming" /\ pc \in Resting
    BY <2>1 DEF Texts, OverIsEmpty, Resting
  <2> HIDE DEF row, pc
  <2>5. SameText(drv, new) /\ new \in DriverType
    BY <1>1, <2>1, <2>4, SameTextTurning, PcShape DEF Handling
  <2> HIDE DEF new
  <2> QED
    BY <1>4, <2>1, <2>2, <2>3, <2>5
<1>18. CASE Failure(d)
  <2>1. CASE HandlerFails(d)
    BY <1>5, <2>1, HandlerFailsTurns
  <2>2. CASE DriverDies(d)
    BY <1>5, <2>2, DriverDiesTurns
  <2>3. CASE HopFails(d)
    <3> DEFINE pc == IF drv.text = 0 THEN "erroring" ELSE "failing"
    <3>1. Turning(d, pc) /\ drv.pc = "streaming"
      BY <2>3, HopFailsTurns
    <3>2. pc \in {"dead", "erroring", "failing"} /\ (pc = "erroring" => drv.text = 0)
      OBVIOUS
    <3> HIDE DEF pc
    <3> QED
      BY <1>5, <3>1, <3>2 DEF Handling
  <2> QED
    BY <1>14, <1>18, <2>1, <2>2, <2>3 DEF Failure
<1>19. CASE Request(d)
  BY <1>7, <1>8, <1>19 DEF Request
<1>20. CASE DriverStep(d)
  <2>1. CASE ToolCall(d)
    BY <1>12, <2>1, ToolCallRow
  <2>2. ASSUME NEW call \in drv.open, AskApproval(d, call) \/ ToolResult(d, call) PROVE Texts'
    BY <1>12, <2>2, AskApprovalRow, ToolResultRow
  <2>3. CASE TextDelta(d)
    BY <2>3, TextsWritten
  <2> QED
    BY <1>9, <1>10, <1>11, <1>13, <1>15, <1>16, <1>17, <1>20, <2>1, <2>2, <2>3 DEF DriverStep
<1> QED
  BY <1>18, <1>19, <1>20

LEMMA TextInit == Init => TextInv
<1> SUFFICES ASSUME Init PROVE TextInv
  OBVIOUS
<1>1. journal = << >> /\ streamed = {} /\ \A d \in Drivers : driver[d] = Idle
  BY DEF Init
<1>2. TextRows = {} /\ streamed = {}
  BY <1>1 DEF TextRows
<1>3. \A d \in Drivers : driver[d].text = 0
  BY <1>1, IdleShape DEF Unstarted
<1> QED
  BY <1>2, <1>3 DEF TextInv, Texts, TextRowsAreOfHops, OneTextPerHop, StreamedIsKept, OverIsEmpty

\* What has been lost stays lost.
LEMMA FaultsStay ==
  ASSUME TypeInv, [Next]_vars
  PROVE  faults \subseteq faults'
<1>1. journal \in Seq(RowType) /\ faults \subseteq Faults
  BY TypeInvFits
<1>2. \A kind : Fault(kind) => faults \subseteq faults'
  BY DEF Fault
<1>3. ASSUME NEW d \in Drivers, NEW rows, NEW answered, NEW failed, Appends(d, rows, answered, failed)
      PROVE  faults \subseteq faults'
  BY <1>1, <1>3, AppendOutcomes
<1>4. CASE UNCHANGED vars
  BY <1>4 DEF vars
<1>5. ASSUME NEW d \in Drivers, Request(d) PROVE faults \subseteq faults'
  BY <1>3, <1>5 DEF Request, StreamRequested, ResolveApproval
<1>6. ASSUME NEW d \in Drivers, Failure(d) PROVE faults \subseteq faults'
  BY <1>2, <1>6 DEF Failure, HandlerFails, StreamCut, HopFails, DriverDies
<1>7. ASSUME NEW d \in Drivers, DriverStep(d) PROVE faults \subseteq faults'
  <2>1. CASE OpenTurnRow(d) \/ SpendRead(d) \/ EventsRead(d) \/ TextDelta(d)
    BY <1>3, <2>1 DEF OpenTurnRow, SpendRead, EventsRead, TextDelta
  <2>2. CASE ToolCall(d) \/ \E call \in driver[d].open : AskApproval(d, call) \/ ToolResult(d, call)
    BY <1>3, <2>2 DEF ToolCall, AskApproval, ToolResult
  <2>3. CASE StreamEnds(d) \/ CapDone(d) \/ FlushPartialHopText(d) \/ JournalTurnError(d)
    BY <1>3, <2>3 DEF StreamEnds, CapDone, FlushPartialHopText, JournalTurnError
  <2> QED
    BY <1>7, <2>1, <2>2, <2>3 DEF DriverStep
<1> QED
  BY <1>4, <1>5, <1>6, <1>7 DEF Next

LEMMA TextNext == TypeInv /\ TextInv /\ [Next]_vars => TextInv'
<1> SUFFICES ASSUME TypeInv, TextInv, [Next]_vars, NoLoss' PROVE Texts'
  BY DEF TextInv, Texts
<1>1. Texts
  BY FaultsStay DEF TextInv, Texts, NoLoss
<1>2. CASE UNCHANGED vars
  <2>1. journal' = journal /\ driver' = driver /\ streamed' = streamed
    BY <1>2 DEF vars
  <2>2. TextRows' = TextRows
    BY <2>1 DEF TextRows
  <2> QED
    BY <1>1, <2>1, <2>2 DEF Texts, TextRowsAreOfHops, OneTextPerHop, StreamedIsKept, OverIsEmpty
<1>3. CASE Next
  BY <1>1, <1>3, TextStep DEF Next
<1> QED
  BY <1>2, <1>3

\* No text is journaled twice, and a driver that is over has journaled all it
\* sent, in whichever hop it failed or was cut off, unless an append failed
\* (flushPartialHopText in StreamingTurn.ts).
THEOREM TextIsJournaledOnce == Spec => []TextJournaledOnce
<1>1. TypeInv /\ TextInv => TextJournaledOnce
  <2> SUFFICES ASSUME TypeInv, Texts
               PROVE  /\ \A s, r \in TextRows : s # r => journal[s].ids \cap journal[r].ids = {}
                      /\ \A d \in Drivers : driver[d].pc = "over" =>
                           {i \in streamed : i[1] = d} \subseteq UNION {journal[s].ids : s \in TextRows}
    BY DEF TextInv, TextJournaledOnce, Texts, NoLoss
  <2>1. ASSUME NEW s \in TextRows, NEW r \in TextRows, NEW i \in journal[s].ids, i \in journal[r].ids
        PROVE  s = r
    BY <2>1 DEF Texts, TextRowsAreOfHops, OneTextPerHop
  <2>2. ASSUME NEW d \in Drivers, driver[d].pc = "over", NEW i \in streamed, i[1] = d
        PROVE  \E s \in TextRows : i \in journal[s].ids
    BY <2>2 DEF Texts, StreamedIsKept, OverIsEmpty
  <2> QED
    BY <2>1, <2>2
<1> QED
  BY <1>1, TypeInit, TypeNext, TextInit, TextNext, PTL DEF Spec

-----------------------------------------------------------------------------
(* Continuations.                                                            *)

Quiet == faults \subseteq {"handler"}

\* A call that is asked about is in the messages of its turn, or will be when
\* the hop that asks ends.
AskedIsInMessages ==
  \A s \in DOMAIN journal : journal[s].type = "approval-requested" =>
    \/ journal[s].ids \subseteq CallsInMessages(journal, journal[s].turn)
    \/ LET drv == driver[journal[s].by]
       IN  drv.pc = "streaming" /\ drv.turn = journal[s].turn /\ journal[s].ids \subseteq drv.parts

OwnCallsAreParts ==
  \A d \in Drivers : driver[d].pc = "streaming" => driver[d].open \ driver[d].answers \subseteq driver[d].parts

AnswersAreInMessages ==
  \A d \in Drivers : driver[d].pc \in {"resolving", "reading"} =>
    driver[d].answers \subseteq CallsInMessages(journal, driver[d].turn)

Knowing ==
  /\ AskedIsInMessages /\ OwnCallsAreParts /\ AnswersAreInMessages
  /\ \A d \in Drivers : driver[d].knows

KnowsInv == Quiet => Knowing

-----------------------------------------------------------------------------
(* verify-journal.                                                           *)

\* The rows of a driver are of its turn and of hops it has come to.
RowsAreOfDrivers ==
  \A s \in DOMAIN journal : LET row == journal[s]
                                drv == driver[journal[s].by] IN
    /\ drv.pc \notin {"none", "opening"}
    /\ row.type # "user-message" => row.turn = drv.turn
    /\ row.type \in HopTypes => /\ drv.pc \in Driving \cup {"over"}
                                /\ row.hop \in drv.start .. drv.hop

\* The tool rows of a hop are in its messages, or will be.
ToolsAreInMessages ==
  \A s \in DOMAIN journal : journal[s].type \in {"tool-call", "tool-result"} =>
    \/ \E r \in DOMAIN journal : /\ journal[r].type = "hop-messages"
                                 /\ journal[r].by = journal[s].by
                                 /\ journal[r].hop = journal[s].hop
                                 /\ journal[s].ids \subseteq journal[r].ids
    \/ LET drv == driver[journal[s].by]
       IN  drv.pc = "streaming" /\ journal[s].hop = drv.hop /\ journal[s].ids \subseteq drv.parts

OneMessagesPerHop ==
  \A s \in DOMAIN journal : journal[s].type = "hop-messages" =>
    /\ driver[journal[s].by].pc = "streaming" => journal[s].hop < driver[journal[s].by].hop
    /\ \A r \in DOMAIN journal :
         journal[r].type = "hop-messages" /\ journal[r].by = journal[s].by
           /\ journal[r].hop = journal[s].hop => r = s

\* A driver's first row is of its turn, and its hops are beyond all that was
\* journaled of the turn before that row.
StartsBehind(d) ==
  \E o \in DOMAIN journal :
    /\ journal[o].by = d /\ journal[o].turn = driver[d].turn
    /\ \A s \in DOMAIN journal : journal[s].by = d => o <= s
    /\ driver[d].pc \notin Handling =>
         \A s \in RowsOf(journal, driver[d].turn) :
           s < o /\ journal[s].type \in HopTypes => journal[s].hop < driver[d].start

Hopping ==
  /\ RowsAreOfDrivers /\ ToolsAreInMessages /\ OneMessagesPerHop
  /\ \A d \in Drivers : driver[d].pc \in {"resolving", "reading", "over"} \cup Driving => StartsBehind(d)

HopInv == Quiet => Hopping

-----------------------------------------------------------------------------
(* Runs in which nothing but handlers fail: what a step can then be.         *)

Arrives(d, new, rows) ==
  /\ driver[d].pc = "none" /\ new.pc = "opening" /\ rows = << >>
  /\ Unstarted(new) /\ new.answers = {}

Opens(d, new, rows) ==
  LET turn == Len(journal) + 1 IN
  /\ driver[d].pc = "opening" /\ rows = << Row("user-message", turn, 0, {}, d) >>
  /\ new.pc \in {"streaming", "erroring"} /\ new.turn = turn /\ new.start = 0 /\ new.hop = 0
  /\ new.knows
  /\ new.pc = "streaming" => new.open = {}

Resolves(d, s, new, rows) ==
  /\ driver[d].pc = "none" /\ new.pc = "resolving" /\ journal[s].type = "approval-requested"
  /\ Patient => \A k \in Drivers : driver[k].pc \notin Driving
  /\ rows = << Row("approval-resolved", journal[s].turn, 0, journal[s].ids, d) >>
  /\ new.turn = journal[s].turn /\ new.answers = journal[s].ids /\ new.knows

\* A handler reads the spend, or fails.
Handles(d, new, rows) ==
  /\ rows = << >> /\ SameTurn(driver[d], new)
  /\ \/ driver[d].pc = "resolving" /\ new.pc = "reading"
     \/ driver[d].pc \in Handling /\ new.pc = "dead"

Continues(d, new, rows) ==
  /\ driver[d].pc = "reading" /\ rows = << >>
  /\ new.turn = driver[d].turn /\ new.answers = driver[d].answers
  /\ new.start = NextHop(journal, driver[d].turn) /\ new.hop = new.start
  /\ new.knows = (driver[d].answers \subseteq CallsInMessages(journal, driver[d].turn))
  /\ \/ new.pc = "erroring"
     \/ new.pc = "streaming" /\ new.open = IF new.knows THEN new.answers ELSE {}

Streams(d, new, rows) ==
  LET drv == driver[d] IN
  /\ drv.pc = "streaming" /\ new.pc = "streaming" /\ SameTurn(drv, new) /\ new.hop = drv.hop
  /\ \/ rows = << >> /\ new.open = drv.open /\ new.parts = drv.parts
     \/ \E call \in Items : LET row(type) == << Row(type, drv.turn, drv.hop, {call}, d) >> IN
          \/ /\ rows = row("tool-call")
             /\ new.open = drv.open \cup {call} /\ new.parts = drv.parts \cup {call}
          \/ /\ rows = row("tool-result")
             /\ new.open = drv.open \ {call} /\ new.parts = drv.parts \cup {call}
          \/ /\ rows = row("approval-requested") /\ call \in drv.open \ drv.answers
             /\ new.open = drv.open \ {call} /\ new.parts = drv.parts

EndsHop(d, new, rows) ==
  LET drv == driver[d]
      texts == {Item(d, drv.hop, n) : n \in 1 .. drv.text}
      messages == Row("hop-messages", drv.turn, drv.hop, drv.parts, d) IN
  /\ drv.pc = "streaming" /\ SameTurn(drv, new) /\ Assorted(rows)
  /\ RowSet(rows) \subseteq {messages, Row("assistant-text", drv.turn, drv.hop, texts, d),
                             Row("usage", drv.turn, drv.hop, {}, d), Row("done", drv.turn, 0, {}, d)}
  /\ drv.parts # {} => messages \in RowSet(rows)
  /\ \/ new.pc \in {"over", "capped"} /\ new.hop = drv.hop
     \/ /\ new.pc \in {"streaming", "erroring"} /\ new.hop = drv.hop + 1
        /\ new.pc = "streaming" => new.open = {}

\* The terminals.
Finishes(d, new, rows) ==
  LET drv == driver[d]
      texts == {Item(d, drv.hop, n) : n \in 1 .. drv.text} IN
  /\ drv.pc \in {"capped", "ending", "failing", "erroring"}
  /\ new.pc \in {"over", "ending", "erroring"}
  /\ SameTurn(drv, new) /\ new.hop = drv.hop
  /\ rows = << >> \/ \E row \in {Row("done", drv.turn, 0, {}, d), Row("error", drv.turn, 0, {}, d),
                                 Row("assistant-text", drv.turn, drv.hop, texts, d)} : rows = <<row>>

QuietStep(d, new, rows) ==
  \/ Arrives(d, new, rows)
  \/ Opens(d, new, rows)
  \/ \E s \in DOMAIN journal : Resolves(d, s, new, rows)
  \/ Handles(d, new, rows)
  \/ Continues(d, new, rows)
  \/ Streams(d, new, rows)
  \/ EndsHop(d, new, rows)
  \/ Finishes(d, new, rows)

LEMMA QuietAppend ==
  ASSUME journal \in Seq(RowType), faults \subseteq Faults, NEW d \in Drivers, NEW rows,
         NEW answered, NEW failed, Appends(d, rows, answered, failed), Quiet'
  PROVE  Moves(d, answered, rows)
  BY AppendOutcomes DEF Quiet

LEMMA QuietSteps ==
  ASSUME TypeInv, Quiet', NEW d \in Drivers, Request(d) \/ DriverStep(d) \/ Failure(d)
  PROVE  \E new \in DriverType, rows \in Seq(RowType) :
           Moves(d, new, rows) /\ QuietStep(d, new, rows)
<1> DEFINE drv == driver[d]
           Goal == \E new \in DriverType, rows \in Seq(RowType) :
                     Moves(d, new, rows) /\ QuietStep(d, new, rows)
<1>1. /\ drv \in DriverType /\ journal \in Seq(RowType) /\ faults \subseteq Faults
      /\ Fits(drv, Turns(journal)) /\ << >> \in Seq(RowType)
      /\ drv.turn \in Nat /\ drv.hop \in Nat /\ drv.text \in Nat
  BY DriverTypes, Unchanged DEF DriverType
<1>2. CASE StreamRequested(d)
  <2> DEFINE spend == Spend(journal)
             new == [Idle EXCEPT !.pc = "opening", !.opens = TRUE, !.running = spend]
  <2>1. drv.pc = "none" /\ Set(d, new) /\ journal' = journal
    BY <1>2 DEF StreamRequested, Fresh
  <2>2. spend \in Nat
    BY <1>1, SpendIsNat
  <2> HIDE DEF spend
  <2>3. new \in DriverType /\ Unstarted(new) /\ new.pc = "opening" /\ new.answers = {}
    BY <2>2 DEF Idle, DriverType, Unstarted, Handling, Driving, Resting
  <2> HIDE DEF new
  <2>4. Moves(d, new, << >>)
    BY <1>1, <2>1, SetsMove
  <2>5. QuietStep(d, new, << >>)
    BY <2>1, <2>3 DEF QuietStep, Arrives
  <2> QED
    BY <1>1, <2>3, <2>4, <2>5
<1>3. ASSUME NEW s \in DOMAIN journal, ResolveApproval(d, s) PROVE Goal
  <2> DEFINE turn == journal[s].turn
             ids == journal[s].ids
             new == Resolving(turn, ids)
             gone == Unresolved(turn)
             row == Row("approval-resolved", turn, 0, ids, d)
  <2>1. /\ drv.pc = "none" /\ Appends(d, <<row>>, new, gone) /\ journal[s].type = "approval-requested"
        /\ Patient => \A k \in Drivers : driver[k].pc \notin Driving
    BY <1>3 DEF ResolveApproval, Fresh, Resolving, Unresolved
  <2>2. turn \in Nat /\ ids \in SUBSET Items
    BY TypeInvFits DEF RowType
  <2>3. new \in DriverType /\ new.knows /\ new.pc = "resolving" /\ new.turn = turn /\ new.answers = ids
    BY <2>2, ResolvingShape DEF Unstarted
  <2>4. row \in RowType
    BY <2>2 DEF Row, RowType, RowTypes
  <2> HIDE DEF new, gone
  <2>5. Resolves(d, s, new, <<row>>)
    BY <2>1, <2>3 DEF Resolves
  <2> HIDE DEF row
  <2>6. Moves(d, new, <<row>>) /\ <<row>> \in Seq(RowType)
    BY <1>1, <2>1, <2>4, QuietAppend
  <2> QED
    BY <2>3, <2>5, <2>6 DEF QuietStep
<1>4. CASE OpenTurnRow(d)
  <2> DEFINE turn == Len(journal) + 1
             new == EntersHop([drv EXCEPT !.turn = turn])
             gone == [drv EXCEPT !.pc = "dead"]
             row == Row("user-message", turn, 0, {}, d)
  <2>1. drv.pc = "opening" /\ Appends(d, <<row>>, new, gone)
    BY <1>4 DEF OpenTurnRow
  <2>2. turn \in Nat
    BY <1>1
  <2>3. /\ new \in DriverType /\ new.turn = turn /\ new.start = 0 /\ new.hop = 0 /\ new.knows
        /\ \/ new.pc = "erroring"
           \/ new.pc = "streaming" /\ new.open = {}
    <3> HIDE DEF turn
    <3> QED
      BY <2>1, <2>2, OpenedShape DEF new
  <2>4. row \in RowType
    BY <2>2 DEF Row, RowType, RowTypes
  <2> HIDE DEF new, gone
  <2>5. Opens(d, new, <<row>>)
    BY <2>1, <2>3 DEF Opens
  <2> HIDE DEF row
  <2>6. Moves(d, new, <<row>>) /\ <<row>> \in Seq(RowType)
    BY <1>1, <2>1, <2>4, QuietAppend
  <2> QED
    BY <2>3, <2>5, <2>6 DEF QuietStep
<1>5. CASE SpendRead(d)
  <2> DEFINE spend == Spend(journal)
             new == [drv EXCEPT !.pc = "reading", !.running = spend]
  <2>1. drv.pc = "resolving" /\ Set(d, new) /\ journal' = journal
    BY <1>5 DEF SpendRead
  <2>2. spend \in Nat
    BY <1>1, SpendIsNat
  <2> HIDE DEF spend
  <2>3. new \in DriverType /\ SameTurn(drv, new) /\ new.pc = "reading"
    BY <1>1, <2>2 DEF DriverType, Handling, SameTurn
  <2> HIDE DEF new
  <2>4. Moves(d, new, << >>)
    BY <1>1, <2>1, SetsMove
  <2>5. Handles(d, new, << >>)
    BY <2>1, <2>3 DEF Handles
  <2> QED
    BY <1>1, <2>3, <2>4, <2>5 DEF QuietStep
<1>6. CASE EventsRead(d)
  <2>1. PICK new \in DriverType : Moves(d, new, << >>) /\ Continues(d, new, << >>)
    BY <1>6, ReadShape DEF Continues
  <2> QED
    BY <1>1, <2>1 DEF QuietStep
<1>7. CASE TextDelta(d)
  <2>1. PICK new \in DriverType :
          /\ Moves(d, new, << >>) /\ drv.pc = "streaming" /\ new.pc = "streaming"
          /\ SameTurn(drv, new) /\ new.hop = drv.hop /\ new.open = drv.open /\ new.parts = drv.parts
    BY <1>7, TextDeltaWrites
  <2>2. Streams(d, new, << >>)
    BY <2>1 DEF Streams
  <2> QED
    BY <1>1, <2>1, <2>2 DEF QuietStep
<1>8. ASSUME NEW type, NEW call, NEW made, NEW open, NEW parts,
             CallRow(d, type, call, made, open, parts),
             \A new : /\ new.pc = "streaming" /\ Progress(drv, new, made, open, parts)
                      => Streams(d, new, << Row(type, drv.turn, drv.hop, {call}, d) >>)
      PROVE  Goal
  <2> DEFINE row == Row(type, drv.turn, drv.hop, {call}, d)
  <2>1. PICK answered, failed \in DriverType :
          /\ Appends(d, <<row>>, answered, failed)
          /\ Progress(drv, answered, made, open, parts) /\ answered.pc = "streaming"
    BY <1>8 DEF CallRow
  <2>2. {call} \in SUBSET Items /\ type \in RowTypes
    BY <1>8 DEF CallRow, RowTypes
  <2>3. row \in RowType
    BY <1>1, <2>2 DEF Row, RowType
  <2>4. Streams(d, answered, <<row>>)
    BY <1>8, <2>1
  <2> HIDE DEF row
  <2>5. Moves(d, answered, <<row>>) /\ <<row>> \in Seq(RowType)
    BY <1>1, <2>1, <2>3, QuietAppend
  <2> QED
    BY <2>4, <2>5 DEF QuietStep
<1>9. CASE ToolCall(d)
  <2>1. PICK call : call = Item(d, drv.hop, drv.made + 1)
    OBVIOUS
  <2>2. CallRow(d, "tool-call", call, drv.made + 1, drv.open \cup {call}, drv.parts \cup {call})
    BY <1>9, <2>1, ToolCallRow
  <2>3. call \in Items /\ drv.pc = "streaming"
    BY <2>2 DEF CallRow
  <2>4. ASSUME NEW new, new.pc = "streaming",
               Progress(drv, new, drv.made + 1, drv.open \cup {call}, drv.parts \cup {call})
        PROVE  Streams(d, new, << Row("tool-call", drv.turn, drv.hop, {call}, d) >>)
    BY <2>3, <2>4 DEF Streams, Progress
  <2> QED
    BY <1>8, <2>2, <2>4
<1>10. ASSUME NEW call \in drv.open, AskApproval(d, call) PROVE Goal
  <2>1. /\ CallRow(d, "approval-requested", call, drv.made, drv.open \ {call}, drv.parts)
        /\ call \notin drv.answers
    BY <1>10, AskApprovalRow
  <2>2. call \in Items /\ drv.pc = "streaming"
    BY <2>1 DEF CallRow
  <2>3. ASSUME NEW new, new.pc = "streaming",
               Progress(drv, new, drv.made, drv.open \ {call}, drv.parts)
        PROVE  Streams(d, new, << Row("approval-requested", drv.turn, drv.hop, {call}, d) >>)
    BY <2>1, <2>2, <2>3 DEF Streams, Progress
  <2> QED
    BY <1>8, <2>1, <2>3
<1>11. ASSUME NEW call \in drv.open, ToolResult(d, call) PROVE Goal
  <2>1. CallRow(d, "tool-result", call, drv.made, drv.open \ {call}, drv.parts \cup {call})
    BY <1>11, ToolResultRow
  <2>2. call \in Items /\ drv.pc = "streaming"
    BY <2>1 DEF CallRow
  <2>3. ASSUME NEW new, new.pc = "streaming",
               Progress(drv, new, drv.made, drv.open \ {call}, drv.parts \cup {call})
        PROVE  Streams(d, new, << Row("tool-result", drv.turn, drv.hop, {call}, d) >>)
    BY <2>2, <2>3 DEF Streams, Progress
  <2> QED
    BY <1>8, <2>1, <2>3
<1>12. CASE StreamEnds(d)
  <2>1. PICK reason \in {"none", "stop", "tool-calls"} :
          /\ drv.pc = "streaming"
          /\ Appends(d, HopBatch(d, reason), AfterHop(drv, reason), Fails(drv))
    BY <1>12 DEF StreamEnds
  <2> DEFINE new == AfterHop(drv, reason)
             rows == HopBatch(d, reason)
             texts == {Item(d, drv.hop, n) : n \in 1 .. drv.text}
             messages == Row("hop-messages", drv.turn, drv.hop, drv.parts, d)
  <2>2. /\ new \in DriverType /\ SameTurn(drv, new)
        /\ \/ new.pc \in {"over", "capped"} /\ new.hop = drv.hop
           \/ /\ new.pc \in {"streaming", "erroring"} /\ new.hop = drv.hop + 1
              /\ new.pc = "streaming" => new.open = {}
    BY <2>1, AfterHopState
  <2>3. /\ Assorted(rows)
        /\ RowSet(rows) \subseteq {messages, Row("assistant-text", drv.turn, drv.hop, texts, d),
                                   Row("usage", drv.turn, drv.hop, {}, d), Row("done", drv.turn, 0, {}, d)}
        /\ drv.parts # {} => messages \in RowSet(rows)
    BY <1>1, BatchRows
  <2>4. Moves(d, new, rows)
    BY <1>1, <2>1, QuietAppend
  <2> HIDE DEF new, rows
  <2>5. EndsHop(d, new, rows) /\ rows \in Seq(RowType)
    BY <2>1, <2>2, <2>3 DEF EndsHop, Assorted
  <2> QED
    BY <2>2, <2>4, <2>5 DEF QuietStep
<1>13. CASE CapDone(d)
  <2> DEFINE row == Row("done", drv.turn, 0, {}, d)
             new == Settles(drv)
  <2>1. Appends(d, <<row>>, new, Fails(drv)) /\ drv.pc = "capped"
    BY <1>13 DEF CapDone, DoneRow
  <2>2. row \in RowType
    BY <1>1 DEF Row, RowType, RowTypes
  <2> DEFINE pc == new.pc
  <2>3. new \in DriverType /\ new = [drv EXCEPT !.pc = pc] /\ pc \in {"over", "ending"}
    BY <1>1, SettlesShape
  <2>4. SameTurn(drv, new) /\ new.hop = drv.hop
    <3> HIDE DEF pc
    <3>1. SameTurn(drv, [drv EXCEPT !.pc = pc]) /\ [drv EXCEPT !.pc = pc].hop = drv.hop
      BY <1>1, <2>3, PcShape DEF Driving, Resting
    <3> QED
      BY <2>3, <3>1
  <2> HIDE DEF new
  <2>5. Finishes(d, new, <<row>>)
    BY <2>1, <2>3, <2>4 DEF Finishes
  <2> HIDE DEF row
  <2>6. Moves(d, new, <<row>>) /\ <<row>> \in Seq(RowType)
    BY <1>1, <2>1, <2>2, QuietAppend
  <2> QED
    BY <2>3, <2>5, <2>6 DEF QuietStep
<1>14. CASE FlushPartialHopText(d)
  <2> DEFINE new == Flushed(drv)
             rows == TextRow(d)
             texts == {Item(d, drv.hop, n) : n \in 1 .. drv.text}
             row == Row("assistant-text", drv.turn, drv.hop, texts, d)
  <2>1. Appends(d, rows, new, new) /\ drv.pc \in {"ending", "failing"}
    BY <1>14 DEF FlushPartialHopText, Flushed
  <2>2. /\ new \in DriverType /\ SameTurn(drv, new) /\ new.hop = drv.hop
        /\ new.pc \in {"over", "erroring"}
    BY <1>1, <2>1, FlushedShape
  <2>3. rows \in Seq(RowType) /\ rows = IF drv.text = 0 THEN << >> ELSE <<row>>
    BY <1>1, TextRowIs
  <2> HIDE DEF new, rows
  <2>4. Finishes(d, new, rows)
    BY <2>1, <2>2, <2>3 DEF Finishes
  <2>5. Moves(d, new, rows)
    BY <1>1, <2>1, QuietAppend
  <2> QED
    BY <2>2, <2>3, <2>4, <2>5 DEF QuietStep
<1>15. CASE JournalTurnError(d)
  <2> DEFINE row == Row("error", drv.turn, 0, {}, d)
             new == [drv EXCEPT !.pc = "over"]
  <2>1. Appends(d, <<row>>, new, new) /\ drv.pc = "erroring"
    BY <1>15 DEF JournalTurnError
  <2>2. row \in RowType
    BY <1>1 DEF Row, RowType, RowTypes
  <2>3. new \in DriverType /\ SameTurn(drv, new) /\ new.hop = drv.hop /\ new.pc = "over"
    BY <1>1, PcShape DEF Resting
  <2> HIDE DEF new
  <2>4. Finishes(d, new, <<row>>)
    BY <2>1, <2>3 DEF Finishes
  <2> HIDE DEF row
  <2>5. Moves(d, new, <<row>>) /\ <<row>> \in Seq(RowType)
    BY <1>1, <2>1, <2>2, QuietAppend
  <2> QED
    BY <2>3, <2>4, <2>5 DEF QuietStep
<1>16. CASE Failure(d)
  <2>1. ~StreamCut(d) /\ ~HopFails(d) /\ ~DriverDies(d)
    <3>1. ASSUME NEW kind, Fault(kind) PROVE kind \in faults'
      BY <3>1 DEF Fault
    <3>2. ~Fault("cut") /\ ~Fault("model") /\ ~Fault("die")
      BY <3>1 DEF Quiet
    <3> QED
      BY <3>2 DEF StreamCut, HopFails, DriverDies
  <2>2. Turning(d, "dead") /\ drv.pc \in Handling
    BY <1>16, <2>1, HandlerFailsTurns DEF Failure
  <2> DEFINE new == [drv EXCEPT !.pc = "dead"]
  <2>3. new \in DriverType /\ SameTurn(drv, new) /\ new.pc = "dead"
    BY <1>1, PcShape DEF Resting
  <2>4. Moves(d, new, << >>)
    BY <2>2 DEF Turning
  <2> HIDE DEF new
  <2>5. Handles(d, new, << >>)
    BY <2>2, <2>3 DEF Handles
  <2> QED
    BY <1>1, <2>3, <2>4, <2>5 DEF QuietStep
<1> QED
  BY <1>2, <1>3, <1>4, <1>5, <1>6, <1>7, <1>9, <1>10, <1>11, <1>12, <1>13, <1>14, <1>15, <1>16
     DEF Request, DriverStep

-----------------------------------------------------------------------------
(* The prompt of a continuation.                                             *)

LEMMA MessagesGrow ==
  ASSUME journal \in Seq(RowType), NEW rows \in Seq(RowType), journal' = journal \o rows, NEW turn
  PROVE  /\ CallsInMessages(journal, turn) \subseteq CallsInMessages(journal', turn)
         /\ \A row \in RowSet(rows) :
              row.type = "hop-messages" /\ row.turn = turn => row.ids \subseteq CallsInMessages(journal', turn)
<1>1. /\ DOMAIN journal \subseteq DOMAIN journal'
      /\ \A s \in DOMAIN journal : journal'[s] = journal[s]
      /\ \A i \in DOMAIN rows : Len(journal) + i \in DOMAIN journal' /\ journal'[Len(journal) + i] = rows[i]
  BY Grown
<1>2. ASSUME NEW row \in RowSet(rows) PROVE \E s \in DOMAIN journal' : journal'[s] = row
  BY <1>1, <1>2 DEF RowSet
<1>3. \A s \in DOMAIN journal' :
        journal'[s].turn = turn /\ journal'[s].type = "hop-messages" =>
          journal'[s].ids \subseteq CallsInMessages(journal', turn)
  BY DEF CallsInMessages, RowsOf
<1>4. \A s \in RowsOf(journal, turn) : s \in RowsOf(journal', turn)
  BY <1>1 DEF RowsOf
<1>5. CallsInMessages(journal, turn) \subseteq CallsInMessages(journal', turn)
  <2> SUFFICES ASSUME NEW c \in CallsInMessages(journal, turn) PROVE c \in CallsInMessages(journal', turn)
    OBVIOUS
  <2>1. PICK s \in RowsOf(journal, turn) : journal[s].type = "hop-messages" /\ c \in journal[s].ids
    BY DEF CallsInMessages
  <2>2. s \in DOMAIN journal /\ s \in RowsOf(journal', turn)
    BY <1>4, <2>1 DEF RowsOf
  <2>3. journal'[s] = journal[s]
    BY <1>1, <2>2
  <2> QED
    BY <2>1, <2>2, <2>3 DEF CallsInMessages
<1>6. ASSUME NEW row \in RowSet(rows), row.type = "hop-messages", row.turn = turn
      PROVE  row.ids \subseteq CallsInMessages(journal', turn)
  BY <1>2, <1>3, <1>6
<1> QED
  BY <1>5, <1>6

\* What a step does to the calls that are asked about or answered.
Informs(d, new, rows) ==
  LET drv == driver[d] IN
  /\ \A i \in DOMAIN rows : rows[i].type = "approval-requested" =>
       /\ rows[i].by = d /\ new.pc = "streaming"
       /\ rows[i].turn = new.turn /\ rows[i].ids \subseteq new.parts
  /\ drv.pc = "streaming" =>
       \/ new.pc = "streaming" /\ new.turn = drv.turn /\ drv.parts \subseteq new.parts
       \/ drv.parts = {}
       \/ \E row \in RowSet(rows) : row.type = "hop-messages" /\ row.turn = drv.turn /\ row.ids = drv.parts
  /\ new.pc = "streaming" => new.open \ new.answers \subseteq new.parts
  /\ new.pc \in {"resolving", "reading"} => new.answers \subseteq CallsInMessages(journal, new.turn)
  /\ new.knows

LEMMA OneRowTypes ==
  ASSUME NEW row, NEW i \in DOMAIN <<row>>
  PROVE  <<row>>[i] = row
<1>1. i = 1
  OBVIOUS
<1> QED
  BY <1>1

LEMMA StepsInform ==
  ASSUME TypeInv, Knowing, Patient, NEW d \in Drivers, NEW new \in DriverType,
         NEW rows \in Seq(RowType), QuietStep(d, new, rows)
  PROVE  Informs(d, new, rows)
<1> DEFINE drv == driver[d]
<1>1. /\ drv \in DriverType /\ journal \in Seq(RowType) /\ DOMAIN << >> = {}
      /\ drv.pc \in Handling \cup {"none"} => Unstarted(drv)
      /\ drv.pc = "streaming" => drv.open \ drv.answers \subseteq drv.parts
      /\ drv.pc \in {"resolving", "reading"} => drv.answers \subseteq CallsInMessages(journal, drv.turn)
      /\ drv.knows
  BY DriverTypes, Unchanged DEF Fits, Knowing, OwnCallsAreParts, AnswersAreInMessages
<1>2. CASE Arrives(d, new, rows)
  BY <1>1, <1>2 DEF Arrives, Informs, Unstarted
<1>3. CASE Opens(d, new, rows)
  <2>1. \A i \in DOMAIN rows : rows[i].type = "user-message"
    BY <1>3, OneRowTypes DEF Opens, Row
  <2> QED
    BY <1>1, <1>3, <2>1 DEF Opens, Informs
<1>4. ASSUME NEW s \in DOMAIN journal, Resolves(d, s, new, rows) PROVE Informs(d, new, rows)
  <2>1. \A i \in DOMAIN rows : rows[i].type = "approval-resolved"
    BY <1>4, OneRowTypes DEF Resolves, Row
  <2>2. journal[s].by \in Drivers
    BY TypeInvFits DEF RowType
  <2>3. driver[journal[s].by].pc # "streaming"
    BY <1>4, <2>2 DEF Resolves, Driving
  <2>4. new.answers \subseteq CallsInMessages(journal, new.turn)
    BY <1>4, <2>3 DEF Resolves, Knowing, AskedIsInMessages
  <2> QED
    BY <1>1, <1>4, <2>1, <2>4 DEF Resolves, Informs
<1>5. CASE Handles(d, new, rows)
  BY <1>1, <1>5 DEF Handles, Informs, SameTurn, Handling
<1>6. CASE Continues(d, new, rows)
  BY <1>1, <1>6 DEF Continues, Informs
<1>7. CASE Streams(d, new, rows)
  <2>1. CASE rows = << >> /\ new.open = drv.open /\ new.parts = drv.parts
    BY <1>1, <1>7, <2>1 DEF Streams, Informs, SameTurn
  <2>2. ASSUME NEW call \in Items, NEW type, rows = << Row(type, drv.turn, drv.hop, {call}, d) >>,
               drv.parts \subseteq new.parts, new.open \ new.answers \subseteq new.parts,
               type = "approval-requested" => call \in new.parts
        PROVE  Informs(d, new, rows)
    <3>1. \A i \in DOMAIN rows : rows[i] = Row(type, drv.turn, drv.hop, {call}, d)
      BY <2>2, OneRowTypes
    <3>2. \A i \in DOMAIN rows : /\ rows[i].type = type /\ rows[i].by = d
                                 /\ rows[i].turn = drv.turn /\ rows[i].ids = {call}
      BY <3>1 DEF Row
    <3>3. /\ drv.pc = "streaming" /\ new.pc = "streaming" /\ new.turn = drv.turn
          /\ new.answers = drv.answers /\ new.knows
      BY <1>1, <1>7 DEF Streams, SameTurn
    <3>4. \A i \in DOMAIN rows : rows[i].type = "approval-requested" =>
            /\ rows[i].by = d /\ rows[i].turn = new.turn /\ rows[i].ids \subseteq new.parts
      BY <2>2, <3>2, <3>3, SMTT(30)
    <3> QED
      BY <2>2, <3>3, <3>4 DEF Informs
  <2>3. ASSUME NEW call \in Items, rows = << Row("tool-call", drv.turn, drv.hop, {call}, d) >>,
               new.open = drv.open \cup {call}, new.parts = drv.parts \cup {call}
        PROVE  Informs(d, new, rows)
    BY <1>1, <1>7, <2>2, <2>3 DEF Streams, SameTurn
  <2>4. ASSUME NEW call \in Items, rows = << Row("tool-result", drv.turn, drv.hop, {call}, d) >>,
               new.open = drv.open \ {call}, new.parts = drv.parts \cup {call}
        PROVE  Informs(d, new, rows)
    BY <1>1, <1>7, <2>2, <2>4 DEF Streams, SameTurn
  <2>5. ASSUME NEW call \in Items, rows = << Row("approval-requested", drv.turn, drv.hop, {call}, d) >>,
               call \in drv.open \ drv.answers, new.open = drv.open \ {call}, new.parts = drv.parts
        PROVE  Informs(d, new, rows)
    BY <1>1, <1>7, <2>2, <2>5 DEF Streams, SameTurn
  <2> QED
    BY <1>7, <2>1, <2>3, <2>4, <2>5 DEF Streams
<1>8. CASE EndsHop(d, new, rows)
  <2> DEFINE messages == Row("hop-messages", drv.turn, drv.hop, drv.parts, d)
  <2>1. \A i \in DOMAIN rows : rows[i].type # "approval-requested"
    <3>1. \A i \in DOMAIN rows : rows[i] \in RowSet(rows)
      BY DEF RowSet
    <3>2. \A row \in RowSet(rows) : row.type # "approval-requested"
      BY <1>8 DEF EndsHop, Row
    <3> QED
      BY <3>1, <3>2
  <2>2. messages.type = "hop-messages" /\ messages.turn = drv.turn /\ messages.ids = drv.parts
    BY DEF Row
  <2>3. drv.parts = {} \/ messages \in RowSet(rows)
    BY <1>8 DEF EndsHop
  <2>4. drv.knows = new.knows
    BY <1>8 DEF EndsHop, SameTurn
  <2> HIDE DEF messages
  <2>5. /\ new.pc = "streaming" => new.open = {}
        /\ new.pc \notin {"resolving", "reading"}
    BY <1>8 DEF EndsHop
  <2> QED
    BY <1>1, <2>1, <2>2, <2>3, <2>4, <2>5 DEF Informs
<1>9. CASE Finishes(d, new, rows)
  <2>1. \A i \in DOMAIN rows : rows[i].type # "approval-requested"
    <3>1. CASE rows = << >>
      BY <1>1, <3>1
    <3>2. ASSUME NEW row, row.type \in {"done", "error", "assistant-text"}, rows = <<row>>
          PROVE  \A i \in DOMAIN rows : rows[i].type # "approval-requested"
      BY <3>2, OneRowTypes
    <3> QED
      BY <1>9, <3>1, <3>2 DEF Finishes, Row
  <2> QED
    BY <1>1, <1>9, <2>1 DEF Finishes, Informs, SameTurn
<1> QED
  BY <1>2, <1>3, <1>4, <1>5, <1>6, <1>7, <1>8, <1>9 DEF QuietStep

LEMMA InformedKnow ==
  ASSUME TypeInv, Knowing, NEW d \in Drivers, NEW new \in DriverType,
         NEW rows \in Seq(RowType), Moves(d, new, rows), Informs(d, new, rows)
  PROVE  Knowing'
<1>1. driver'[d] = new /\ \A k \in Drivers : k # d => driver'[k] = driver[k]
  BY MovesOne
<1>2. journal \in Seq(RowType) /\ journal' = journal \o rows
  BY TypeInvFits DEF Moves
<1>3. /\ \A s \in DOMAIN journal : journal'[s] = journal[s]
      /\ \A s \in DOMAIN journal' \ DOMAIN journal :
           s - Len(journal) \in DOMAIN rows /\ journal'[s] = rows[s - Len(journal)]
  BY <1>2, Grown
<1>4. \A turn : CallsInMessages(journal, turn) \subseteq CallsInMessages(journal', turn)
  BY <1>2, MessagesGrow
<1>5. driver[d].pc = "streaming" =>
        \/ new.pc = "streaming" /\ new.turn = driver[d].turn /\ driver[d].parts \subseteq new.parts
        \/ driver[d].parts \subseteq CallsInMessages(journal', driver[d].turn)
  <2>1. ASSUME NEW turn, NEW row \in RowSet(rows), row.type = "hop-messages", row.turn = turn
        PROVE  row.ids \subseteq CallsInMessages(journal', turn)
    BY <1>2, <2>1, MessagesGrow
  <2>2. PICK turn : turn = driver[d].turn
    OBVIOUS
  <2>3. ASSUME NEW ids, NEW row \in RowSet(rows), row.type = "hop-messages", row.turn = turn, row.ids = ids
        PROVE  ids \subseteq CallsInMessages(journal', turn)
    BY <2>1, <2>3
  <2> QED
    BY <2>2, <2>3 DEF Informs
<1>6. AskedIsInMessages'
  <2> SUFFICES ASSUME NEW s \in DOMAIN journal', journal'[s].type = "approval-requested"
               PROVE  \/ journal'[s].ids \subseteq CallsInMessages(journal', journal'[s].turn)
                      \/ LET drv == driver'[journal'[s].by]
                         IN  /\ drv.pc = "streaming" /\ drv.turn = journal'[s].turn
                             /\ journal'[s].ids \subseteq drv.parts
    BY DEF AskedIsInMessages
  <2>1. CASE s \notin DOMAIN journal
    BY <1>1, <1>3, <2>1 DEF Informs
  <2>2. CASE s \in DOMAIN journal
    <3>1. PICK row : row = journal[s] /\ row = journal'[s]
      BY <1>3, <2>2
    <3>2. row.type = "approval-requested" /\ row.by \in Drivers
      BY <2>2, <3>1, TypeInvFits DEF RowType
    <3>3. \/ row.ids \subseteq CallsInMessages(journal, row.turn)
          \/ /\ driver[row.by].pc = "streaming" /\ driver[row.by].turn = row.turn
             /\ row.ids \subseteq driver[row.by].parts
      BY <2>2, <3>1, <3>2 DEF Knowing, AskedIsInMessages
    <3>4. CASE row.ids \subseteq CallsInMessages(journal, row.turn)
      BY <1>4, <3>1, <3>4
    <3>5. CASE row.by # d
      BY <1>1, <1>4, <3>1, <3>2, <3>3, <3>5
    <3>6. CASE row.by = d /\ ~(row.ids \subseteq CallsInMessages(journal, row.turn))
      BY <1>1, <1>5, <3>1, <3>3, <3>6
    <3> QED
      BY <3>4, <3>5, <3>6
  <2> QED
    BY <2>1, <2>2
<1>7. OwnCallsAreParts'
  BY <1>1 DEF Informs, Knowing, OwnCallsAreParts
<1>8. AnswersAreInMessages'
  <2> SUFFICES ASSUME NEW k \in Drivers, driver'[k].pc \in {"resolving", "reading"}
               PROVE  driver'[k].answers \subseteq CallsInMessages(journal', driver'[k].turn)
    BY DEF AnswersAreInMessages
  <2>1. driver'[k].answers \subseteq CallsInMessages(journal, driver'[k].turn)
    BY <1>1 DEF Informs, Knowing, AnswersAreInMessages
  <2> QED
    BY <1>4, <2>1
<1>9. \A k \in Drivers : driver'[k].knows
  BY <1>1 DEF Informs, Knowing
<1> QED
  BY <1>6, <1>7, <1>8, <1>9 DEF Knowing

LEMMA KnowsInit == Init => KnowsInv
<1> SUFFICES ASSUME Init PROVE Knowing
  BY DEF KnowsInv
<1>1. /\ DOMAIN journal = {} 
      /\ \A d \in Drivers : driver[d].pc = "none" /\ driver[d].knows
  BY IdleShape DEF Init, Unstarted
<1> QED
  BY <1>1 DEF Knowing, AskedIsInMessages, OwnCallsAreParts, AnswersAreInMessages

LEMMA KnowsNext == TypeInv /\ KnowsInv /\ Patient /\ [Next]_vars => KnowsInv'
<1> SUFFICES ASSUME TypeInv, KnowsInv, Patient, [Next]_vars, Quiet' PROVE Knowing'
  BY DEF KnowsInv
<1>1. Knowing
  BY FaultsStay DEF KnowsInv, Quiet
<1>2. CASE UNCHANGED vars
  <2>1. journal' = journal /\ driver' = driver
    BY <1>2 DEF vars
  <2> QED
    BY <1>1, <2>1 DEF Knowing, AskedIsInMessages, OwnCallsAreParts, AnswersAreInMessages
<1>3. ASSUME NEW d \in Drivers, Request(d) \/ DriverStep(d) \/ Failure(d) PROVE Knowing'
  <2>1. PICK new \in DriverType, rows \in Seq(RowType) :
          Moves(d, new, rows) /\ QuietStep(d, new, rows)
    BY <1>3, QuietSteps
  <2>2. Informs(d, new, rows)
    BY <1>1, <2>1, StepsInform
  <2> QED
    BY <1>1, <2>1, <2>2, InformedKnow
<1> QED
  BY <1>2, <1>3 DEF Next

\* The prompt a continuation rebuilds (reconstructForContinuation) has the call
\* its approval is about, if approvals wait for the hops in progress to end and
\* nothing but a handler has failed.
THEOREM ContinuationsKnowTheirCalls == Patient => (Spec => []ContinuationKnowsItsCall)
<1> SUFFICES ASSUME Patient PROVE Spec => []ContinuationKnowsItsCall
  OBVIOUS
<1>1. KnowsInv => ContinuationKnowsItsCall
  BY DEF KnowsInv, Knowing, Quiet, ContinuationKnowsItsCall
<1> QED
  BY <1>1, TypeInit, TypeNext, KnowsInit, KnowsNext, PTL DEF Spec

-----------------------------------------------------------------------------
(* The rows of a hop.                                                        *)

\* What a step writes, and where it leaves its driver.
Writes(d, new, rows) ==
  LET drv == driver[d] IN
  /\ \A i \in DOMAIN rows :
       /\ rows[i].by = d /\ new.pc \notin {"none", "opening"}
       /\ rows[i].type # "user-message" => rows[i].turn = new.turn
       /\ rows[i].type \in HopTypes => /\ drv.pc \in Driving /\ rows[i].hop = drv.hop
       /\ rows[i].type \in {"tool-call", "tool-result"} =>
            /\ drv.pc = "streaming" /\ new.pc = "streaming" /\ new.hop = drv.hop
            /\ rows[i].ids \subseteq new.parts
       /\ rows[i].type = "hop-messages" =>
            /\ drv.pc = "streaming" /\ (new.pc = "streaming" => new.hop > drv.hop)
            /\ \A j \in DOMAIN rows : rows[j].type = "hop-messages" => j = i
  /\ drv.pc \notin {"none", "opening"} =>
       new.turn = drv.turn /\ new.pc \notin {"none", "opening"}
  /\ drv.pc \in Driving \cup {"over"} =>
       new.pc \in Driving \cup {"over"} /\ new.start = drv.start /\ new.hop >= drv.hop
  /\ drv.pc = "streaming" =>
       \/ new.pc = "streaming" /\ new.hop = drv.hop /\ drv.parts \subseteq new.parts
       \/ drv.parts = {}
       \/ \E i \in DOMAIN rows : /\ rows[i].type = "hop-messages" /\ rows[i].by = d
                                 /\ rows[i].hop = drv.hop /\ rows[i].ids = drv.parts
  /\ new.pc = "streaming" => drv.pc \in {"opening", "reading", "streaming"}

\* A step that writes no hop.
LEMMA WritesNoHop ==
  ASSUME NEW d \in Drivers, driver[d].pc \in Handling \cup {"none"}, NEW new, NEW rows,
         \A i \in DOMAIN rows : /\ rows[i].by = d /\ rows[i].type \notin HopTypes
                                /\ new.pc \notin {"none", "opening"}
                                /\ rows[i].type # "user-message" => rows[i].turn = new.turn,
         driver[d].pc \in {"resolving", "reading"} => new.turn = driver[d].turn,
         \/ driver[d].pc = "none" /\ new.pc \in {"opening", "resolving"}
         \/ driver[d].pc \in Handling /\ new.pc \in {"reading", "dead", "streaming", "erroring"},
         new.pc = "streaming" => driver[d].pc \in {"opening", "reading"}
  PROVE  Writes(d, new, rows)
<1>1. /\ driver[d].pc \notin Driving \cup {"over", "streaming"}
      /\ \A type \in {"tool-call", "tool-result", "hop-messages"} : type \in HopTypes
  BY DEF Handling, Driving, HopTypes
<1>2. driver[d].pc \in {"none", "opening", "resolving", "reading"}
  BY DEF Handling
<1>3. driver[d].pc \notin {"none", "opening"} => new.pc \notin {"none", "opening"} /\ new.turn = driver[d].turn
  BY <1>2
<1> QED
  BY <1>1, <1>3 DEF Writes

LEMMA StepsWrite ==
  ASSUME TypeInv, NEW d \in Drivers, NEW new \in DriverType,
         NEW rows \in Seq(RowType), QuietStep(d, new, rows)
  PROVE  Writes(d, new, rows)
<1> DEFINE drv == driver[d]
<1>1. drv \in DriverType /\ DOMAIN << >> = {} /\ drv.hop \in Nat /\ new.hop \in Nat
  BY DriverTypes, Unchanged DEF DriverType
<1>2. CASE Arrives(d, new, rows)
  BY <1>1, <1>2, WritesNoHop DEF Arrives
<1>3. CASE Opens(d, new, rows)
  <2> DEFINE row == Row("user-message", Len(journal) + 1, 0, {}, d)
  <2>1. row.type = "user-message" /\ row.by = d /\ row.type \notin HopTypes
    BY DEF Row, HopTypes
  <2>2. rows = <<row>> /\ drv.pc = "opening" /\ new.pc \in {"streaming", "erroring"}
    BY <1>3 DEF Opens
  <2> HIDE DEF row
  <2>3. \A i \in DOMAIN rows : rows[i] = row
    BY <2>2, OneRowTypes
  <2> QED
    BY <2>1, <2>2, <2>3, WritesNoHop DEF Handling
<1>4. ASSUME NEW s \in DOMAIN journal, Resolves(d, s, new, rows) PROVE Writes(d, new, rows)
  <2> DEFINE row == Row("approval-resolved", journal[s].turn, 0, journal[s].ids, d)
  <2>1. row.type = "approval-resolved" /\ row.by = d /\ row.type \notin HopTypes /\ row.turn = journal[s].turn
    BY DEF Row, HopTypes
  <2>2. rows = <<row>> /\ drv.pc = "none" /\ new.pc = "resolving" /\ new.turn = row.turn
    BY <1>4, <2>1 DEF Resolves
  <2> HIDE DEF row
  <2>3. \A i \in DOMAIN rows : rows[i] = row
    BY <2>2, OneRowTypes
  <2> QED
    BY <2>1, <2>2, <2>3, WritesNoHop
<1>5. CASE Handles(d, new, rows)
  BY <1>1, <1>5, WritesNoHop DEF Handles, SameTurn, Handling
<1>6. CASE Continues(d, new, rows)
  BY <1>1, <1>6, WritesNoHop DEF Continues, Handling
<1>7. CASE Streams(d, new, rows)
  <2>1. /\ drv.pc = "streaming" /\ new.pc = "streaming" /\ new.turn = drv.turn
        /\ new.start = drv.start /\ new.hop = drv.hop /\ new.hop >= drv.hop
        /\ "streaming" \in Driving
    BY <1>1, <1>7 DEF Streams, SameTurn, Driving
  <2>2. CASE rows = << >> /\ new.open = drv.open /\ new.parts = drv.parts
    BY <1>1, <2>1, <2>2 DEF Writes
  <2>3. ASSUME NEW call, NEW type, rows = << Row(type, drv.turn, drv.hop, {call}, d) >>,
               type \in {"tool-call", "tool-result", "approval-requested"},
               drv.parts \subseteq new.parts, type # "approval-requested" => call \in new.parts
        PROVE  Writes(d, new, rows)
    <3>1. \A i \in DOMAIN rows : rows[i] = Row(type, drv.turn, drv.hop, {call}, d)
      BY <2>3, OneRowTypes
    <3>2. \A i \in DOMAIN rows : /\ rows[i].type = type /\ rows[i].by = d /\ rows[i].hop = drv.hop
                                 /\ rows[i].turn = drv.turn /\ rows[i].ids = {call}
      BY <3>1 DEF Row
    <3> QED
      BY <2>1, <2>3, <3>2 DEF Writes
  <2>4. ASSUME NEW call \in Items, rows = << Row("tool-call", drv.turn, drv.hop, {call}, d) >>,
               new.parts = drv.parts \cup {call}
        PROVE  Writes(d, new, rows)
    BY <2>3, <2>4
  <2>5. ASSUME NEW call \in Items, rows = << Row("tool-result", drv.turn, drv.hop, {call}, d) >>,
               new.parts = drv.parts \cup {call}
        PROVE  Writes(d, new, rows)
    BY <2>3, <2>5
  <2>6. ASSUME NEW call \in Items, rows = << Row("approval-requested", drv.turn, drv.hop, {call}, d) >>,
               new.parts = drv.parts
        PROVE  Writes(d, new, rows)
    BY <2>3, <2>6
  <2> QED
    BY <1>7, <2>2, <2>4, <2>5, <2>6 DEF Streams
<1>8. CASE EndsHop(d, new, rows)
  <2> DEFINE texts == {Item(d, drv.hop, n) : n \in 1 .. drv.text}
             messages == Row("hop-messages", drv.turn, drv.hop, drv.parts, d)
             others == {Row("assistant-text", drv.turn, drv.hop, texts, d),
                        Row("usage", drv.turn, drv.hop, {}, d), Row("done", drv.turn, 0, {}, d)}
  <2>1. /\ messages.type = "hop-messages" /\ messages.by = d /\ messages.hop = drv.hop
        /\ messages.turn = drv.turn /\ messages.ids = drv.parts
        /\ \A row \in others : /\ row.type \in {"assistant-text", "usage", "done"} /\ row.by = d
                               /\ row.turn = drv.turn
                               /\ row.type # "done" => row.hop = drv.hop
    BY DEF Row
  <2>2. RowSet(rows) \subseteq {messages} \cup others
    BY <1>8 DEF EndsHop
  <2>3. /\ drv.parts # {} => messages \in RowSet(rows)
        /\ drv.pc = "streaming" /\ SameTurn(drv, new) /\ Assorted(rows)
        /\ \/ new.pc \in {"over", "capped"} /\ new.hop = drv.hop
           \/ new.pc \in {"streaming", "erroring"} /\ new.hop = drv.hop + 1
    BY <1>8 DEF EndsHop
  <2> HIDE DEF messages, others
  <2>4. /\ drv.pc \in Driving /\ new.pc \in Driving \cup {"over"} /\ new.turn = drv.turn
        /\ new.start = drv.start /\ new.hop >= drv.hop /\ (new.pc = "streaming" => new.hop > drv.hop)
        /\ new.pc \notin {"none", "opening"}
    BY <1>1, <2>3 DEF Driving, SameTurn
  <2>5. ASSUME NEW i \in DOMAIN rows
        PROVE  /\ rows[i].by = d /\ rows[i].turn = drv.turn
               /\ rows[i].type \in HopTypes => rows[i].hop = drv.hop
               /\ rows[i].type \notin {"tool-call", "tool-result"}
    <3>1. rows[i] \in RowSet(rows)
      BY DEF RowSet
    <3> QED
      BY <2>1, <2>2, <3>1 DEF HopTypes
  <2>6. \A i, j \in DOMAIN rows : rows[i].type = rows[j].type => i = j
    BY <2>3 DEF Assorted
  <2>7. \/ drv.parts = {}
        \/ \E i \in DOMAIN rows : /\ rows[i].type = "hop-messages" /\ rows[i].by = d
                                  /\ rows[i].hop = drv.hop /\ rows[i].ids = drv.parts
    BY <2>1, <2>3 DEF RowSet
  <2> QED
    BY <2>3, <2>4, <2>5, <2>6, <2>7 DEF Writes
<1>9. CASE Finishes(d, new, rows)
  <2> DEFINE texts == {Item(d, drv.hop, n) : n \in 1 .. drv.text}
             done == Row("done", drv.turn, 0, {}, d)
             error == Row("error", drv.turn, 0, {}, d)
             text == Row("assistant-text", drv.turn, drv.hop, texts, d)
  <2>1. \A row \in {done, error, text} :
          /\ row.type \in {"done", "error", "assistant-text"} /\ row.by = d /\ row.turn = drv.turn
          /\ row.type = "assistant-text" => row.hop = drv.hop
    BY DEF Row
  <2>2. /\ drv.pc \in {"capped", "ending", "failing", "erroring"} /\ new.pc \in {"over", "ending", "erroring"}
        /\ new.turn = drv.turn /\ new.start = drv.start /\ new.hop = drv.hop
        /\ rows = << >> \/ \E row \in {done, error, text} : rows = <<row>>
    BY <1>9 DEF Finishes, SameTurn
  <2> HIDE DEF done, error, text
  <2>3. \A i \in DOMAIN rows : rows[i] \in {done, error, text}
    BY <1>1, <2>2, OneRowTypes
  <2>4. /\ drv.pc \in Driving /\ new.pc \in Driving \cup {"over"} /\ new.hop >= drv.hop
        /\ drv.pc # "streaming" /\ new.pc \notin {"none", "opening", "streaming"}
        /\ \A type \in HopTypes \cap {"done", "error", "assistant-text"} : type = "assistant-text"
    BY <1>1, <2>2 DEF Driving, HopTypes
  <2>5. ASSUME NEW i \in DOMAIN rows
        PROVE  /\ rows[i].by = d /\ rows[i].turn = drv.turn
               /\ rows[i].type \in HopTypes => rows[i].hop = drv.hop
               /\ rows[i].type \notin {"tool-call", "tool-result", "hop-messages"}
    BY <2>1, <2>3, <2>4
  <2> QED
    BY <2>2, <2>4, <2>5 DEF Writes
<1> QED
  BY <1>2, <1>3, <1>4, <1>5, <1>6, <1>7, <1>8, <1>9 DEF QuietStep

\* What is known of the rows and the driver before and after a step.
LEMMA RowsAfter ==
  ASSUME TypeInv, NEW d \in Drivers, NEW new \in DriverType,
         NEW rows \in Seq(RowType), Moves(d, new, rows)
  PROVE  /\ driver'[d] = new /\ \A k \in Drivers : k # d => driver'[k] = driver[k]
         /\ driver[d] \in DriverType
         /\ Len(journal) \in Nat /\ DOMAIN journal = 1 .. Len(journal)
         /\ DOMAIN journal \subseteq DOMAIN journal'
         /\ \A s \in DOMAIN journal : journal'[s] = journal[s] /\ journal[s] \in RowType
         /\ \A s \in DOMAIN journal' \ DOMAIN journal :
              /\ s \in Nat /\ s > Len(journal)
              /\ s - Len(journal) \in DOMAIN rows /\ journal'[s] = rows[s - Len(journal)]
         /\ \A i \in DOMAIN rows :
              /\ Len(journal) + i \in DOMAIN journal' /\ journal'[Len(journal) + i] = rows[i]
         /\ \A i \in DOMAIN rows : rows[i] \in RowType
  BY MovesOne, TypeInvFits, Grown, ElementOfSeq, LenProperties DEF Moves

LEMMA WritersKeepRows ==
  ASSUME TypeInv, RowsAreOfDrivers, NEW d \in Drivers, NEW new \in DriverType,
         NEW rows \in Seq(RowType), Moves(d, new, rows), Writes(d, new, rows)
  PROVE  RowsAreOfDrivers'
<1> SUFFICES ASSUME NEW s \in DOMAIN journal'
             PROVE  LET row == journal'[s]
                        drv == driver'[row.by] IN
                    /\ drv.pc \notin {"none", "opening"}
                    /\ row.type # "user-message" => row.turn = drv.turn
                    /\ row.type \in HopTypes => /\ drv.pc \in Driving \cup {"over"}
                                                /\ row.hop \in drv.start .. drv.hop
  BY DEF RowsAreOfDrivers
<1>1. CASE s \in DOMAIN journal
  <2>1. PICK row \in RowType : row = journal[s] /\ row = journal'[s]
    BY <1>1, RowsAfter
  <2>2. /\ row.by \in Drivers
        /\ driver[row.by].pc \notin {"none", "opening"}
        /\ row.type # "user-message" => row.turn = driver[row.by].turn
        /\ row.type \in HopTypes => /\ driver[row.by].pc \in Driving \cup {"over"}
                                    /\ row.hop \in driver[row.by].start .. driver[row.by].hop
    BY <1>1, <2>1 DEF RowType, RowsAreOfDrivers
  <2>3. CASE row.by # d
    BY <2>1, <2>2, <2>3, RowsAfter
  <2>4. CASE row.by = d
    <3>1. /\ new.pc \notin {"none", "opening"} /\ new.turn = driver[d].turn
          /\ driver[d].pc \in Driving \cup {"over"} =>
               new.pc \in Driving \cup {"over"} /\ new.start = driver[d].start /\ new.hop >= driver[d].hop
      BY <2>2, <2>4 DEF Writes
    <3>2. driver'[d] = new /\ new.hop \in Nat /\ driver[d].hop \in Nat /\ driver[d].start \in Nat
      BY RowsAfter DEF DriverType
    <3> QED
      BY <2>1, <2>2, <2>4, <3>1, <3>2
  <2> QED
    BY <2>3, <2>4
<1>2. CASE s \notin DOMAIN journal
  <2>1. PICK i \in DOMAIN rows : journal'[s] = rows[i]
    BY <1>2, RowsAfter
  <2>2. /\ rows[i].by = d /\ new.pc \notin {"none", "opening"}
        /\ rows[i].type # "user-message" => rows[i].turn = new.turn
        /\ rows[i].type \in HopTypes => /\ driver[d].pc \in Driving /\ rows[i].hop = driver[d].hop
    BY DEF Writes
  <2>3. driver[d].pc \in Driving =>
          /\ new.pc \in Driving \cup {"over"} /\ new.start = driver[d].start /\ new.hop >= driver[d].hop
          /\ driver[d].start <= driver[d].hop
    BY TypeInvFits, TurnAssumption DEF Writes, Fits
  <2>4. driver'[d] = new /\ new.hop \in Nat /\ driver[d].hop \in Nat /\ driver[d].start \in Nat
    BY RowsAfter DEF DriverType
  <2> QED
    BY <2>1, <2>2, <2>3, <2>4
<1> QED
  BY <1>1, <1>2

LEMMA WritersKeepTools ==
  ASSUME TypeInv, CallInv, ToolsAreInMessages, NEW d \in Drivers, NEW new \in DriverType,
         NEW rows \in Seq(RowType), Moves(d, new, rows), Writes(d, new, rows)
  PROVE  ToolsAreInMessages'
<1> SUFFICES ASSUME NEW s \in DOMAIN journal', journal'[s].type \in {"tool-call", "tool-result"}
             PROVE  \/ \E r \in DOMAIN journal' : /\ journal'[r].type = "hop-messages"
                                                  /\ journal'[r].by = journal'[s].by
                                                  /\ journal'[r].hop = journal'[s].hop
                                                  /\ journal'[s].ids \subseteq journal'[r].ids
                    \/ LET drv == driver'[journal'[s].by]
                       IN  /\ drv.pc = "streaming" /\ journal'[s].hop = drv.hop
                           /\ journal'[s].ids \subseteq drv.parts
  BY DEF ToolsAreInMessages
<1>1. CASE s \in DOMAIN journal
  <2>1. PICK row \in RowType : row = journal[s] /\ row = journal'[s]
    BY <1>1, RowsAfter
  <2>2. row.by \in Drivers /\ row.type \in {"tool-call", "tool-result"}
    BY <2>1 DEF RowType
  <2>3. row.ids # {}
    BY <1>1, <2>1, <2>2 DEF CallInv, RowsNameCalls, CallTypes
  <2>4. CASE \E r \in DOMAIN journal : /\ journal[r].type = "hop-messages" /\ journal[r].by = row.by
                                       /\ journal[r].hop = row.hop /\ row.ids \subseteq journal[r].ids
    <3>1. PICK r \in DOMAIN journal : /\ journal[r].type = "hop-messages" /\ journal[r].by = row.by
                                      /\ journal[r].hop = row.hop /\ row.ids \subseteq journal[r].ids
      BY <2>4
    <3>2. r \in DOMAIN journal' /\ journal'[r] = journal[r]
      BY RowsAfter
    <3> QED
      BY <2>1, <3>1, <3>2
  <2>5. CASE /\ driver[row.by].pc = "streaming" /\ row.hop = driver[row.by].hop
             /\ row.ids \subseteq driver[row.by].parts
    <3>1. CASE row.by # d
      BY <2>1, <2>2, <2>5, <3>1, RowsAfter
    <3>2. CASE row.by = d
      <4>1. driver[d].parts # {} /\ driver[d].pc = "streaming"
        BY <2>3, <2>5, <3>2
      <4>2. CASE new.pc = "streaming" /\ new.hop = driver[d].hop /\ driver[d].parts \subseteq new.parts
        BY <2>1, <2>5, <3>2, <4>2, RowsAfter
      <4>3. CASE \E i \in DOMAIN rows : /\ rows[i].type = "hop-messages" /\ rows[i].by = d
                                        /\ rows[i].hop = driver[d].hop /\ rows[i].ids = driver[d].parts
        <5>1. PICK i \in DOMAIN rows : /\ rows[i].type = "hop-messages" /\ rows[i].by = d
                                       /\ rows[i].hop = driver[d].hop /\ rows[i].ids = driver[d].parts
          BY <4>3
        <5>2. Len(journal) + i \in DOMAIN journal' /\ journal'[Len(journal) + i] = rows[i]
          BY RowsAfter
        <5> QED
          BY <2>1, <2>5, <3>2, <5>1, <5>2
      <4> QED
        BY <4>1, <4>2, <4>3 DEF Writes
    <3> QED
      BY <3>1, <3>2
  <2> QED
    BY <1>1, <2>1, <2>2, <2>4, <2>5 DEF ToolsAreInMessages
<1>2. CASE s \notin DOMAIN journal
  <2>1. PICK i \in DOMAIN rows : journal'[s] = rows[i]
    BY <1>2, RowsAfter
  <2>2. /\ rows[i].by = d /\ driver[d].pc = "streaming" /\ new.pc = "streaming"
        /\ new.hop = driver[d].hop /\ rows[i].ids \subseteq new.parts
        /\ rows[i].hop = driver[d].hop
    BY <2>1 DEF Writes, HopTypes
  <2> QED
    BY <2>1, <2>2, RowsAfter
<1> QED
  BY <1>1, <1>2

LEMMA WritersKeepMessages ==
  ASSUME TypeInv, RowsAreOfDrivers, OneMessagesPerHop, NEW d \in Drivers, NEW new \in DriverType,
         NEW rows \in Seq(RowType), Moves(d, new, rows), Writes(d, new, rows)
  PROVE  OneMessagesPerHop'
<1>1. /\ driver'[d] = new /\ \A k \in Drivers : k # d => driver'[k] = driver[k]
      /\ driver[d].hop \in Nat /\ new.hop \in Nat
      /\ \A s \in DOMAIN journal : journal'[s] = journal[s] /\ journal[s] \in RowType
  BY RowsAfter DEF DriverType
\* Of the messages that were there, none is of a hop that has yet to end.
<1>2. ASSUME NEW s \in DOMAIN journal, journal[s].type = "hop-messages"
      PROVE  /\ driver'[journal[s].by].pc = "streaming" => journal[s].hop < driver'[journal[s].by].hop
             /\ journal[s].by = d /\ driver[d].pc = "streaming" => journal[s].hop < driver[d].hop
  <2>1. journal[s].by \in Drivers /\ journal[s].hop \in Nat
    BY <1>1 DEF RowType
  <2>2. /\ driver[journal[s].by].pc = "streaming" => journal[s].hop < driver[journal[s].by].hop
        /\ driver[journal[s].by].pc \in Driving \cup {"over"}
    BY <1>2 DEF OneMessagesPerHop, RowsAreOfDrivers, HopTypes
  <2>3. CASE journal[s].by # d
    BY <1>1, <2>1, <2>2, <2>3
  <2>4. CASE journal[s].by = d
    <3>1. new.pc = "streaming" => driver[d].pc = "streaming" /\ new.hop >= driver[d].hop
      BY <2>2, <2>4 DEF Writes, Driving
    <3> QED
      BY <1>1, <2>1, <2>2, <2>4, <3>1
  <2> QED
    BY <2>3, <2>4
<1>3. ASSUME NEW s \in DOMAIN journal' \ DOMAIN journal, journal'[s].type = "hop-messages"
      PROVE  /\ journal'[s].by = d /\ driver[d].pc = "streaming" /\ journal'[s].hop = driver[d].hop
             /\ driver'[d].pc = "streaming" => journal'[s].hop < driver'[d].hop
             /\ \A r \in DOMAIN journal' \ DOMAIN journal : journal'[r].type = "hop-messages" => r = s
  <2>1. \A r \in DOMAIN journal' \ DOMAIN journal :
          r \in Nat /\ r - Len(journal) \in DOMAIN rows /\ journal'[r] = rows[r - Len(journal)]
    BY RowsAfter
  <2>2. Len(journal) \in Nat
    BY RowsAfter
  <2>3. PICK i \in DOMAIN rows : i = s - Len(journal) /\ journal'[s] = rows[i]
    BY <2>1
  <2>4. /\ rows[i].by = d /\ driver[d].pc = "streaming" /\ rows[i].hop = driver[d].hop
        /\ new.pc = "streaming" => new.hop > driver[d].hop
        /\ \A j \in DOMAIN rows : rows[j].type = "hop-messages" => j = i
    BY <1>3, <2>3 DEF Writes, HopTypes
  <2>5. ASSUME NEW r \in DOMAIN journal' \ DOMAIN journal, journal'[r].type = "hop-messages"
        PROVE  r = s
    <3>1. r - Len(journal) = s - Len(journal)
      BY <2>1, <2>3, <2>4, <2>5
    <3> QED
      BY <2>1, <2>2, <3>1
  <2> QED
    BY <1>1, <2>3, <2>4, <2>5
<1>4. ASSUME NEW s \in DOMAIN journal', journal'[s].type = "hop-messages"
      PROVE  driver'[journal'[s].by].pc = "streaming" => journal'[s].hop < driver'[journal'[s].by].hop
  BY <1>1, <1>2, <1>3, <1>4
<1>5. ASSUME NEW s \in DOMAIN journal', NEW r \in DOMAIN journal',
             journal'[s].type = "hop-messages", journal'[r].type = "hop-messages",
             journal'[r].by = journal'[s].by, journal'[r].hop = journal'[s].hop
      PROVE  r = s
  <2>1. CASE s \in DOMAIN journal /\ r \in DOMAIN journal
    BY <1>1, <1>5, <2>1 DEF OneMessagesPerHop
  <2>2. CASE s \notin DOMAIN journal /\ r \notin DOMAIN journal
    BY <1>3, <1>5, <2>2
  <2>3. ASSUME NEW q \in DOMAIN journal, NEW p \in DOMAIN journal' \ DOMAIN journal,
               journal'[q].type = "hop-messages", journal'[p].type = "hop-messages",
               journal'[q].by = journal'[p].by
        PROVE  journal'[q].hop # journal'[p].hop
    <3>1. journal'[p].by = d /\ driver[d].pc = "streaming" /\ journal'[p].hop = driver[d].hop
      BY <1>3, <2>3
    <3>2. journal[q].hop < driver[d].hop /\ journal'[q].hop = journal[q].hop
      BY <1>1, <1>2, <2>3, <3>1
    <3>3. journal[q].hop \in Nat
      BY <1>1 DEF RowType
    <3> QED
      BY <1>1, <3>1, <3>2, <3>3
  <2>4. CASE s \in DOMAIN journal /\ r \notin DOMAIN journal
    BY <1>5, <2>3, <2>4
  <2>5. CASE s \notin DOMAIN journal /\ r \in DOMAIN journal
    BY <1>5, <2>3, <2>5
  <2> QED
    BY <2>1, <2>2, <2>4, <2>5
<1> QED
  BY <1>4, <1>5 DEF OneMessagesPerHop

\* A row a driver had written before the step still starts it.
LEMMA StartStays ==
  ASSUME TypeInv, NEW d \in Drivers, NEW new \in DriverType,
         NEW rows \in Seq(RowType), Moves(d, new, rows), NEW k \in Drivers,
         NEW turn, NEW first, NEW o \in DOMAIN journal,
         journal[o].by = k, journal[o].turn = turn,
         \A s \in DOMAIN journal : journal[s].by = k => o <= s,
         driver'[k].turn = turn, driver'[k].start = first,
         driver'[k].pc \notin Handling =>
           \A s \in RowsOf(journal, turn) : s < o /\ journal[s].type \in HopTypes => journal[s].hop < first
  PROVE  StartsBehind(k)'
<1>1. /\ o \in Nat /\ Len(journal) \in Nat /\ o <= Len(journal) /\ o \in DOMAIN journal'
      /\ journal'[o] = journal[o]
      /\ \A s \in DOMAIN journal : s \in DOMAIN journal' /\ journal'[s] = journal[s]
      /\ \A s \in DOMAIN journal' \ DOMAIN journal : s \in Nat /\ s > Len(journal)
  BY RowsAfter
<1>2. ASSUME NEW s \in DOMAIN journal', journal'[s].by = k PROVE o <= s
  BY <1>1, <1>2
<1>3. ASSUME driver'[k].pc \notin Handling, NEW s \in RowsOf(journal', turn), s < o,
             journal'[s].type \in HopTypes
      PROVE  journal'[s].hop < first
  <2>1. s \in DOMAIN journal' /\ journal'[s].turn = turn /\ journal'[s].type # "user-message"
    BY <1>3 DEF RowsOf
  <2>2. s \in DOMAIN journal
    BY <1>1, <1>3, <2>1
  <2>3. s \in RowsOf(journal, turn) /\ journal'[s] = journal[s]
    BY <1>1, <2>1, <2>2 DEF RowsOf
  <2> QED
    BY <1>3, <2>3
<1> QED
  BY <1>1, <1>2, <1>3 DEF StartsBehind

\* The first row of a driver starts it.
LEMMA StartIsWritten ==
  ASSUME TypeInv, NEW d \in Drivers, NEW new \in DriverType,
         NEW row \in RowType, Moves(d, new, <<row>>), row.by = d, row.turn = new.turn,
         \A s \in DOMAIN journal : journal[s].by # d,
         new.pc \in Handling \/ \A s \in DOMAIN journal : journal[s].turn # new.turn
  PROVE  StartsBehind(d)'
<1>1. /\ DOMAIN journal' = DOMAIN journal \cup {Len(journal) + 1}
      /\ \A s \in DOMAIN journal : journal'[s] = journal[s] /\ s < Len(journal) + 1
      /\ journal'[Len(journal) + 1] = row
  BY TypeInvFits, GrownByOne DEF Moves
<1>2. driver'[d] = new /\ Len(journal) \in Nat
  BY MovesOne, TypeInvFits, LenProperties
<1> DEFINE o == Len(journal) + 1
<1>3. o \in DOMAIN journal' /\ journal'[o].by = d /\ journal'[o].turn = driver'[d].turn
  BY <1>1, <1>2
<1>4. \A s \in DOMAIN journal' : journal'[s].by = d => o <= s
  BY <1>1, <1>2
<1>5. ASSUME driver'[d].pc \notin Handling, NEW s \in RowsOf(journal', driver'[d].turn), s < o
      PROVE  FALSE
  <2>1. s \in DOMAIN journal' /\ journal'[s].turn = new.turn
    BY <1>2, <1>5 DEF RowsOf
  <2>2. s \in DOMAIN journal
    BY <1>1, <1>2, <1>5, <2>1
  <2> QED
    BY <1>1, <1>2, <1>5, <2>1, <2>2
<1> HIDE DEF o
<1> QED
  BY <1>3, <1>4, <1>5 DEF StartsBehind

Started == {"resolving", "reading", "over"} \cup Driving

LEMMA StepsStart ==
  ASSUME TypeInv, RowsAreOfDrivers, \A k \in Drivers : driver[k].pc \in Started => StartsBehind(k),
         NEW d \in Drivers, NEW new \in DriverType,
         NEW rows \in Seq(RowType), Moves(d, new, rows), QuietStep(d, new, rows)
  PROVE  \A k \in Drivers : driver'[k].pc \in Started => StartsBehind(k)'
<1>1. driver'[d] = new /\ \A k \in Drivers : k # d => driver'[k] = driver[k]
  BY MovesOne
<1>2. ASSUME NEW k \in Drivers, driver[k].pc \in Started, driver'[k].turn = driver[k].turn,
             driver'[k].pc \notin Handling =>
               driver'[k].start = driver[k].start /\ driver[k].pc \notin Handling
      PROVE  StartsBehind(k)'
  <2>1. PICK o \in DOMAIN journal :
          /\ journal[o].by = k /\ journal[o].turn = driver[k].turn
          /\ \A s \in DOMAIN journal : journal[s].by = k => o <= s
          /\ driver[k].pc \notin Handling =>
               \A s \in RowsOf(journal, driver[k].turn) :
                 s < o /\ journal[s].type \in HopTypes => journal[s].hop < driver[k].start
    BY <1>2 DEF StartsBehind
  <2>2. PICK turn, first : turn = driver[k].turn /\ first = driver'[k].start
    OBVIOUS
  <2>3. driver'[k].pc \notin Handling =>
          \A s \in RowsOf(journal, turn) : s < o /\ journal[s].type \in HopTypes => journal[s].hop < first
    BY <1>2, <2>1, <2>2
  <2>4. /\ journal[o].turn = turn /\ driver'[k].turn = turn /\ driver'[k].start = first
    BY <1>2, <2>1, <2>2
  <2> QED
    BY <2>1, <2>3, <2>4, StartStays
<1>3. ASSUME NEW k \in Drivers, k # d, driver'[k].pc \in Started PROVE StartsBehind(k)'
  BY <1>1, <1>2, <1>3
<1>4. driver[d].pc \in {"none", "opening"} => \A s \in DOMAIN journal : journal[s].by # d
  BY DEF RowsAreOfDrivers
<1>5. \A s \in DOMAIN journal : journal[s].turn \in DOMAIN journal
  BY TypeInvFits DEF Turns
<1>6. ASSUME new.pc \in Started PROVE StartsBehind(d)'
  <2>1. CASE Arrives(d, new, rows)
    BY <1>6, <2>1 DEF Arrives, Started, Driving
  <2>2. CASE Opens(d, new, rows)
    <3> DEFINE turn == Len(journal) + 1
               row == Row("user-message", turn, 0, {}, d)
    <3>1. Len(journal) \in Nat /\ DOMAIN journal = 1 .. Len(journal)
      BY RowsAfter
    <3>2. row \in RowType /\ row.by = d /\ row.turn = turn
      BY <3>1 DEF Row, RowType, RowTypes
    <3>3. driver[d].pc = "opening" /\ rows = <<row>> /\ new.turn = turn
      BY <2>2 DEF Opens
    <3>4. \A s \in DOMAIN journal : journal[s].turn # turn
      BY <1>5, <3>1
    <3> HIDE DEF row, turn
    <3> QED
      BY <1>4, <3>2, <3>3, <3>4, StartIsWritten
  <2>3. ASSUME NEW s \in DOMAIN journal, Resolves(d, s, new, rows) PROVE StartsBehind(d)'
    <3> DEFINE row == Row("approval-resolved", journal[s].turn, 0, journal[s].ids, d)
    <3>1. row \in RowType /\ row.by = d /\ row.turn = journal[s].turn
      BY TypeInvFits DEF Row, RowType, RowTypes
    <3>2. /\ driver[d].pc = "none" /\ rows = <<row>> /\ new.turn = journal[s].turn
          /\ new.pc \in Handling
      BY <2>3 DEF Resolves, Handling
    <3> HIDE DEF row
    <3> QED
      BY <1>4, <3>1, <3>2, StartIsWritten
  <2>4. CASE Handles(d, new, rows)
    <3>1. driver[d].pc = "resolving" /\ new.pc = "reading" /\ new.turn = driver[d].turn
      BY <1>6, <2>4 DEF Handles, Started, Driving, SameTurn
    <3> QED
      BY <1>1, <1>2, <3>1 DEF Started, Handling
  <2>5. CASE Continues(d, new, rows)
    <3>1. PICK turn, first : turn = driver[d].turn /\ first = NextHop(journal, turn)
      OBVIOUS
    <3>2. driver[d].pc = "reading" /\ new.turn = turn /\ new.start = first
      BY <2>5, <3>1 DEF Continues
    <3>3. PICK o \in DOMAIN journal :
            /\ journal[o].by = d /\ journal[o].turn = turn
            /\ \A s \in DOMAIN journal : journal[s].by = d => o <= s
      BY <3>1, <3>2 DEF StartsBehind, Started
    <3>4. \A h \in HopsOf(journal, turn) : h < first
      BY <3>1, NextHopIsNext, TypeInvFits DEF TypeInv
    <3>5. \A s \in RowsOf(journal, turn) :
            s < o /\ journal[s].type \in HopTypes => journal[s].hop < first
      BY <3>4 DEF HopsOf
    <3>6. driver'[d].turn = turn /\ driver'[d].start = first
      BY <1>1, <3>2
    <3> QED
      BY <3>3, <3>5, <3>6, StartStays
  <2>6. CASE /\ driver[d].pc \in Driving /\ new.pc \in Driving \cup {"over"}
             /\ new.turn = driver[d].turn /\ new.start = driver[d].start
    <3>1. driver[d].pc \in Started /\ driver[d].pc \notin Handling /\ new.pc \notin Handling
      BY <2>6 DEF Started, Driving, Handling
    <3> QED
      BY <1>1, <1>2, <2>6, <3>1
  <2>7. CASE Streams(d, new, rows) \/ EndsHop(d, new, rows) \/ Finishes(d, new, rows)
    BY <2>6, <2>7 DEF Streams, EndsHop, Finishes, SameTurn, Driving
  <2> QED
    BY <2>1, <2>2, <2>3, <2>4, <2>5, <2>7 DEF QuietStep
<1> QED
  BY <1>1, <1>3, <1>6

LEMMA HopInit == Init => HopInv
<1> SUFFICES ASSUME Init PROVE Hopping
  BY DEF HopInv
<1>1. /\ DOMAIN journal = {}
      /\ \A d \in Drivers : driver[d].pc = "none"
  BY IdleShape DEF Init
<1> QED
  BY <1>1 DEF Hopping, RowsAreOfDrivers, ToolsAreInMessages, OneMessagesPerHop, Driving

LEMMA HopNext == TypeInv /\ CallInv /\ HopInv /\ [Next]_vars => HopInv'
<1> SUFFICES ASSUME TypeInv, CallInv, HopInv, [Next]_vars, Quiet' PROVE Hopping'
  BY DEF HopInv
<1>1. Hopping
  BY FaultsStay DEF HopInv, Quiet
<1>2. CASE UNCHANGED vars
  <2>1. journal' = journal /\ driver' = driver
    BY <1>2 DEF vars
  <2>2. \A d \in Drivers : StartsBehind(d) => StartsBehind(d)'
    BY <2>1 DEF StartsBehind
  <2>3. RowsAreOfDrivers' /\ ToolsAreInMessages' /\ OneMessagesPerHop'
    BY <1>1, <2>1 DEF Hopping, RowsAreOfDrivers, ToolsAreInMessages, OneMessagesPerHop
  <2> QED
    BY <1>1, <2>1, <2>2, <2>3 DEF Hopping
<1>3. ASSUME NEW d \in Drivers, Request(d) \/ DriverStep(d) \/ Failure(d) PROVE Hopping'
  <2>1. PICK new \in DriverType, rows \in Seq(RowType) :
          Moves(d, new, rows) /\ QuietStep(d, new, rows)
    BY <1>3, QuietSteps
  <2>2. Writes(d, new, rows)
    BY <2>1, StepsWrite
  <2>3. RowsAreOfDrivers' /\ ToolsAreInMessages' /\ OneMessagesPerHop'
    BY <1>1, <2>1, <2>2, WritersKeepRows, WritersKeepTools, WritersKeepMessages DEF Hopping
  <2>4. \A k \in Drivers : driver'[k].pc \in Started => StartsBehind(k)'
    BY <1>1, <2>1, StepsStart DEF Hopping, Started
  <2> QED
    BY <2>3, <2>4 DEF Hopping, Started
<1> QED
  BY <1>2, <1>3 DEF Next

-----------------------------------------------------------------------------
(* A journal at rest.                                                        *)

AtRest == OneAtATime /\ \A d \in Drivers : driver[d].pc \in Resting

\* The rows of a hop are one driver's.
LEMMA OneWriterPerHop ==
  ASSUME TypeInv, Hopping, AtRest, NEW turn,
         NEW s \in RowsOf(journal, turn), NEW r \in RowsOf(journal, turn),
         journal[s].type \in HopTypes, journal[r].type \in HopTypes,
         journal[s].hop = journal[r].hop
  PROVE  journal[s].by = journal[r].by
<1>1. \A q \in DOMAIN journal : journal[q] \in RowType /\ q \in Nat /\ journal[q].hop \in Nat
  BY TypeInvFits, LenProperties DEF RowType
<1>2. ASSUME NEW p \in RowsOf(journal, turn), NEW q \in RowsOf(journal, turn),
             journal[p].type \in HopTypes, journal[q].type \in HopTypes,
             journal[p].hop = journal[q].hop,
             NEW o \in DOMAIN journal, NEW u \in DOMAIN journal, o < u,
             journal[o].by = journal[p].by, journal[u].by = journal[q].by,
             journal[o].turn = turn, journal[u].turn = turn,
             \A x \in RowsOf(journal, turn) :
               x < u /\ journal[x].type \in HopTypes => journal[x].hop < journal[q].hop
      PROVE  journal[p].by = journal[q].by
  <2>1. p \in DOMAIN journal /\ journal[p].turn = turn
    BY DEF RowsOf
  <2>2. ~(p < u)
    BY <1>1, <1>2, <2>1
  <2>3. CASE p = u
    BY <1>2, <2>3
  <2>4. CASE u < p
    BY <1>2, <2>1, <2>4 DEF AtRest, OneAtATime
  <2> QED
    BY <1>1, <2>1, <2>2, <2>3, <2>4
<1>3. ASSUME NEW q \in RowsOf(journal, turn), journal[q].type \in HopTypes
      PROVE  \E o \in DOMAIN journal :
               /\ journal[o].by = journal[q].by /\ journal[o].turn = turn
               /\ \A x \in RowsOf(journal, turn) :
                    x < o /\ journal[x].type \in HopTypes => journal[x].hop < journal[q].hop
  <2>1. /\ q \in DOMAIN journal /\ journal[q].turn = turn /\ journal[q].type # "user-message"
        /\ journal[q].by \in Drivers
    BY <1>1 DEF RowsOf, RowType
  <2> DEFINE d == journal[q].by
  <2>2. /\ driver[d].pc = "over" /\ driver[d].turn = turn
        /\ journal[q].hop \in driver[d].start .. driver[d].hop
    BY <1>3, <2>1 DEF Hopping, RowsAreOfDrivers, AtRest, Driving, Resting
  <2>3. driver[d].start \in Nat /\ driver[d].hop \in Nat
    BY <2>1, TypeInvFits DEF DriverType
  <2> HIDE DEF d
  <2>4. PICK o \in DOMAIN journal :
          /\ journal[o].by = d /\ journal[o].turn = turn
          /\ \A x \in RowsOf(journal, turn) :
               x < o /\ journal[x].type \in HopTypes => journal[x].hop < driver[d].start
    BY <2>1, <2>2 DEF Hopping, StartsBehind, Handling, d
  <2>5. \A x \in RowsOf(journal, turn) : x \in DOMAIN journal
    BY DEF RowsOf
  <2> QED
    BY <1>1, <2>1, <2>2, <2>3, <2>4, <2>5 DEF d
<1>4. PICK o \in DOMAIN journal :
        /\ journal[o].by = journal[s].by /\ journal[o].turn = turn
        /\ \A x \in RowsOf(journal, turn) :
             x < o /\ journal[x].type \in HopTypes => journal[x].hop < journal[s].hop
  BY <1>3
<1>5. PICK u \in DOMAIN journal :
        /\ journal[u].by = journal[r].by /\ journal[u].turn = turn
        /\ \A x \in RowsOf(journal, turn) :
             x < u /\ journal[x].type \in HopTypes => journal[x].hop < journal[r].hop
  BY <1>3
<1>6. CASE o = u
  BY <1>4, <1>5, <1>6
<1>7. CASE o < u
  BY <1>2, <1>4, <1>5, <1>7
<1>8. CASE u < o
  BY <1>2, <1>4, <1>5, <1>8
<1> QED
  BY <1>1, <1>6, <1>7, <1>8

\* The tool rows of a hop are in its one row of messages.
LEMMA HopsVerify ==
  ASSUME TypeInv, Hopping, AtRest, NEW turn, NEW hop
  PROVE  HopVerifies(journal, turn, hop)
<1> DEFINE tools == HopRows(journal, turn, hop, {"tool-call"}) \cup HopRows(journal, turn, hop, {"tool-result"})
           messages == HopRows(journal, turn, hop, {"hop-messages"})
<1>1. \A s \in tools \cup messages :
        /\ s \in RowsOf(journal, turn) /\ s \in DOMAIN journal
        /\ journal[s].turn = turn /\ journal[s].hop = hop /\ journal[s].type \in HopTypes
  BY DEF HopRows, RowsOf, HopTypes
<1>2. /\ \A s \in tools : journal[s].type \in {"tool-call", "tool-result"}
      /\ \A s \in messages : journal[s].type = "hop-messages"
  BY DEF HopRows
<1>3. ASSUME NEW s \in tools
      PROVE  \E r \in messages : journal[s].ids \subseteq journal[r].ids
  <2>1. journal[s].by \in Drivers
    BY <1>1, TypeInvFits DEF RowType
  <2>2. PICK r \in DOMAIN journal :
          /\ journal[r].type = "hop-messages" /\ journal[r].by = journal[s].by
          /\ journal[r].hop = journal[s].hop /\ journal[s].ids \subseteq journal[r].ids
    BY <1>1, <1>2, <2>1 DEF Hopping, ToolsAreInMessages, AtRest, Resting
  <2>3. journal[r].turn = turn
    BY <1>1, <1>2, <2>2 DEF Hopping, RowsAreOfDrivers
  <2>4. r \in messages
    BY <1>1, <2>2, <2>3 DEF HopRows, RowsOf
  <2> QED
    BY <2>2, <2>4
<1>4. ASSUME NEW s \in messages, NEW r \in messages PROVE r = s
  <2>1. journal[r].by = journal[s].by
    BY <1>1, OneWriterPerHop
  <2> QED
    BY <1>1, <1>2, <2>1 DEF Hopping, OneMessagesPerHop
<1>5. HopIds(journal, turn, hop, {"tool-call"}) \cup HopIds(journal, turn, hop, {"tool-result"})
        = UNION {journal[s].ids : s \in tools}
  BY DEF HopIds
<1>6. CASE messages = {}
  <2>1. tools = {}
    BY <1>3, <1>6
  <2> QED
    BY <1>5, <1>6, <2>1 DEF HopVerifies
<1>7. CASE messages # {}
  <2>1. PICK s \in messages : TRUE
    BY <1>7
  <2>2. \A r \in messages : r <= s
    <3>1. s \in Nat
      BY <1>1, TypeInvFits, LenProperties
    <3> QED
      BY <1>4, <3>1
  <2>3. UNION {journal[r].ids : r \in tools} \subseteq journal[s].ids
    BY <1>3, <1>4
  <2> HIDE DEF tools
  <2>4. HopIds(journal, turn, hop, {"tool-call"}) \cup HopIds(journal, turn, hop, {"tool-result"})
          \subseteq journal[s].ids
    BY <1>5, <2>3
  <2> QED
    BY <1>7, <2>1, <2>2, <2>4 DEF HopVerifies
<1> QED
  BY <1>6, <1>7

\* When nothing but handlers failed, nobody is at work and the drivers of each
\* turn took turns, the journal passes verify-journal (scripts/verify-journal.ts):
\* a continuation never reuses a hop, and each hop's one row of messages has all
\* its tool events.
THEOREM TheJournalVerifies == Spec => []JournalVerifies
<1>1. TypeInv /\ HopInv => JournalVerifies
  <2> SUFFICES ASSUME TypeInv, Hopping, AtRest PROVE Verifies(journal)
    BY DEF HopInv, Quiet, JournalVerifies, AtRest
  <2> QED
    BY HopsVerify DEF Verifies
<1> QED
  BY <1>1, TypeInit, TypeNext, CallInit, CallNext, HopInit, HopNext, PTL DEF Spec
=============================================================================
