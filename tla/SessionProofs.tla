---------------------------- MODULE SessionProofs ----------------------------
(* That an archiving close loses no message journaled before its copy, for   *)
(* every number of messages, closes and faults.                              *)
EXTENDS Session, TLAPS

Row == [seq : Nat, tag : {"user", "closed"}]

Closing ==
  [pc : {"idle", "flush", "put", "destroy", "wipe", "unregister", "done"},
   mode : {"none", "archive", "purge", "reset"},
   at : Nat, upto : Nat, copy : Seq(Row)]

TypeOK ==
  /\ rows \in Seq(Row) /\ next \in Nat
  /\ closers \in [AllClosers -> Closing]
  /\ archives \subseteq [at : Nat, rows : Seq(Row)]
  /\ closes \in Nat /\ faults \in Nat

\* Sequence numbers are given out in order.
Numbered == \A row \in ToSet(rows) : row.seq < next

\* All that is left of the journal a close has read is among some rows.
Holds(some, k) == \A row \in ToSet(rows) : row.seq <= closers[k].upto => row \in ToSet(some)

\* From its copy to its wipe, an archiving close has what it is about to wipe:
\* first in the copy, then in the archive, unless that could not be written.
Keeps(k) ==
  closers[k].mode = "archive" =>
    /\ closers[k].pc \in {"put", "destroy", "wipe"} => closers[k].upto < next
    /\ closers[k].pc = "put" => Holds(closers[k].copy, k)
    /\ closers[k].pc \in {"destroy", "wipe"} =>
         faults > 0 \/ \E a \in archives : Holds(a.rows, k)

\* The inductive invariant.
KeepInv == TypeOK /\ Numbered /\ (\A k \in AllClosers : Keeps(k)) /\ OnlyLatecomersAreLost

-----------------------------------------------------------------------------

\* A row more in a sequence is a row more in its set.
LEMMA ToSetAppend ==
  ASSUME NEW S, NEW s \in Seq(S), NEW e \in S
  PROVE  /\ ToSet(Append(s, e)) = ToSet(s) \cup {e}
         /\ Append(s, e) \in Seq(S)
<1>1. DOMAIN Append(s, e) = 1..(Len(s) + 1) /\ DOMAIN s = 1..Len(s) /\ Len(s) \in Nat
  OBVIOUS
<1>2. \A i \in 1..Len(s) : Append(s, e)[i] = s[i]
  OBVIOUS
<1>3. Append(s, e)[Len(s) + 1] = e
  OBVIOUS
<1>4. \A i \in 1..(Len(s) + 1) : i \in 1..Len(s) \/ i = Len(s) + 1
  BY <1>1
<1>5. \A x \in ToSet(Append(s, e)) : x \in ToSet(s) \cup {e}
  BY <1>1, <1>2, <1>3, <1>4 DEF ToSet
<1>6. \A x \in ToSet(s) : x \in ToSet(Append(s, e))
  <2> SUFFICES ASSUME NEW i \in 1..Len(s) PROVE s[i] \in ToSet(Append(s, e))
    BY <1>1 DEF ToSet
  <2>1. i \in DOMAIN Append(s, e)
    BY <1>1
  <2> QED
    BY <1>2, <2>1 DEF ToSet
<1>7. e \in ToSet(Append(s, e))
  <2>1. Len(s) + 1 \in DOMAIN Append(s, e)
    BY <1>1
  <2> QED
    BY <1>3, <2>1 DEF ToSet
<1> QED
  BY <1>5, <1>6, <1>7

LEMMA ToSetEmpty == ToSet(<<>>) = {} /\ <<>> \in Seq(Row)
<1>1. ToSet(<<>>) = {}
  BY DEF ToSet
<1>2. <<>> \in Seq(Row)
  OBVIOUS
<1> QED
  BY <1>1, <1>2

LEMMA ToSetIn ==
  ASSUME NEW S, NEW s \in Seq(S)
  PROVE  ToSet(s) \subseteq S
<1>1. DOMAIN s = 1..Len(s) /\ \A i \in 1..Len(s) : s[i] \in S
  OBVIOUS
<1> QED
  BY <1>1 DEF ToSet

\* What a step makes of a close, where it does not copy the journal.
LEMMA ClosingSteps ==
  /\ NotClosing \in Closing /\ NotClosing.mode # "archive"
  /\ [NotClosing EXCEPT !.pc = "done"] \in Closing
  /\ [NotClosing EXCEPT !.pc = "done"].mode # "archive"
  /\ \A c \in Closing : [c EXCEPT !.pc = "unregister", !.copy = <<>>] \in Closing
<1>1. <<>> \in Seq(Row)
  BY ToSetEmpty
<1>2. NotClosing \in Closing /\ NotClosing.mode # "archive"
  BY <1>1 DEF NotClosing, Closing
<1>3. /\ [NotClosing EXCEPT !.pc = "done"] \in Closing
      /\ [NotClosing EXCEPT !.pc = "done"].mode # "archive"
  BY <1>1 DEF NotClosing, Closing
<1>4. \A c \in Closing : [c EXCEPT !.pc = "unregister", !.copy = <<>>] \in Closing
  BY <1>1 DEF Closing
<1> QED
  BY <1>2, <1>3, <1>4

\* What a close starts with.
LEMMA Begins ==
  ASSUME NEW mode \in {"archive", "purge", "reset"}, NEW at \in Nat,
         NEW pc \in {"flush", "destroy", "wipe"}
  PROVE  /\ [NotClosing EXCEPT !.mode = mode, !.at = at, !.pc = pc] \in Closing
         /\ [NotClosing EXCEPT !.mode = mode, !.at = at, !.pc = pc].mode = mode
         /\ [NotClosing EXCEPT !.mode = mode, !.at = at, !.pc = pc].pc = pc
<1>1. \A c \in Closing :
        /\ [c EXCEPT !.mode = mode, !.at = at, !.pc = pc] \in Closing
        /\ [c EXCEPT !.mode = mode, !.at = at, !.pc = pc].mode = mode
        /\ [c EXCEPT !.mode = mode, !.at = at, !.pc = pc].pc = pc
  BY DEF Closing
<1> QED
  BY <1>1, ClosingSteps

\* Steps that leave the journal's closing side alone, and count faults up, keep
\* the invariant.
LEMMA WritingSteps ==
  ASSUME KeepInv, UNCHANGED <<rows, next, closers, archives, closes, purged>>,
         faults' \in Nat, faults' >= faults
  PROVE  KeepInv'
<1> USE DEF KeepInv
<1>1. TypeOK'
  BY DEF TypeOK
<1>2. Numbered'
  BY DEF Numbered
<1>3. \A k \in AllClosers : Keeps(k)'
  BY DEF Keeps, Holds, TypeOK
<1>4. OnlyLatecomersAreLost'
  BY DEF OnlyLatecomersAreLost, InAnArchive, TypeOK
<1> QED
  BY <1>1, <1>2, <1>3, <1>4

\* A close that goes on, and changes nothing but where it is, keeps it.
LEMMA Moves ==
  ASSUME KeepInv, NEW k \in AllClosers, NEW c \in Closing, closers' = [closers EXCEPT ![k] = c],
         UNCHANGED <<rows, next, archives, faults, purged>>, closes' \in Nat,
         c.mode = "archive" => c.pc \in {"idle", "flush", "unregister", "done"} \/
           /\ closers[k].mode = "archive" /\ c.upto = closers[k].upto
           /\ closers[k].pc = "destroy" /\ c.pc = "wipe"
  PROVE  KeepInv'
<1> USE DEF KeepInv
<1>1. TypeOK'
  BY DEF TypeOK
<1>2. Numbered'
  BY DEF Numbered
<1>3. ASSUME NEW l \in AllClosers PROVE Keeps(l)'
  <2>1. closers' = [closers EXCEPT ![k] = c] /\ closers'[l] = IF l = k THEN c ELSE closers[l]
    BY DEF TypeOK
  <2>2. CASE l # k
    BY <2>1, <2>2 DEF Keeps, Holds
  <2>3. CASE l = k /\ c.mode # "archive"
    BY <2>1, <2>3 DEF Keeps
  <2>4. CASE l = k /\ c.mode = "archive" /\ c.pc \in {"idle", "flush", "unregister", "done"}
    BY <2>1, <2>4 DEF Keeps
  <2>5. CASE /\ l = k /\ c.mode = "archive" /\ closers[k].mode = "archive"
             /\ c.upto = closers[k].upto /\ closers[k].pc = "destroy" /\ c.pc = "wipe"
    BY <2>1, <2>5 DEF Keeps, Holds
  <2> QED
    BY <2>2, <2>3, <2>4, <2>5
<1>4. OnlyLatecomersAreLost'
  BY DEF OnlyLatecomersAreLost, InAnArchive
<1> QED
  BY <1>1, <1>2, <1>3, <1>4

-----------------------------------------------------------------------------

LEMMA KeepInit == Init => KeepInv
<1> SUFFICES ASSUME Init PROVE KeepInv
  OBVIOUS
<1> USE DEF Init, NotClosing
<1>1. TypeOK
  BY DEF TypeOK, Closing
<1>2. Numbered
  BY ToSetEmpty DEF Numbered
<1>3. \A k \in AllClosers : Keeps(k)
  BY DEF Keeps
<1>4. OnlyLatecomersAreLost
  BY DEF OnlyLatecomersAreLost
<1> QED
  BY <1>1, <1>2, <1>3, <1>4 DEF KeepInv

\* A row is appended: its number is beyond all that a close has copied.
LEMMA Appending ==
  ASSUME KeepInv, NEW tag \in {"user", "closed"}, AppendRow(tag)
  PROVE  /\ rows' \in Seq(Row) /\ next' \in Nat /\ Numbered'
         /\ ToSet(rows') = ToSet(rows) \cup {[seq |-> next, tag |-> tag]}
<1>1. [seq |-> next, tag |-> tag] \in Row
  BY DEF KeepInv, TypeOK, Row
<1>2. rows \in Seq(Row) /\ next \in Nat
  BY DEF KeepInv, TypeOK
<1>3. /\ ToSet(rows') = ToSet(rows) \cup {[seq |-> next, tag |-> tag]}
      /\ rows' \in Seq(Row) /\ next' = next + 1
  BY <1>1, <1>2, ToSetAppend DEF AppendRow
<1>4. \A row \in ToSet(rows) : row.seq \in Nat
  BY <1>2, ToSetIn DEF Row
<1>5. Numbered'
  BY <1>2, <1>3, <1>4 DEF KeepInv, Numbered
<1> QED
  BY <1>2, <1>3, <1>5

\* What held of some rows for a close still does, for the new row is not its.
LEMMA HoldsOn ==
  ASSUME NEW k, NEW some, NEW tag, Holds(some, k),
         next \in Nat, closers[k].upto < next, closers'[k] = closers[k],
         ToSet(rows') = ToSet(rows) \cup {[seq |-> next, tag |-> tag]},
         closers[k].upto \in Nat
  PROVE  Holds(some, k)'
<1> SUFFICES ASSUME NEW row \in ToSet(rows'), row.seq <= closers[k].upto
             PROVE  row \in ToSet(some)
  BY DEF Holds
<1>1. row.seq # next
  OBVIOUS
<1>2. row \in ToSet(rows)
  BY <1>1
<1> QED
  BY <1>2 DEF Holds

LEMMA KeepInsert ==
  ASSUME KeepInv, NEW w \in Writers, Insert(w)
  PROVE  KeepInv'
<1>1. AppendRow("user") /\ UNCHANGED <<closers, archives, closes, purged, faults>>
  BY DEF Insert, ClosingSide
<1>2. /\ rows' \in Seq(Row) /\ next' \in Nat /\ Numbered' /\ next' = next + 1
      /\ ToSet(rows') = ToSet(rows) \cup {[seq |-> next, tag |-> "user"]}
  BY <1>1, Appending DEF AppendRow
<1>3. TypeOK'
  BY <1>1, <1>2 DEF KeepInv, TypeOK
<1>4. ASSUME NEW k \in AllClosers PROVE Keeps(k)'
  <2>1. closers[k].upto \in Nat /\ next \in Nat
    BY DEF KeepInv, TypeOK, Closing
  <2>2. ASSUME NEW some, Holds(some, k), closers[k].upto < next PROVE Holds(some, k)'
    BY <1>1, <1>2, <2>1, <2>2, HoldsOn
  <2>3. Keeps(k)
    BY DEF KeepInv
  <2>4. CASE closers[k].mode = "archive" /\ closers[k].pc = "put"
    BY <1>1, <1>2, <2>1, <2>2, <2>3, <2>4 DEF Keeps
  <2>5. CASE closers[k].mode = "archive" /\ closers[k].pc \in {"destroy", "wipe"}
    <3>1. closers[k].upto < next' /\ (faults > 0 \/ \E a \in archives : Holds(a.rows, k))
      BY <1>2, <2>1, <2>3, <2>5 DEF Keeps
    <3>2. faults > 0 \/ \E a \in archives : Holds(a.rows, k)'
      BY <2>2, <2>3, <2>5, <3>1 DEF Keeps
    <3> QED
      BY <1>1, <2>5, <3>1, <3>2 DEF Keeps
  <2> QED
    BY <1>1, <2>4, <2>5 DEF Keeps
<1>5. OnlyLatecomersAreLost'
  BY <1>1 DEF KeepInv, OnlyLatecomersAreLost, InAnArchive
<1> QED
  BY <1>2, <1>3, <1>4, <1>5 DEF KeepInv

\* The close that copies has all of the journal; the others lose nothing.
LEMMA KeepCopy ==
  ASSUME KeepInv, NEW k \in AllClosers, Copy(k)
  PROVE  KeepInv'
<1> DEFINE c == [closers[k] EXCEPT !.pc = "put", !.upto = next, !.copy = rows']
<1>1. /\ AppendRow("closed") /\ UNCHANGED <<archives, closes, purged, faults>>
      /\ closers' = [closers EXCEPT ![k] = c]
  BY DEF Copy, Becomes
<1>2. /\ rows' \in Seq(Row) /\ next' \in Nat /\ Numbered' /\ next' = next + 1
      /\ ToSet(rows') = ToSet(rows) \cup {[seq |-> next, tag |-> "closed"]}
  BY <1>1, Appending DEF AppendRow
<1>3. closers \in [AllClosers -> Closing] /\ next \in Nat
  BY DEF KeepInv, TypeOK
<1>4. c \in Closing
  BY <1>2, <1>3 DEF Closing
<1>5. TypeOK'
  BY <1>1, <1>2, <1>3, <1>4 DEF KeepInv, TypeOK
<1>6. ASSUME NEW l \in AllClosers PROVE Keeps(l)'
  <2>1. CASE l = k
    <3>1. closers'[k] = c /\ c.pc = "put" /\ c.upto = next /\ c.copy = rows'
      BY <1>1, <1>3 DEF Closing
    <3> QED
      BY <1>2, <1>3, <2>1, <3>1 DEF Keeps, Holds
  <2>2. CASE l # k
    <3>1. closers'[l] = closers[l] /\ closers[l].upto \in Nat
      BY <1>1, <1>3, <2>2 DEF Closing
    <3>2. ASSUME NEW some, Holds(some, l), closers[l].upto < next PROVE Holds(some, l)'
      BY <1>2, <1>3, <3>1, <3>2, HoldsOn
    <3>3. Keeps(l)
      BY DEF KeepInv
    <3>4. CASE closers[l].mode = "archive" /\ closers[l].pc = "put"
      BY <1>2, <1>3, <3>1, <3>2, <3>3, <3>4 DEF Keeps
    <3>5. CASE closers[l].mode = "archive" /\ closers[l].pc \in {"destroy", "wipe"}
      <4>1. closers[l].upto < next' /\ (faults > 0 \/ \E a \in archives : Holds(a.rows, l))
        BY <1>2, <1>3, <3>1, <3>3, <3>5 DEF Keeps
      <4>2. faults > 0 \/ \E a \in archives : Holds(a.rows, l)'
        BY <3>2, <3>3, <3>5, <4>1 DEF Keeps
      <4> QED
        BY <1>1, <3>1, <3>5, <4>1, <4>2 DEF Keeps
    <3> QED
      BY <3>1, <3>4, <3>5 DEF Keeps
  <2> QED
    BY <2>1, <2>2
<1>7. OnlyLatecomersAreLost'
  BY <1>1 DEF KeepInv, OnlyLatecomersAreLost, InAnArchive
<1> QED
  BY <1>2, <1>5, <1>6, <1>7 DEF KeepInv

\* The copy becomes an archive, or a fault is on record.
LEMMA KeepPut ==
  ASSUME KeepInv, NEW k \in AllClosers, Put(k)
  PROVE  KeepInv'
<1> DEFINE c == [closers[k] EXCEPT !.pc = "destroy"]
<1> PICK a : a = [at |-> closers[k].at, rows |-> closers[k].copy]
  OBVIOUS
<1>1. /\ closers[k].pc = "put" /\ closers' = [closers EXCEPT ![k] = c]
      /\ UNCHANGED <<rows, next, closes, purged>>
  BY DEF Put, Becomes
<1>2. \/ archives' = archives \cup {a} /\ faults' = faults
      \/ archives' = archives /\ faults' = faults + 1
  BY DEF Put, Fault
<1>3. closers \in [AllClosers -> Closing] /\ faults \in Nat /\ archives \subseteq archives'
  BY <1>2 DEF KeepInv, TypeOK
<1>4. c \in Closing /\ a \in [at : Nat, rows : Seq(Row)]
  BY <1>3 DEF Closing
<1>5. faults' \in Nat /\ (faults > 0 => faults' > 0)
  BY <1>2, <1>3
<1>6. TypeOK'
  BY <1>1, <1>2, <1>3, <1>4, <1>5 DEF KeepInv, TypeOK
<1>7. ASSUME NEW l \in AllClosers PROVE Keeps(l)'
  <2>1. Keeps(l)
    BY DEF KeepInv
  <2>2. CASE l = k
    <3>1. closers'[k] = c /\ c.pc = "destroy" /\ c.upto = closers[k].upto
            /\ c.mode = closers[k].mode
      BY <1>1, <1>3 DEF Closing
    <3>2. ASSUME c.mode = "archive" PROVE faults' > 0 \/ \E b \in archives' : Holds(b.rows, k)'
      <4>1. Holds(closers[k].copy, k) /\ a.rows = closers[k].copy
        BY <1>1, <2>1, <2>2, <3>1, <3>2 DEF Keeps
      <4>2. Holds(a.rows, k)'
        BY <1>1, <3>1, <4>1 DEF Holds
      <4>3. a \in archives' \/ faults' > 0
        BY <1>2, <1>3
      <4> QED
        BY <4>2, <4>3
    <3> QED
      BY <1>1, <2>1, <2>2, <3>1, <3>2 DEF Keeps
  <2>3. CASE l # k
    <3>1. closers'[l] = closers[l]
      BY <1>1, <1>3, <2>3
    <3> QED
      BY <1>1, <1>3, <1>5, <2>1, <3>1 DEF Keeps, Holds
  <2> QED
    BY <2>2, <2>3
<1>8. OnlyLatecomersAreLost'
  BY <1>1, <1>3, <1>5 DEF KeepInv, OnlyLatecomersAreLost, InAnArchive
<1>9. Numbered'
  BY <1>1 DEF KeepInv, Numbered
<1> QED
  BY <1>6, <1>7, <1>8, <1>9 DEF KeepInv

\* What a close wipes is in an archive, or came after its copy.
LEMMA KeepWipe ==
  ASSUME KeepInv, NEW k \in AllClosers, Wipe(k)
  PROVE  KeepInv'
<1> DEFINE c == [closers[k] EXCEPT !.pc = "unregister", !.copy = <<>>]
<1>1. /\ closers[k].pc = "wipe" /\ rows' = <<>> /\ Purges(k)
      /\ closers' = [closers EXCEPT ![k] = c]
      /\ UNCHANGED <<next, archives, closes, faults>>
  BY DEF Wipe, Becomes
<1>2. closers \in [AllClosers -> Closing] /\ faults \in Nat /\ rows \in Seq(Row)
  BY DEF KeepInv, TypeOK
<1>3. ToSet(rows') = {} /\ rows' \in Seq(Row)
  BY <1>1, ToSetEmpty
<1>4. c \in Closing
  BY <1>2, ClosingSteps
<1>5. TypeOK'
  BY <1>1, <1>2, <1>3, <1>4 DEF KeepInv, TypeOK
<1>6. Numbered'
  BY <1>3 DEF Numbered
<1>7. ASSUME NEW l \in AllClosers PROVE Keeps(l)'
  <2>1. Keeps(l)
    BY DEF KeepInv
  <2>2. CASE l = k
    <3>1. closers'[k] = c /\ c.pc = "unregister"
      BY <1>1, <1>2 DEF Closing
    <3> QED
      BY <2>2, <3>1 DEF Keeps
  <2>3. CASE l # k
    <3>1. closers'[l] = closers[l]
      BY <1>1, <1>2, <2>3
    <3> QED
      BY <1>1, <1>3, <2>1, <3>1 DEF Keeps, Holds
  <2> QED
    BY <2>2, <2>3
<1>8. OnlyLatecomersAreLost'
  <2> SUFFICES ASSUME NEW p \in purged' PROVE p.late \/ InAnArchive(p.row)' \/ faults' > 0
    BY DEF OnlyLatecomersAreLost
  <2>1. CASE p \in purged
    BY <1>1, <2>1 DEF KeepInv, OnlyLatecomersAreLost, InAnArchive
  <2>2. CASE p \notin purged
    <3>1. /\ closers[k].mode = "archive"
          /\ \E row \in ToSet(rows) : p = [row |-> row, late |-> row.seq > closers[k].upto]
      BY <1>1, <2>2 DEF Purges
    <3>2. PICK row \in ToSet(rows) : p = [row |-> row, late |-> row.seq > closers[k].upto]
      BY <3>1
    <3>3. row.seq \in Nat /\ closers[k].upto \in Nat
      BY <1>2, <3>2, ToSetIn DEF Row, Closing
    <3>4. faults > 0 \/ \E a \in archives : Holds(a.rows, k)
      BY <1>1, <3>1 DEF KeepInv, Keeps
    <3>5. p.late \/ row.seq <= closers[k].upto
      <4>1. CASE row.seq > closers[k].upto
        BY <3>2, <4>1
      <4>2. CASE ~(row.seq > closers[k].upto)
        BY <3>3, <4>2
      <4> QED
        BY <4>1, <4>2
    <3>6. p.late \/ faults > 0 \/ \E a \in archives : row \in ToSet(a.rows)
      BY <3>2, <3>4, <3>5 DEF Holds
    <3> QED
      BY <1>1, <3>2, <3>6 DEF InAnArchive
  <2> QED
    BY <2>1, <2>2
<1> QED
  BY <1>5, <1>6, <1>7, <1>8 DEF KeepInv

\* Faults count up.
LEMMA FaultCounts ==
  ASSUME KeepInv, NEW f, Fault(f)
  PROVE  faults' \in Nat /\ faults' >= faults
BY DEF Fault, KeepInv, TypeOK

\* The steps of a close that only move it on.
LEMMA KeepMoves ==
  ASSUME KeepInv, NEW k \in AllClosers, Delete(k) \/ Destroy(k) \/ Unregister(k)
  PROVE  KeepInv'
<1>1. closers \in [AllClosers -> Closing] /\ closes \in Nat
  BY DEF KeepInv, TypeOK
<1>2. NotClosing \in Closing /\ [NotClosing EXCEPT !.pc = "done"] \in Closing
  BY ClosingSteps
<1>3. CASE Delete(k)
  <2>1. PICK c : /\ closers' = [closers EXCEPT ![k] = c] /\ c \in Closing
                 /\ c.mode = "archive" => c.pc = "flush"
    <3>1. PICK mode \in {"archive", "purge", "reset"} :
            Becomes(k, [NotClosing EXCEPT !.mode = mode, !.at = closes + 1,
                          !.pc = CASE mode = "archive" -> "flush"
                                   [] mode = "purge" -> "destroy"
                                   [] OTHER -> "wipe"])
      BY <1>3 DEF Delete
    <3>2. PICK at \in Nat : at = closes + 1
      BY <1>1
    <3> QED
      <4> DEFINE c(pc) == [NotClosing EXCEPT !.mode = mode, !.at = at, !.pc = pc]
      <4>1. CASE mode = "archive"
        <5>1. closers' = [closers EXCEPT ![k] = c("flush")]
          BY <3>1, <3>2, <4>1 DEF Becomes
        <5>2. c("flush") \in Closing
          BY Begins, ZenonT(60)
        <5>3. c("flush").pc = "flush"
          BY DEF NotClosing
        <5> HIDE DEF c
        <5> QED
          BY <5>1, <5>2, <5>3, ZenonT(60)
      <4>2. CASE mode = "purge"
        <5>1. closers' = [closers EXCEPT ![k] = c("destroy")]
          BY <3>1, <3>2, <4>2 DEF Becomes
        <5> QED
          BY <4>2, <5>1, Begins, ZenonT(60)
      <4>3. CASE mode = "reset"
        <5>1. closers' = [closers EXCEPT ![k] = c("wipe")]
          BY <3>1, <3>2, <4>3 DEF Becomes
        <5> QED
          BY <4>3, <5>1, Begins, ZenonT(60)
      <4> QED
        BY <4>1, <4>2, <4>3
  <2>2. closes' \in Nat /\ UNCHANGED <<rows, next, archives, faults, purged>>
    BY <1>1, <1>3 DEF Delete
  <2> QED
    BY <2>1, <2>2, Moves
<1>4. CASE Destroy(k)
  <2> DEFINE c == [closers[k] EXCEPT !.pc = "wipe"]
  <2>1. /\ closers[k].pc = "destroy" /\ closers' = [closers EXCEPT ![k] = c]
        /\ UNCHANGED <<rows, next, archives, faults, purged, closes>>
    BY <1>4 DEF Destroy, Becomes
  <2>2. /\ c \in Closing /\ c.pc = "wipe" /\ c.mode = closers[k].mode
        /\ c.upto = closers[k].upto
    BY <1>1 DEF Closing
  <2> QED
    BY <1>1, <2>1, <2>2, Moves
<1>5. CASE Unregister(k)
  <2>1. PICK c \in {NotClosing, [NotClosing EXCEPT !.pc = "done"]} :
          closers' = [closers EXCEPT ![k] = c]
    BY <1>5 DEF Unregister, Finishes, Becomes
  <2>2. c.mode # "archive"
    BY DEF NotClosing
  <2>3. UNCHANGED <<rows, next, archives, faults, purged, closes>>
    BY <1>5 DEF Unregister
  <2> QED
    BY <1>1, <1>2, <2>1, <2>2, <2>3, Moves
<1> QED
  BY <1>3, <1>4, <1>5

LEMMA KeepAlarm ==
  ASSUME KeepInv, Alarm
  PROVE  KeepInv'
<1> DEFINE c == [NotClosing EXCEPT !.mode = "archive", !.at = closes + 1, !.pc = "flush"]
<1>1. /\ closers' = [closers EXCEPT ![Reaper] = c] /\ closes' = closes + 1
      /\ UNCHANGED <<rows, next, archives, faults, purged>>
  BY DEF Alarm, Becomes
<1>2. closes \in Nat
  BY DEF KeepInv, TypeOK
<1>3. closes + 1 \in Nat
  BY <1>2
<1>4. c \in Closing /\ c.pc = "flush"
  BY <1>3, Begins, ZenonT(60)
<1> HIDE DEF c
<1>5. Reaper \in AllClosers
  BY DEF AllClosers
<1>6. closes' \in Nat
  BY <1>1, <1>2
<1> QED
  BY <1>1, <1>4, <1>5, <1>6, Moves, ZenonT(60)

\* A call that fails, and an eviction, leave closes behind or end them.
LEMMA KeepEnds ==
  ASSUME KeepInv, UNCHANGED <<rows, next, archives, closes, purged>>,
         faults' \in Nat, faults' >= faults,
         closers' \in [AllClosers -> Closing],
         \A k \in AllClosers : closers'[k] = closers[k] \/ closers'[k].mode # "archive"
  PROVE  KeepInv'
<1>1. TypeOK'
  BY DEF KeepInv, TypeOK
<1>2. Numbered'
  BY DEF KeepInv, Numbered
<1>3. ASSUME NEW k \in AllClosers PROVE Keeps(k)'
  <2>1. Keeps(k) /\ faults \in Nat
    BY DEF KeepInv, TypeOK
  <2>2. CASE closers'[k] = closers[k]
    BY <2>1, <2>2 DEF Keeps, Holds
  <2>3. CASE closers'[k].mode # "archive"
    BY <2>3 DEF Keeps
  <2> QED
    BY <2>2, <2>3
<1>4. OnlyLatecomersAreLost'
  BY DEF KeepInv, OnlyLatecomersAreLost, InAnArchive, TypeOK
<1> QED
  BY <1>1, <1>2, <1>3, <1>4 DEF KeepInv

LEMMA KeepFaults ==
  ASSUME KeepInv, Evict \/ \E k \in AllClosers : UnregisterFails(k)
  PROVE  KeepInv'
<1>1. closers \in [AllClosers -> Closing]
  BY DEF KeepInv, TypeOK
<1>2. /\ NotClosing \in Closing /\ [NotClosing EXCEPT !.pc = "done"] \in Closing
      /\ NotClosing.mode # "archive" /\ [NotClosing EXCEPT !.pc = "done"].mode # "archive"
  BY ClosingSteps
<1>3. CASE Evict
  <2>1. /\ closers' = [k \in AllClosers |->
             IF closers[k].pc = "idle" THEN closers[k]
             ELSE IF k = Reaper THEN NotClosing ELSE [NotClosing EXCEPT !.pc = "done"]]
        /\ UNCHANGED <<rows, next, archives, closes, purged>> /\ Fault("evict")
    BY <1>3 DEF Evict
  <2>2. /\ closers' \in [AllClosers -> Closing]
        /\ \A k \in AllClosers : closers'[k] = closers[k] \/ closers'[k].mode # "archive"
    BY <1>1, <1>2, <2>1
  <2> QED
    BY <2>1, <2>2, FaultCounts, KeepEnds
<1>4. ASSUME NEW k \in AllClosers, UnregisterFails(k) PROVE KeepInv'
  <2>1. PICK c \in {NotClosing, [NotClosing EXCEPT !.pc = "done"]} :
          closers' = [closers EXCEPT ![k] = c]
    BY <1>4 DEF UnregisterFails, Finishes, Becomes
  <2>2. UNCHANGED <<rows, next, archives, closes, purged>> /\ Fault("registry")
    BY <1>4 DEF UnregisterFails
  <2>3. /\ closers' \in [AllClosers -> Closing]
        /\ \A l \in AllClosers : closers'[l] = closers[l] \/ closers'[l].mode # "archive"
    BY <1>1, <1>2, <2>1
  <2> QED
    BY <2>2, <2>3, FaultCounts, KeepEnds
<1> QED
  BY <1>3, <1>4

LEMMA KeepWriters ==
  ASSUME KeepInv, NEW w \in Writers, WriterStep(w) \/ RegisterFails(w)
  PROVE  KeepInv'
<1>1. faults \in Nat
  BY DEF KeepInv, TypeOK
<1>2. CASE WriterStep(w)
  BY <1>1, <1>2, WritingSteps DEF WriterStep, Register, Touch, ClosingSide
<1>3. CASE RegisterFails(w)
  <2>1. Fault("registry") /\ UNCHANGED <<rows, next, closers, archives, closes, purged>>
    BY <1>3 DEF RegisterFails, ClosingSide
  <2> QED
    BY <2>1, FaultCounts, WritingSteps
<1> QED
  BY <1>2, <1>3

LEMMA KeepNext == KeepInv /\ [Next]_vars => KeepInv'
<1> SUFFICES ASSUME KeepInv, [Next]_vars PROVE KeepInv'
  OBVIOUS
<1>1. CASE UNCHANGED vars
  <2>1. faults \in Nat
    BY DEF KeepInv, TypeOK
  <2> QED
    BY <1>1, <2>1, WritingSteps DEF vars
<1>2. ASSUME NEW w \in Writers, Insert(w) \/ WriterStep(w) \/ RegisterFails(w) PROVE KeepInv'
  BY <1>2, KeepInsert, KeepWriters
<1>3. ASSUME NEW k \in AllClosers, Delete(k) \/ CloserStep(k) PROVE KeepInv'
  BY <1>3, KeepMoves, KeepCopy, KeepPut, KeepWipe DEF CloserStep
<1>4. CASE Alarm
  BY <1>4, KeepAlarm
<1>5. CASE Evict \/ \E k \in AllClosers : UnregisterFails(k)
  BY <1>5, KeepFaults
<1> QED
  BY <1>1, <1>2, <1>3, <1>4, <1>5 DEF Next

\* A close that archives, the reaper's included, loses no message journaled
\* before its session-closed row, whatever closes, messages, failed registry
\* calls and evictions come in between, for any number of each (Agent.ts
\* close, #wipeStorage).
THEOREM NoMessageIsLost == Spec => []OnlyLatecomersAreLost
<1>1. KeepInv => OnlyLatecomersAreLost
  BY DEF KeepInv
<1> QED
  BY <1>1, KeepInit, KeepNext, PTL DEF Spec
=============================================================================
