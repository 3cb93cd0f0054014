---------------------------- MODULE ConsoleProofs -----------------------------
(***************************************************************************)
(* What a browser tab shows is not older than what it has followed to its  *)
(* end or has been answered, for any number of sessions, turns, facts,     *)
(* acts of the user and faults.                                            *)
(***************************************************************************)
EXTENDS Console, TLAPS, SequenceTheorems

-----------------------------------------------------------------------------
(* The memory panel.                                                         *)

FactsAreDated ==
  /\ clock \in Nat
  /\ facts \in [Names -> [at: Nat, live: BOOLEAN]]
  /\ acked \in [Names -> [any: Nat, row: Nat]]
  /\ \A n \in Names :
       facts[n].at <= clock /\ acked[n].any <= facts[n].at /\ acked[n].row <= facts[n].at

PanelShape ==
  /\ DOMAIN panel = {"open", "rows", "busy"} /\ panel.rows \subseteq Names
  /\ DOMAIN lookups = {"list"} \cup Names
  /\ \A q \in DOMAIN lookups : DOMAIN lookups[q] = {"state", "value", "sent"}

\* A save from a row is one of the callers the answer is for.
CallersWait ==
  /\ DOMAIN calls = {"put", "delete"}
  /\ \A c \in {"put", "delete"} : calls[c].pc = "sent" =>
       /\ calls[c].name \in Names /\ calls[c].by \in {calls[c].name, "form"}
       /\ calls[c].by \in calls[c].callers
  /\ strays \subseteq {"put", "delete"} \X Names

ListIsFresh ==
  Settled(lookups["list"]) =>
    \A n \in Names : lookups["list"].value[n].at >= acked[n].any

RowsAreFresh ==
  \A n \in panel.rows : Settled(lookups[n]) => lookups[n].value >= acked[n].row

MemoryInv == FactsAreDated /\ PanelShape /\ CallersWait /\ ListIsFresh /\ RowsAreFresh

LEMMA NamesApart == "list" \notin Names /\ "form" \notin Names
  BY MemoryAssumption

LEMMA QueryShapes ==
  /\ DOMAIN Mounted = {"state", "value", "sent"} /\ ~Settled(Mounted)
  /\ DOMAIN Unmounted = {"state", "value", "sent"} /\ ~Settled(Unmounted)
  /\ DOMAIN Failed = {"state", "value", "sent"} /\ ~Settled(Failed)
  /\ \A v : DOMAIN Delivered(v) = {"state", "value", "sent"} /\ Delivered(v).value = v
  /\ \A q : DOMAIN q = {"state", "value", "sent"} =>
       DOMAIN Refreshed(q) = {"state", "value", "sent"} /\ ~Settled(Refreshed(q))
  BY DEF Mounted, Unmounted, Failed, Delivered, Refreshed, Settled

-----------------------------------------------------------------------------
(* The changes of the facts.                                                 *)

LEMMA AppliedDates ==
  ASSUME FactsAreDated, NEW c \in {"put", "delete"}, NEW n \in Names, Applied(c, n)
  PROVE  /\ clock' \in Nat /\ facts' \in [Names -> [at: Nat, live: BOOLEAN]]
         /\ \A m \in Names : facts[m].at <= facts'[m].at /\ facts'[m].at <= clock'
         /\ Accepts(c, n) => facts'[n].at = clock'
<1>1. CASE ~Accepts(c, n)
  BY <1>1 DEF Applied, FactsAreDated
<1>2. CASE Accepts(c, n)
  <2>1. clock' = clock + 1 /\ clock \in Nat
    BY <1>2 DEF Applied, Write, Remove, FactsAreDated
  <2>2. PICK live \in BOOLEAN : facts' = [facts EXCEPT ![n] = [at |-> clock + 1, live |-> live]]
    BY <1>2 DEF Applied, Write, Remove
  <2>3. facts' \in [Names -> [at: Nat, live: BOOLEAN]]
    BY <2>1, <2>2 DEF FactsAreDated
  <2>4. facts'[n].at = clock + 1 /\ \A m \in Names \ {n} : facts'[m] = facts[m]
    BY <2>2 DEF FactsAreDated
  <2>5. \A m \in Names : facts[m].at \in Nat /\ facts[m].at <= clock
    BY DEF FactsAreDated
  <2>6. \A m \in Names : facts[m].at <= facts'[m].at /\ facts'[m].at <= clock'
    BY <2>1, <2>4, <2>5
  <2> QED
    BY <2>1, <2>3, <2>4, <2>6
<1> QED
  BY <1>1, <1>2

\* A change that nobody in the panel is told of.
LEMMA ChangeKeeps ==
  ASSUME MemoryInv,
         clock' \in Nat, facts' \in [Names -> [at: Nat, live: BOOLEAN]],
         \A m \in Names : facts[m].at <= facts'[m].at /\ facts'[m].at <= clock',
         UNCHANGED <<lookups, acked>>, DOMAIN panel' = {"open", "rows", "busy"},
         panel'.rows \subseteq panel.rows, CallersWait'
  PROVE  MemoryInv'
<1>1. \A n \in Names : /\ facts[n].at \in Nat /\ facts'[n].at \in Nat
                       /\ acked[n].any \in Nat /\ acked[n].row \in Nat
  BY DEF MemoryInv, FactsAreDated
<1>2. FactsAreDated'
  BY <1>1 DEF MemoryInv, FactsAreDated
<1>3. PanelShape'
  BY DEF MemoryInv, PanelShape
<1>4. ListIsFresh' /\ RowsAreFresh'
  BY DEF MemoryInv, ListIsFresh, RowsAreFresh
<1> QED
  BY <1>2, <1>3, <1>4 DEF MemoryInv

LEMMA NothingKeeps == ASSUME MemoryInv, UNCHANGED memoryVars PROVE MemoryInv'
<1>1. UNCHANGED <<facts, clock, panel, lookups, calls, strays, acked>>
  BY DEF memoryVars
<1> QED
  BY <1>1 DEF MemoryInv, FactsAreDated, PanelShape, CallersWait, ListIsFresh, RowsAreFresh

LEMMA ToolChangesKeeps == ASSUME MemoryInv, ToolChanges PROVE MemoryInv'
<1>1. PICK c \in {"put", "delete"}, n \in Names : Applied(c, n)
  BY DEF ToolChanges
<1>2. UNCHANGED <<panel, lookups, calls, strays, acked>>
  BY DEF ToolChanges
<1>3. /\ DOMAIN panel' = {"open", "rows", "busy"} /\ panel'.rows \subseteq panel.rows /\ CallersWait'
  BY <1>2 DEF MemoryInv, PanelShape, CallersWait
<1> QED
  BY <1>1, <1>2, <1>3, AppliedDates, ChangeKeeps DEF MemoryInv

LEMMA StrayLandsKeeps == ASSUME MemoryInv, StrayLands PROVE MemoryInv'
<1>1. PICK s \in strays : Applied(s[1], s[2]) /\ strays' = strays \ {s}
  BY DEF StrayLands
<1>2. UNCHANGED <<panel, lookups, calls, acked>>
  BY DEF StrayLands
<1>3. s[1] \in {"put", "delete"} /\ s[2] \in Names
  BY DEF MemoryInv, CallersWait
<1>4. /\ DOMAIN panel' = {"open", "rows", "busy"} /\ panel'.rows \subseteq panel.rows /\ CallersWait'
  BY <1>1, <1>2 DEF MemoryInv, PanelShape, CallersWait
<1> QED
  BY <1>1, <1>2, <1>3, <1>4, AppliedDates, ChangeKeeps DEF MemoryInv

\* The call is over: nobody waits for it any more.
LEMMA CallOver ==
  ASSUME MemoryInv, NEW c \in {"put", "delete"}, calls' = [calls EXCEPT ![c] = NoCall],
         strays' = strays
  PROVE  CallersWait'
<1>1. calls'[c].pc = "idle"
  BY DEF MemoryInv, CallersWait, NoCall
<1>2. \A d \in {"put", "delete"} \ {c} : calls'[d] = calls[d]
  BY DEF MemoryInv, CallersWait
<1> QED
  BY <1>1, <1>2 DEF MemoryInv, CallersWait

LEMMA CallFailsKeeps ==
  ASSUME MemoryInv, NEW c \in {"put", "delete"}, CallFails(c) PROVE MemoryInv'
<1>1. calls[c].name \in Names
  BY DEF CallFails, MemoryInv, CallersWait
<1>2. /\ clock' \in Nat /\ facts' \in [Names -> [at: Nat, live: BOOLEAN]]
      /\ \A m \in Names : facts[m].at <= facts'[m].at /\ facts'[m].at <= clock'
  <2>1. CASE Applied(c, calls[c].name)
    BY <1>1, <2>1, AppliedDates DEF MemoryInv
  <2>2. CASE UNCHANGED <<facts, clock>>
    BY <2>2 DEF MemoryInv, FactsAreDated
  <2> QED
    BY <2>1, <2>2 DEF CallFails
<1>3. CallersWait'
  BY CallOver DEF CallFails
<1>4. DOMAIN panel' = {"open", "rows", "busy"} /\ panel'.rows = panel.rows
  BY DEF CallFails, MemoryInv, PanelShape
<1>5. UNCHANGED <<lookups, acked>>
  BY DEF CallFails
<1> QED
  BY <1>2, <1>3, <1>4, <1>5, ChangeKeeps

\* The answer to a call: the list and the row it was saved from are fetched
\* again, so that what they show does not count.
LEMMA CallAnsweredKeeps ==
  ASSUME MemoryInv, NEW c \in {"put", "delete"}, CallAnswered(c) PROVE MemoryInv'
<1> DEFINE n == calls[c].name
           callers == calls[c].callers
<1>1. n \in Names /\ calls[c].by \in {n, "form"} /\ calls[c].by \in callers
  BY DEF CallAnswered, MemoryInv, CallersWait
<1>2. /\ clock' \in Nat /\ facts' \in [Names -> [at: Nat, live: BOOLEAN]]
      /\ \A m \in Names : facts[m].at <= facts'[m].at /\ facts'[m].at <= clock'
      /\ Accepts(c, n) => facts'[n].at = clock'
  BY <1>1, AppliedDates DEF CallAnswered, MemoryInv
<1>3. CallersWait'
  BY CallOver DEF CallAnswered
<1>4. DOMAIN panel' = {"open", "rows", "busy"} /\ panel'.rows = panel.rows
  BY DEF CallAnswered, MemoryInv, PanelShape
<1>5. CASE ~Accepts(c, n)
  BY <1>2, <1>3, <1>4, <1>5, ChangeKeeps DEF CallAnswered
<1>6. CASE Accepts(c, n)
  <2> DEFINE row == IF c = "put" /\ calls[c].by # "form" THEN clock' ELSE acked[n].row
  <2>1. lookups' = OnChanged(c, callers)
    BY <1>6 DEF CallAnswered
  <2>2. acked' = [acked EXCEPT ![n] = [any |-> clock', row |-> row]]
    BY <1>6 DEF CallAnswered
  <2>3. row \in Nat /\ row <= facts'[n].at /\ acked[n].any \in Nat /\ acked[n].row \in Nat
    BY <1>1, <1>2, <1>6 DEF MemoryInv, FactsAreDated
  <2>4. /\ acked' \in [Names -> [any: Nat, row: Nat]]
        /\ acked'[n].any = clock' /\ acked'[n].row = row
        /\ \A m \in Names \ {n} : acked'[m] = acked[m]
    BY <1>1, <1>2, <2>2, <2>3 DEF MemoryInv, FactsAreDated
  <2> HIDE DEF row
  <2>5. FactsAreDated'
    <3>1. \A m \in Names : /\ facts[m].at \in Nat /\ facts'[m].at \in Nat
                           /\ acked[m].any \in Nat /\ acked[m].any <= facts[m].at
                           /\ acked[m].row \in Nat /\ acked[m].row <= facts[m].at
      BY <1>2 DEF MemoryInv, FactsAreDated
    <3> QED
      BY <1>2, <1>6, <2>3, <2>4, <3>1 DEF FactsAreDated
  <2>6. /\ DOMAIN lookups' = {"list"} \cup Names
        /\ \A q \in DOMAIN lookups' :
             /\ lookups'[q] \in {lookups[q], Refreshed(lookups[q])}
             /\ q = "list" \/ (c = "put" /\ q \in callers) =>
                  lookups[q].state = "none" \/ lookups'[q] = Refreshed(lookups[q])
    <3>1. lookups' = [q \in DOMAIN lookups |->
                        IF lookups[q].state # "none" /\ (q = "list" \/ (c = "put" /\ q \in callers))
                          THEN Refreshed(lookups[q]) ELSE lookups[q]]
      BY <2>1 DEF OnChanged
    <3>2. DOMAIN lookups = {"list"} \cup Names
      BY DEF MemoryInv, PanelShape
    <3> HIDE DEF callers
    <3> QED
      BY <3>1, <3>2
  <2>7. PanelShape'
    <3>1. \A q \in DOMAIN lookups : DOMAIN Refreshed(lookups[q]) = {"state", "value", "sent"}
      BY QueryShapes DEF MemoryInv, PanelShape
    <3>2. \A q \in DOMAIN lookups' : DOMAIN lookups'[q] = {"state", "value", "sent"}
      BY <2>6, <3>1 DEF MemoryInv, PanelShape
    <3> QED
      BY <1>4, <2>6, <3>2 DEF MemoryInv, PanelShape
  <2>8. \A q \in DOMAIN lookups' :
          /\ Settled(lookups'[q]) => lookups'[q] = lookups[q]
          /\ q = "list" \/ (c = "put" /\ q \in callers) => ~Settled(lookups'[q])
    <3>1. \A q \in DOMAIN lookups' : ~Settled(Refreshed(lookups[q]))
      BY <2>6, QueryShapes DEF MemoryInv, PanelShape
    <3>2. \A q : lookups[q].state = "none" => ~Settled(lookups[q])
      BY DEF Settled
    <3> QED
      BY <2>6, <3>1, <3>2
  <2>9. ListIsFresh'
    BY <2>6, <2>8 DEF ListIsFresh
  <2>10. RowsAreFresh'
    <3> SUFFICES ASSUME NEW m \in panel'.rows, Settled(lookups'[m])
                 PROVE  lookups'[m].value >= acked'[m].row
      BY DEF RowsAreFresh
    <3>1. m \in Names /\ m \in panel.rows
      BY <1>4 DEF MemoryInv, PanelShape
    <3>2. lookups'[m] = lookups[m] /\ ~(c = "put" /\ m \in callers)
      BY <2>6, <2>8, <3>1
    <3>3. acked'[m].row = acked[m].row
      BY <1>1, <2>4, <3>1, <3>2 DEF row
    <3> QED
      BY <3>1, <3>2, <3>3 DEF MemoryInv, RowsAreFresh
  <2> QED
    BY <1>3, <2>5, <2>7, <2>9, <2>10 DEF MemoryInv
<1> QED
  BY <1>5, <1>6

-----------------------------------------------------------------------------
(* The lookups and the panel.                                                *)

\* A step that changes what is on screen, and no fact.
LEMMA ScreenKeeps ==
  ASSUME MemoryInv, UNCHANGED <<facts, clock, acked>>, CallersWait', PanelShape',
         \A q \in DOMAIN lookups' :
           \/ lookups'[q] = lookups[q] /\ (q \in panel'.rows => q \in panel.rows)
           \/ ~Settled(lookups'[q])
           \/ q = "list" /\ lookups'[q] = Delivered(facts)
           \/ q \in Names /\ lookups'[q] = Delivered(facts[q].at)
  PROVE  MemoryInv'
<1>1. FactsAreDated'
  BY DEF MemoryInv, FactsAreDated
<1>2. ListIsFresh'
  <2>1. CASE lookups'["list"] = lookups["list"]
    BY <2>1 DEF MemoryInv, ListIsFresh
  <2>2. CASE ~Settled(lookups'["list"])
    BY <2>2 DEF ListIsFresh
  <2>3. CASE lookups'["list"] = Delivered(facts)
    <3>1. lookups'["list"].value = facts
      BY <2>3, QueryShapes
    <3> QED
      BY <3>1 DEF MemoryInv, FactsAreDated, ListIsFresh
  <2> QED
    BY <2>1, <2>2, <2>3, NamesApart DEF PanelShape
<1>3. RowsAreFresh'
  <2> SUFFICES ASSUME NEW n \in panel'.rows, Settled(lookups'[n])
               PROVE  lookups'[n].value >= acked'[n].row
    BY DEF RowsAreFresh
  <2>1. n \in Names /\ n # "list" /\ n \in DOMAIN lookups'
    BY NamesApart DEF PanelShape
  <2>2. CASE lookups'[n] = lookups[n] /\ n \in panel.rows
    BY <2>2 DEF MemoryInv, RowsAreFresh
  <2>3. CASE lookups'[n] = Delivered(facts[n].at)
    <3>1. lookups'[n].value = facts[n].at
      BY <2>3, QueryShapes
    <3> QED
      BY <2>1, <3>1 DEF MemoryInv, FactsAreDated
  <2> QED
    BY <2>1, <2>2, <2>3
<1> QED
  BY <1>1, <1>2, <1>3 DEF MemoryInv

LEMMA OpenKeeps == ASSUME MemoryInv, OpenPanel PROVE MemoryInv'
<1>1. CallersWait' /\ UNCHANGED <<facts, clock, acked>>
  BY DEF OpenPanel, MemoryInv, CallersWait
<1>2. lookups' = [lookups EXCEPT !["list"] = Mounted] /\ panel' = [panel EXCEPT !.open = TRUE]
  BY DEF OpenPanel
<1>3. PanelShape' /\ panel'.rows = panel.rows
  BY <1>2, QueryShapes DEF MemoryInv, PanelShape
<1>4. ~Settled(Mounted)
  BY QueryShapes
<1>5. \A q \in DOMAIN lookups' : lookups'[q] = lookups[q] \/ ~Settled(lookups'[q])
  BY <1>2, <1>4 DEF MemoryInv, PanelShape
<1> QED
  BY <1>1, <1>3, <1>5, ScreenKeeps

LEMMA CloseKeeps == ASSUME MemoryInv, ClosePanel PROVE MemoryInv'
<1>1. CallersWait' /\ UNCHANGED <<facts, clock, acked>>
  BY DEF ClosePanel, MemoryInv, CallersWait
<1>2. /\ lookups' = [q \in DOMAIN lookups |-> Unmounted]
      /\ panel' = [open |-> FALSE, rows |-> {}, busy |-> [put |-> {}, delete |-> {}]]
  BY DEF ClosePanel
<1>3. PanelShape'
  BY <1>2, QueryShapes DEF MemoryInv, PanelShape
<1>4. \A q \in DOMAIN lookups' : ~Settled(lookups'[q])
  BY <1>2, QueryShapes
<1> QED
  BY <1>1, <1>3, <1>4, ScreenKeeps

LEMMA ExpandKeeps == ASSUME MemoryInv, NEW n \in Names, Expand(n) PROVE MemoryInv'
<1>1. CallersWait' /\ UNCHANGED <<facts, clock, acked>>
  BY DEF Expand, MemoryInv, CallersWait
<1>2. lookups' = [lookups EXCEPT ![n] = Mounted] /\ panel' = [panel EXCEPT !.rows = @ \cup {n}]
  BY DEF Expand
<1>3. PanelShape' /\ panel'.rows = panel.rows \cup {n}
  BY <1>2, QueryShapes DEF MemoryInv, PanelShape
<1>4. ~Settled(Mounted)
  BY QueryShapes
<1>5. \A q \in DOMAIN lookups' :
        \/ lookups'[q] = lookups[q] /\ (q \in panel'.rows => q \in panel.rows)
        \/ ~Settled(lookups'[q])
  BY <1>2, <1>3, <1>4 DEF MemoryInv, PanelShape
<1> QED
  BY <1>1, <1>3, <1>5, ScreenKeeps

LEMMA CollapseKeeps == ASSUME MemoryInv, NEW n \in Names, Collapse(n) PROVE MemoryInv'
<1>1. CallersWait' /\ UNCHANGED <<facts, clock, acked>>
  BY DEF Collapse, MemoryInv, CallersWait
<1>2. /\ lookups' = [lookups EXCEPT ![n] = Unmounted]
      /\ panel' = [panel EXCEPT !.rows = @ \ {n}, !.busy.put = @ \ {n}]
  BY DEF Collapse
<1>3. PanelShape' /\ panel'.rows = panel.rows \ {n}
  BY <1>2, QueryShapes DEF MemoryInv, PanelShape
<1>4. ~Settled(Unmounted)
  BY QueryShapes
<1>5. \A q \in DOMAIN lookups' :
        \/ lookups'[q] = lookups[q] /\ (q \in panel'.rows => q \in panel.rows)
        \/ ~Settled(lookups'[q])
  BY <1>2, <1>3, <1>4 DEF MemoryInv, PanelShape
<1> QED
  BY <1>1, <1>3, <1>5, ScreenKeeps

LEMMA RetryLookupKeeps ==
  ASSUME MemoryInv, NEW q \in DOMAIN lookups, RetryLookup(q) PROVE MemoryInv'
<1>1. CallersWait' /\ UNCHANGED <<facts, clock, acked>>
  BY DEF RetryLookup, MemoryInv, CallersWait
<1>2. lookups' = [lookups EXCEPT ![q] = Refreshed(lookups[q])] /\ panel' = panel
  BY DEF RetryLookup
<1>3. DOMAIN Refreshed(lookups[q]) = {"state", "value", "sent"} /\ ~Settled(Refreshed(lookups[q]))
  BY QueryShapes DEF MemoryInv, PanelShape
<1>4. PanelShape'
  BY <1>2, <1>3 DEF MemoryInv, PanelShape
<1>5. \A r \in DOMAIN lookups' :
        \/ lookups'[r] = lookups[r] /\ (r \in panel'.rows => r \in panel.rows)
        \/ ~Settled(lookups'[r])
  BY <1>2, <1>3
<1> QED
  BY <1>1, <1>4, <1>5, ScreenKeeps

LEMMA ListDeliveredKeeps == ASSUME MemoryInv, ListDelivered PROVE MemoryInv'
<1> DEFINE rows == panel.rows \cap Listed
           busy == [put |-> panel.busy.put \cap (rows \cup {"form"}),
                    delete |-> panel.busy.delete \cap Listed]
<1>1. CallersWait' /\ UNCHANGED <<facts, clock, acked>>
  BY DEF ListDelivered, MemoryInv, CallersWait
<1>2. panel' = [panel EXCEPT !.rows = rows, !.busy = busy]
  BY DEF ListDelivered
<1>3. lookups' = [q \in DOMAIN lookups |->
                    IF q = "list" THEN Delivered(facts)
                    ELSE IF q \in rows THEN lookups[q] ELSE Unmounted]
  BY DEF ListDelivered
<1> HIDE DEF busy
<1>4. panel'.rows = rows /\ DOMAIN panel' = {"open", "rows", "busy"}
  BY <1>2 DEF MemoryInv, PanelShape
<1> HIDE DEF rows
<1>5. PanelShape'
  BY <1>3, <1>4, QueryShapes DEF MemoryInv, PanelShape, rows
<1>6. \A q \in DOMAIN lookups' :
        \/ lookups'[q] = lookups[q] /\ (q \in panel'.rows => q \in panel.rows)
        \/ ~Settled(lookups'[q])
        \/ q = "list" /\ lookups'[q] = Delivered(facts)
  BY <1>3, <1>4, QueryShapes DEF rows
<1> QED
  BY <1>1, <1>5, <1>6, ScreenKeeps

LEMMA EntryDeliveredKeeps == ASSUME MemoryInv, NEW n \in Names, EntryDelivered(n) PROVE MemoryInv'
<1> DEFINE entry == IF n \in Listed THEN Delivered(facts[n].at) ELSE Failed
<1>1. CallersWait' /\ UNCHANGED <<facts, clock, acked>>
  BY DEF EntryDelivered, MemoryInv, CallersWait
<1>2. lookups' = [lookups EXCEPT ![n] = entry]
  BY DEF EntryDelivered
<1>3. DOMAIN panel' = {"open", "rows", "busy"} /\ panel'.rows = panel.rows
  BY DEF EntryDelivered, MemoryInv, PanelShape
<1>4. /\ DOMAIN entry = {"state", "value", "sent"}
      /\ ~Settled(entry) \/ entry = Delivered(facts[n].at)
  BY QueryShapes
<1> HIDE DEF entry
<1>5. PanelShape'
  BY <1>2, <1>3, <1>4 DEF MemoryInv, PanelShape
<1>6. \A q \in DOMAIN lookups' :
        \/ lookups'[q] = lookups[q] /\ (q \in panel'.rows => q \in panel.rows)
        \/ ~Settled(lookups'[q])
        \/ q \in Names /\ lookups'[q] = Delivered(facts[q].at)
  BY <1>2, <1>3, <1>4
<1> QED
  BY <1>1, <1>5, <1>6, ScreenKeeps

LEMMA LookupFailsKeeps ==
  ASSUME MemoryInv, NEW q \in DOMAIN lookups, LookupFails(q) PROVE MemoryInv'
<1>1. CallersWait' /\ UNCHANGED <<facts, clock, acked>>
  BY DEF LookupFails, MemoryInv, CallersWait
<1>2. /\ DOMAIN panel' = {"open", "rows", "busy"} /\ panel'.rows \subseteq panel.rows
  BY DEF LookupFails, MemoryInv, PanelShape
<1>3. CASE q = "list"
  <2>1. lookups' = [r \in DOMAIN lookups |-> IF r = q THEN Failed ELSE Unmounted]
    BY <1>3 DEF LookupFails
  <2>2. PanelShape'
    BY <1>2, <2>1, QueryShapes DEF MemoryInv, PanelShape
  <2>3. \A r \in DOMAIN lookups' : ~Settled(lookups'[r])
    BY <2>1, QueryShapes
  <2> QED
    BY <1>1, <2>2, <2>3, ScreenKeeps
<1>4. CASE q # "list"
  <2>1. lookups' = [lookups EXCEPT ![q] = Failed]
    BY <1>4 DEF LookupFails
  <2>2. PanelShape'
    BY <1>2, <2>1, QueryShapes DEF MemoryInv, PanelShape
  <2>3. ~Settled(Failed)
    BY QueryShapes
  <2>4. \A r \in DOMAIN lookups' :
          \/ lookups'[r] = lookups[r] /\ (r \in panel'.rows => r \in panel.rows)
          \/ ~Settled(lookups'[r])
    BY <1>2, <2>1, <2>3
  <2> QED
    BY <1>1, <2>2, <2>4, ScreenKeeps
<1> QED
  BY <1>3, <1>4

\* The user calls: the call under way, if any, is left to itself.
LEMMA CallKeeps ==
  ASSUME MemoryInv, NEW c \in {"put", "delete"}, NEW n \in Names, NEW by \in {n, "form"}, Call(c, n, by)
  PROVE  MemoryInv'
<1> DEFINE callers == calls[c].callers \cup {by}
           call == [pc |-> "sent", name |-> n, by |-> by, callers |-> callers]
<1>1. calls' = [calls EXCEPT ![c] = call] /\ UNCHANGED <<facts, clock, lookups, acked>>
  BY DEF Call
<1>2. strays' \subseteq {"put", "delete"} \X Names
  BY DEF Call, MemoryInv, CallersWait
<1>3. call.name = n /\ call.by = by /\ by \in call.callers
  OBVIOUS
<1> HIDE DEF call
<1>4. calls'[c] = call /\ DOMAIN calls' = {"put", "delete"}
      /\ \A d \in {"put", "delete"} \ {c} : calls'[d] = calls[d]
  BY <1>1 DEF MemoryInv, CallersWait
<1>5. CallersWait'
  BY <1>2, <1>3, <1>4 DEF MemoryInv, CallersWait
<1>6. DOMAIN panel' = {"open", "rows", "busy"} /\ panel'.rows = panel.rows
  BY DEF Call, MemoryInv, PanelShape
<1>7. PanelShape'
  BY <1>1, <1>6 DEF MemoryInv, PanelShape
<1> QED
  BY <1>1, <1>5, <1>6, <1>7, ScreenKeeps

LEMMA MemoryStep ==
  ASSUME MemoryInv, PanelUser \/ PanelFaults \/ PanelSteps \/ ToolChanges PROVE MemoryInv'
<1>1. CASE PanelUser
  <2>1. ASSUME NEW n \in Names, Save(n) \/ Add(n) \/ Delete(n) PROVE MemoryInv'
    BY <2>1, CallKeeps DEF Save, Add, Delete
  <2> QED
    BY <1>1, <2>1, OpenKeeps, CloseKeeps, ExpandKeeps, CollapseKeeps, RetryLookupKeeps DEF PanelUser
<1>2. CASE PanelFaults
  BY <1>2, LookupFailsKeeps, CallFailsKeeps DEF PanelFaults, MemoryInv, CallersWait
<1>3. CASE PanelSteps
  BY <1>3, ListDeliveredKeeps, StrayLandsKeeps, EntryDeliveredKeeps, CallAnsweredKeeps
  DEF PanelSteps, MemoryInv, CallersWait
<1> QED
  BY <1>1, <1>2, <1>3, ToolChangesKeeps

LEMMA MemoryStarts == ASSUME MemoryInit PROVE MemoryInv
<1>1. PICK there \in SUBSET Names : facts = [n \in Names |-> [at |-> 0, live |-> n \in there]]
  BY DEF MemoryInit
<1>2. acked = [n \in Names |-> [any |-> 0, row |-> 0]] /\ clock = 0 /\ strays = {}
  BY DEF MemoryInit
<1>3. FactsAreDated
  BY <1>1, <1>2 DEF FactsAreDated
<1>4. /\ panel = [open |-> FALSE, rows |-> {}, busy |-> [put |-> {}, delete |-> {}]]
      /\ lookups = [q \in {"list"} \cup Names |-> Unmounted]
      /\ calls = [c \in {"put", "delete"} |-> NoCall]
  BY DEF MemoryInit
<1>5. PanelShape
  BY <1>4, QueryShapes DEF PanelShape
<1>6. CallersWait
  BY <1>2, <1>4 DEF CallersWait, NoCall
<1>7. ListIsFresh /\ RowsAreFresh
  BY <1>4, QueryShapes DEF ListIsFresh, RowsAreFresh
<1> QED
  BY <1>3, <1>5, <1>6, <1>7 DEF MemoryInv

-----------------------------------------------------------------------------
(* The turns: a journal is only appended to.                                 *)

Entries == {"text", "ask", "go", "done"}

\* What of a session's turns stays as they go on: the entries; all of a turn
\* that has ended; and a park is new only to a turn that had not asked.
Grown(old, new) ==
  /\ DOMAIN old \subseteq DOMAIN new
  /\ \A k \in DOMAIN old :
       /\ DOMAIN old[k] \subseteq DOMAIN new[k]
       /\ \A i \in DOMAIN old[k] : new[k][i] = old[k][i]
       /\ Ended(old[k]) => new[k] = old[k]
       /\ Has(old[k], "ask") /\ Parked(new[k]) => Parked(old[k])

EndIsLast(list) == \A k \in DOMAIN list : ~(Ended(list[k]) /\ Parked(list[k]))

TurnsAreSound ==
  /\ turns \in [Sessions -> Seq(Seq(Entries))]
  /\ \A s \in Sessions : EndIsLast(turns[s])

Evolves == TurnsAreSound' /\ \A s \in Sessions : Grown(turns[s], turns'[s])

LEMMA StayAsTheyAre == ASSUME TurnsAreSound, turns' = turns PROVE Evolves
  BY DEF Evolves, TurnsAreSound, Grown, EndIsLast

LEMMA GrownHas ==
  ASSUME NEW a, NEW b, Grown(a, b), NEW k \in DOMAIN a, NEW e, Has(a[k], e) PROVE Has(b[k], e)
  BY DEF Grown, Has

LEMMA AppendHas ==
  ASSUME NEW t \in Seq(Entries), NEW e \in Entries
  PROVE  /\ Append(t, e) \in Seq(Entries) /\ DOMAIN t \subseteq DOMAIN Append(t, e)
         /\ Len(Append(t, e)) \in DOMAIN Append(t, e) /\ Len(Append(t, e)) \in Nat \ {0}
         /\ \A i \in DOMAIN t : Append(t, e)[i] = t[i]
         /\ \A x : Has(Append(t, e), x) <=> Has(t, x) \/ x = e
<1> DEFINE u == Append(t, e)
<1>1. /\ u \in Seq(Entries) /\ Len(u) = Len(t) + 1 /\ \A i \in 1 .. Len(t) : u[i] = t[i]
      /\ u[Len(t) + 1] = e
  BY AppendProperties
<1>2. DOMAIN u = 1 .. Len(t) + 1 /\ DOMAIN t = 1 .. Len(t) /\ Len(t) \in Nat
  BY <1>1, LenProperties
<1> HIDE DEF u
<1>3. ASSUME NEW x PROVE Has(u, x) <=> Has(t, x) \/ x = e
  <2>1. ASSUME Has(u, x), x # e PROVE Has(t, x)
    <3>1. PICK i \in 1 .. Len(t) + 1 : u[i] = x
      BY <1>2, <2>1 DEF Has
    <3>2. i \in 1 .. Len(t)
      BY <1>1, <1>2, <2>1, <3>1
    <3> QED
      BY <1>1, <1>2, <3>1, <3>2 DEF Has
  <2>2. ASSUME Has(t, x) PROVE Has(u, x)
    BY <1>1, <1>2, <2>2 DEF Has
  <2>3. ASSUME x = e PROVE Has(u, x)
    BY <1>1, <1>2, <2>3 DEF Has
  <2> QED
    BY <2>1, <2>2, <2>3
<1> QED
  BY <1>1, <1>2, <1>3 DEF u

\* A turn is opened.
LEMMA OpenEvolves ==
  ASSUME TurnsAreSound, NEW s \in Sessions, turns' = [turns EXCEPT ![s] = Append(@, <<>>)]
  PROVE  Evolves /\ Len(turns'[s]) \in DOMAIN turns'[s]
<1> DEFINE a == turns[s]
           b == Append(a, <<>>)
<1>1. a \in Seq(Seq(Entries)) /\ <<>> \in Seq(Entries) /\ EndIsLast(a)
  BY EmptySeq DEF TurnsAreSound
<1> HIDE DEF a
<1>2. /\ b \in Seq(Seq(Entries)) /\ Len(b) = Len(a) + 1 /\ \A i \in 1 .. Len(a) : b[i] = a[i]
      /\ b[Len(a) + 1] = <<>>
  BY <1>1, AppendProperties
<1>3. DOMAIN b = 1 .. Len(a) + 1 /\ DOMAIN a = 1 .. Len(a) /\ Len(a) \in Nat
  BY <1>1, <1>2, LenProperties
<1> HIDE DEF b
<1>4. Grown(a, b)
  BY <1>2, <1>3 DEF Grown
<1>5. EndIsLast(b)
  <2>1. ~Has(<<>>, "done")
    BY DEF Has
  <2>2. \A k \in DOMAIN b : (k \in DOMAIN a /\ b[k] = a[k]) \/ b[k] = <<>>
    BY <1>2, <1>3
  <2> QED
    BY <1>1, <2>1, <2>2 DEF EndIsLast, Ended
<1>6. turns' = [turns EXCEPT ![s] = b] /\ turns[s] = a
  BY DEF a, b
<1>7. turns'[s] = b /\ \A r \in Sessions \ {s} : turns'[r] = turns[r]
  BY <1>6 DEF TurnsAreSound
<1>8. turns' \in [Sessions -> Seq(Seq(Entries))]
  BY <1>2, <1>6 DEF TurnsAreSound
<1>9. \A r \in Sessions : EndIsLast(turns'[r])
  BY <1>5, <1>7 DEF TurnsAreSound
<1>10. \A r \in Sessions : Grown(turns[r], turns'[r])
  <2>1. \A r : Grown(turns[r], turns[r])
    BY DEF Grown
  <2> QED
    BY <1>4, <1>6, <1>7, <2>1
<1>11. Len(b) \in DOMAIN b
  BY <1>2, <1>3
<1> QED
  BY <1>7, <1>8, <1>9, <1>10, <1>11 DEF Evolves, TurnsAreSound

\* A turn goes on, or its approval is resolved.
LEMMA EntryEvolves ==
  ASSUME TurnsAreSound, NEW s \in Sessions, NEW k \in DOMAIN turns[s], NEW entry \in Entries,
         ~Ended(turns[s][k]), entry # "go" => ~Parked(turns[s][k]),
         entry = "ask" => ~Has(turns[s][k], "ask"),
         turns' = [turns EXCEPT ![s][k] = Append(@, entry)]
  PROVE  /\ Evolves
         /\ Len(turns'[s][k]) \in DOMAIN turns'[s][k] /\ k \in DOMAIN turns'[s]
         /\ Len(turns'[s][k]) \in Nat \ {0}
<1> DEFINE a == turns[s]
           t == a[k]
           u == Append(t, entry)
           b == [a EXCEPT ![k] = u]
<1>1. a \in Seq(Seq(Entries)) /\ EndIsLast(a) /\ k \in DOMAIN a
  BY DEF TurnsAreSound
<1>2. turns' = [turns EXCEPT ![s] = b]
  BY DEF TurnsAreSound
<1>3. ~Ended(t) /\ (entry # "go" => ~Parked(t)) /\ (entry = "ask" => ~Has(t, "ask"))
  OBVIOUS
<1> HIDE DEF a
<1>4. k \in 1 .. Len(a) /\ t \in Seq(Entries) /\ DOMAIN a = 1 .. Len(a)
  BY <1>1, LenProperties, ElementOfSeq
<1>5. /\ u \in Seq(Entries) /\ DOMAIN t \subseteq DOMAIN u
      /\ Len(u) \in DOMAIN u /\ Len(u) \in Nat \ {0}
      /\ \A i \in DOMAIN t : u[i] = t[i]
      /\ \A x : Has(u, x) <=> Has(t, x) \/ x = entry
  BY <1>4, AppendHas
<1> HIDE DEF t, u
<1>6. /\ Has(t, "ask") /\ Parked(u) => Parked(t)
      /\ ~(Ended(u) /\ Parked(u))
  BY <1>3, <1>5 DEF Ended, Parked
<1>7. b \in Seq(Seq(Entries)) /\ DOMAIN b = DOMAIN a /\ b[k] = u /\ \A i \in DOMAIN a \ {k} : b[i] = a[i]
  BY <1>1, <1>4, <1>5, ExceptSeq
<1> HIDE DEF b
<1>8. Grown(a, b)
  BY <1>3, <1>5, <1>6, <1>7 DEF Grown, t
<1>9. EndIsLast(b)
  BY <1>1, <1>6, <1>7 DEF EndIsLast
<1>10. turns'[s] = b /\ \A r \in Sessions \ {s} : turns'[r] = turns[r]
  BY <1>2 DEF TurnsAreSound
<1>11. turns' \in [Sessions -> Seq(Seq(Entries))]
  BY <1>2, <1>7 DEF TurnsAreSound
<1>12. \A r \in Sessions : EndIsLast(turns'[r])
  BY <1>9, <1>10 DEF TurnsAreSound
<1>13. \A r \in Sessions : Grown(turns[r], turns'[r])
  <2>1. \A r : Grown(turns[r], turns[r])
    BY DEF Grown
  <2> QED
    BY <1>8, <1>10, <2>1 DEF a
<1> QED
  BY <1>1, <1>5, <1>7, <1>10, <1>11, <1>12, <1>13 DEF Evolves, TurnsAreSound

-----------------------------------------------------------------------------
(* The streams and the queries.                                              *)

Atoms == {"post", "approve"} \cup Sessions

StreamFields == {"pc", "in", "turn", "frames", "left", "moved"}

\* A stream q reads a turn that is there, no further than it goes; that of a
\* resume is of its own session.
Reads(x, q, list) ==
  /\ DOMAIN q = StreamFields /\ q.frames \in Nat
  /\ q.frames # 0 => /\ q.in \in Sessions /\ q.turn \in DOMAIN list[q.in]
                     /\ q.frames \in DOMAIN list[q.in][q.turn]
  /\ q.pc # "idle" => q.in \in Sessions
  /\ q.pc = "opening" => q.frames = 0
  /\ q.pc = "open" \/ (x = "approve" /\ q.pc # "idle") => q.turn \in DOMAIN list[q.in]
  /\ x \in Sessions => q.in \in {"none", x} /\ (q.in = "none" => q.turn = 0)

StreamsAreSound ==
  DOMAIN streams = Atoms /\ \A x \in Atoms : Reads(x, streams[x], turns)

\* What a frame has brought is in the journal.
SeenIsJournaled ==
  \A e \in seen : e[1] \in Sessions /\ e[2] \in DOMAIN turns[e[1]] /\ Has(turns[e[1]][e[2]], e[3])

QueriesAreSound ==
  /\ DOMAIN queries = {"history", "journal"}
  /\ \A q \in {"history", "journal"} :
       /\ DOMAIN queries[q] = {"state", "value", "sent"}
       /\ queries[q].state = "success" =>
            queries[q].value \in Seq(Seq(Entries)) /\ DOMAIN queries[q].value \subseteq DOMAIN turns[session]

\* A history that is not being fetched has each turn that was followed to its
\* end, and the journal each turn that was followed to a park that lasts.
HistoryIsNew ==
  Settled(queries["history"]) =>
    \A k : <<session, k, "done">> \in seen =>
      k \in DOMAIN queries["history"].value /\ queries["history"].value[k] = turns[session][k]

JournalIsNew ==
  Settled(queries["journal"]) =>
    \A k : <<session, k, "ask">> \in seen /\ Parked(turns[session][k]) =>
      k \in DOMAIN queries["journal"].value /\ Parked(queries["journal"].value[k])

Fetched == SeenIsJournaled /\ QueriesAreSound /\ HistoryIsNew /\ JournalIsNew

ChatInv ==
  /\ session \in Sessions /\ TurnsAreSound /\ StreamsAreSound /\ Fetched /\ ResumeShowsOwnSession

LEMMA AtomsApart ==
  "post" \notin Sessions /\ "approve" \notin Sessions /\ "none" \notin Sessions
  BY ChatAssumption

LEMMA IdleReads == \A x : Reads(x, Idle, turns) /\ DOMAIN Idle = StreamFields
  BY AtomsApart DEF Reads, Idle, StreamFields

\* The turns go on, the streams and what is fetched stay.
LEMMA ReadsOn ==
  ASSUME Evolves, NEW x, NEW q, Reads(x, q, turns) PROVE Reads(x, q, turns')
<1>1. ASSUME q.in \in Sessions, q.turn \in DOMAIN turns[q.in]
      PROVE  /\ q.turn \in DOMAIN turns'[q.in]
             /\ DOMAIN turns[q.in][q.turn] \subseteq DOMAIN turns'[q.in][q.turn]
  BY <1>1 DEF Evolves, Grown
<1>2. q.pc = "open" \/ (x = "approve" /\ q.pc # "idle") => q.in \in Sessions
  BY DEF Reads
<1> QED
  BY <1>1, <1>2 DEF Reads

LEMMA FetchedOn ==
  ASSUME session \in Sessions, Fetched, Evolves, UNCHANGED <<session, queries, seen>>
  PROVE  Fetched'
<1>1. Grown(turns[session], turns'[session])
  BY DEF Evolves
<1>2. SeenIsJournaled'
  <2> SUFFICES ASSUME NEW e \in seen
               PROVE  e[2] \in DOMAIN turns'[e[1]] /\ Has(turns'[e[1]][e[2]], e[3]) /\ e[1] \in Sessions
    BY DEF SeenIsJournaled
  <2>1. e[1] \in Sessions /\ e[2] \in DOMAIN turns[e[1]] /\ Has(turns[e[1]][e[2]], e[3])
    BY DEF Fetched, SeenIsJournaled
  <2>2. Grown(turns[e[1]], turns'[e[1]])
    BY <2>1 DEF Evolves
  <2>3. Has(turns'[e[1]][e[2]], e[3])
    BY <2>1, <2>2, GrownHas
  <2> QED
    BY <2>1, <2>2, <2>3 DEF Grown
<1>3. QueriesAreSound'
  BY <1>1 DEF Fetched, QueriesAreSound, Grown
<1>4. HistoryIsNew'
  <2> SUFFICES ASSUME Settled(queries["history"]), NEW k, <<session, k, "done">> \in seen
               PROVE  /\ k \in DOMAIN queries["history"].value
                      /\ queries["history"].value[k] = turns'[session][k]
    BY DEF HistoryIsNew
  <2>1. k \in DOMAIN turns[session] /\ Has(turns[session][k], "done")
    BY DEF Fetched, SeenIsJournaled
  <2> QED
    BY <1>1, <2>1 DEF Fetched, HistoryIsNew, Grown, Ended
<1>5. JournalIsNew'
  <2> SUFFICES ASSUME Settled(queries["journal"]), NEW k, <<session, k, "ask">> \in seen,
                      Parked(turns'[session][k])
               PROVE  /\ k \in DOMAIN queries["journal"].value
                      /\ Parked(queries["journal"].value[k])
    BY DEF JournalIsNew
  <2>1. k \in DOMAIN turns[session] /\ Has(turns[session][k], "ask")
    BY DEF Fetched, SeenIsJournaled
  <2>2. Parked(turns[session][k])
    BY <1>1, <2>1 DEF Grown
  <2> QED
    BY <2>2 DEF Fetched, JournalIsNew
<1> QED
  BY <1>2, <1>3, <1>4, <1>5 DEF Fetched

\* A step of one stream.
LEMMA StreamKeeps ==
  ASSUME ChatInv, Evolves, NEW x \in Atoms, NEW new, streams' = [streams EXCEPT ![x] = new],
         Reads(x, new, turns')
  PROVE  StreamsAreSound'
<1>1. DOMAIN streams' = Atoms /\ streams'[x] = new /\ \A y \in Atoms \ {x} : streams'[y] = streams[y]
  BY DEF ChatInv, StreamsAreSound
<1>2. \A y \in Atoms \ {x} : Reads(y, streams[y], turns')
  BY ReadsOn DEF ChatInv, StreamsAreSound
<1> QED
  BY <1>1, <1>2 DEF StreamsAreSound

LEMMA SameStreams == ASSUME ChatInv, Evolves, streams' = streams PROVE StreamsAreSound'
  BY ReadsOn DEF ChatInv, StreamsAreSound

\* What a stream publishes for the view is of the session on screen, if it is
\* the resume's.
LEMMA PublishedIsOwn ==
  ASSUME ChatInv, NEW x \in Atoms, NEW new, NEW list, Reads(x, new, list), session' = session,
         parts' = Published(x, new)
  PROVE  ResumeShowsOwnSession'
<1>1. CASE x = "post"
  BY <1>1, AtomsApart DEF Published, Transcript, ResumeShowsOwnSession
<1>2. CASE x = session /\ x # "post" /\ parts' = Transcript(x, new)
  <2>1. new.in \in {"none", session} /\ (new.in = "none" => new.turn = 0)
    BY <1>2 DEF Reads, ChatInv
  <2> QED
    BY <1>2, <2>1 DEF Transcript, ResumeShowsOwnSession
<1>3. CASE parts' = parts
  BY <1>3 DEF ChatInv, ResumeShowsOwnSession
<1> QED
  BY <1>1, <1>2, <1>3 DEF Published, ResumeAtom

LEMMA SameParts ==
  ASSUME ChatInv, session' = session, parts' \in {parts, noParts} PROVE ResumeShowsOwnSession'
<1>1. CASE parts' = parts
  BY <1>1 DEF ChatInv, ResumeShowsOwnSession
<1>2. CASE parts' = noParts
  BY <1>2 DEF noParts, ResumeShowsOwnSession
<1> QED
  BY <1>1, <1>2

-----------------------------------------------------------------------------
(* The server and the streams.                                               *)

LEMMA EntriesAre == {"text", "ask", "done", "go"} = Entries
  BY DEF Entries

LEMMA TurnGoesOnKeeps == ASSUME ChatInv, TurnGoesOn PROVE ChatInv'
<1>1. PICK s \in Sessions : \E k \in DOMAIN turns[s], entry \in {"text", "ask", "done"} :
        /\ ~Ended(turns[s][k]) /\ ~Parked(turns[s][k])
        /\ entry = "ask" => ~Has(turns[s][k], "ask")
        /\ turns' = [turns EXCEPT ![s][k] = Append(@, entry)]
  BY DEF TurnGoesOn
<1>2. PICK k \in DOMAIN turns[s], entry \in {"text", "ask", "done"} :
        /\ ~Ended(turns[s][k]) /\ ~Parked(turns[s][k])
        /\ entry = "ask" => ~Has(turns[s][k], "ask")
        /\ turns' = [turns EXCEPT ![s][k] = Append(@, entry)]
  BY <1>1
<1>3. entry \in Entries
  BY EntriesAre
<1>4. Evolves
  BY <1>2, <1>3, EntryEvolves DEF ChatInv
<1>5. UNCHANGED <<session, parts, tab, streams, queries, seen>>
  BY DEF TurnGoesOn
<1> QED
  BY <1>4, <1>5, FetchedOn, SameStreams, SameParts DEF ChatInv, Evolves

LEMMA ParkedGoes ==
  ASSUME TurnsAreSound, NEW s \in Sessions, NEW k \in DOMAIN turns[s], Parked(turns[s][k]),
         turns' = [turns EXCEPT ![s][k] = Append(@, "go")]
  PROVE  /\ Evolves
         /\ Len(turns'[s][k]) \in DOMAIN turns'[s][k] /\ k \in DOMAIN turns'[s]
         /\ Len(turns'[s][k]) \in Nat \ {0}
<1>1. ~Ended(turns[s][k])
  BY DEF TurnsAreSound, EndIsLast
<1>2. "go" \in Entries
  BY EntriesAre
<1> QED
  BY <1>1, <1>2, EntryEvolves

LEMMA OthersActKeeps == ASSUME ChatInv, OthersAct PROVE ChatInv'
<1>1. UNCHANGED <<session, parts, tab, streams, queries, seen>>
  BY DEF OthersAct
<1>2. PICK s \in Sessions :
        \/ turns' = [turns EXCEPT ![s] = Append(@, <<>>)]
        \/ \E k \in DOMAIN turns[s] :
             Parked(turns[s][k]) /\ turns' = [turns EXCEPT ![s][k] = Append(@, "go")]
  BY DEF OthersAct
<1>3. Evolves
  BY <1>2, OpenEvolves, ParkedGoes DEF ChatInv
<1> QED
  BY <1>1, <1>3, FetchedOn, SameStreams, SameParts DEF ChatInv, Evolves

LEMMA PostTurnKeeps == ASSUME ChatInv, PostTurn PROVE ChatInv'
<1> DEFINE q == streams["post"]
           in == q.in
<1>1. PICK opened \in BOOLEAN, pc \in {"open", "gap"} :
        /\ pc = "open" => opened
        /\ IF opened THEN MayOpen /\ turns' = [turns EXCEPT ![in] = Append(@, <<>>)]
           ELSE UNCHANGED turns
        /\ streams' = [streams EXCEPT !["post"] = [@ EXCEPT !.pc = pc, !.turn = Len(turns'[in]),
                                                           !.moved = TRUE]]
  BY DEF PostTurn
<1>2. /\ q.pc = "opening" /\ parts' = Published("post", streams'["post"])
      /\ UNCHANGED <<session, tab, queries, seen>>
  BY DEF PostTurn
<1>3. "post" \in Atoms /\ Reads("post", q, turns) /\ DOMAIN streams = Atoms
  BY DEF Atoms, ChatInv, StreamsAreSound
<1>4. in \in Sessions /\ q.frames = 0
  BY <1>2, <1>3 DEF Reads
<1>5. Evolves /\ (opened => Len(turns'[in]) \in DOMAIN turns'[in])
  BY <1>1, <1>4, OpenEvolves, StayAsTheyAre DEF ChatInv
<1> DEFINE turn == Len(turns'[in])
           new == [q EXCEPT !.pc = pc, !.turn = turn, !.moved = TRUE]
<1>6. streams' = [streams EXCEPT !["post"] = new]
  BY <1>1
<1> HIDE DEF turn
<1>7. /\ DOMAIN new = StreamFields /\ new.pc = pc /\ new.in = in /\ new.frames = 0 /\ new.turn = turn
  BY <1>3, <1>4 DEF Reads, StreamFields
<1> HIDE DEF new
<1>8. Reads("post", new, turns')
  BY <1>1, <1>4, <1>5, <1>7, AtomsApart DEF Reads, turn
<1>9. streams'["post"] = new
  BY <1>3, <1>6
<1>10. ResumeShowsOwnSession'
  BY <1>2, <1>3, <1>8, <1>9, PublishedIsOwn
<1> QED
  BY <1>2, <1>3, <1>5, <1>6, <1>8, <1>10, FetchedOn, StreamKeeps DEF ChatInv, Evolves

LEMMA PostDecisionKeeps == ASSUME ChatInv, PostDecision PROVE ChatInv'
<1> DEFINE a == streams["approve"]
<1>1. a.pc = "opening" /\ UNCHANGED <<session, parts, tab, queries, seen>>
  BY DEF PostDecision
<1>2. "approve" \in Atoms /\ Reads("approve", a, turns) /\ DOMAIN streams = Atoms
  BY DEF Atoms, ChatInv, StreamsAreSound
<1>3. a.in \in Sessions /\ a.frames = 0 /\ a.turn \in DOMAIN turns[a.in]
  BY <1>1, <1>2 DEF Reads
<1>4. ResumeShowsOwnSession'
  BY <1>1, SameParts
<1>5. CASE /\ Parked(turns[a.in][a.turn])
           /\ turns' = [turns EXCEPT ![a.in][a.turn] = Append(@, "go")]
           /\ \E pc \in {"open", "failed"} :
                streams' = [streams EXCEPT !["approve"] =
                              [a EXCEPT !.pc = pc, !.frames = Len(turns'[a.in][a.turn])]]
  <2>1. PICK pc \in {"open", "failed"} :
          streams' = [streams EXCEPT !["approve"] =
                              [a EXCEPT !.pc = pc, !.frames = Len(turns'[a.in][a.turn])]]
    BY <1>5
  <2> DEFINE frames == Len(turns'[a.in][a.turn])
             new == [a EXCEPT !.pc = pc, !.frames = frames]
  <2>2. /\ Evolves /\ a.turn \in DOMAIN turns'[a.in] /\ frames \in DOMAIN turns'[a.in][a.turn]
        /\ frames \in Nat
    BY <1>3, <1>5, ParkedGoes DEF ChatInv
  <2>3. streams' = [streams EXCEPT !["approve"] = new]
    BY <2>1
  <2> HIDE DEF frames
  <2>4. DOMAIN new = StreamFields /\ new.pc = pc /\ new.in = a.in /\ new.turn = a.turn /\ new.frames = frames
    BY <1>2 DEF Reads, StreamFields
  <2> HIDE DEF new, a
  <2>5. Reads("approve", new, turns')
    BY <1>3, <2>2, <2>4, AtomsApart DEF Reads
  <2> QED
    BY <1>1, <1>2, <1>4, <2>2, <2>3, <2>5, FetchedOn, StreamKeeps DEF ChatInv, Evolves
<1>6. CASE streams' = [streams EXCEPT !["approve"].pc = "failed"] /\ UNCHANGED turns
  <2> DEFINE new == [a EXCEPT !.pc = "failed"]
  <2>1. streams' = [streams EXCEPT !["approve"] = new]
    BY <1>2, <1>6
  <2>2. DOMAIN new = StreamFields /\ new.pc = "failed" /\ new.in = a.in /\ new.turn = a.turn /\ new.frames = 0
    BY <1>2, <1>3 DEF Reads, StreamFields
  <2> HIDE DEF new, a
  <2>3. Reads("approve", new, turns')
    BY <1>3, <1>6, <2>2, AtomsApart DEF Reads
  <2>4. Evolves
    BY <1>6, StayAsTheyAre DEF ChatInv
  <2> QED
    BY <1>1, <1>2, <1>4, <2>1, <2>3, <2>4, FetchedOn, StreamKeeps DEF ChatInv, Evolves
<1> QED
  BY <1>5, <1>6 DEF PostDecision

LEMMA FrameKeeps == ASSUME ChatInv, NEW x \in DOMAIN streams, Frame(x) PROVE ChatInv'
<1> DEFINE q == streams[x]
           entry == turns[q.in][q.turn][q.frames + 1]
           pc == IF entry \in {"text", "go"} THEN "open" ELSE "over"
           frames == q.frames + 1
           new == [q EXCEPT !.frames = frames, !.moved = TRUE, !.pc = pc]
<1>1. /\ q.pc = "open" /\ q.frames < Len(turns[q.in][q.turn])
      /\ streams' = [streams EXCEPT ![x] = new] /\ parts' = Published(x, streams'[x])
      /\ UNCHANGED <<turns, session, tab, queries, seen>>
  BY DEF Frame
<1>2. x \in Atoms /\ Reads(x, q, turns) /\ DOMAIN streams = Atoms
  BY SMTT(30) DEF ChatInv, StreamsAreSound
<1>3. q.in \in Sessions /\ q.turn \in DOMAIN turns[q.in] /\ q.frames \in Nat
  BY <1>1, <1>2 DEF Reads
<1>4. frames \in DOMAIN turns[q.in][q.turn] /\ frames \in Nat
  <2>1. turns[q.in][q.turn] \in Seq(Entries)
    BY <1>3, LenProperties, ElementOfSeq DEF ChatInv, TurnsAreSound
  <2> QED
    BY <1>1, <1>3, <2>1, LenProperties
<1>5. pc \in {"open", "over"}
  OBVIOUS
<1> HIDE DEF frames, pc
<1>6. DOMAIN new = StreamFields /\ new.pc = pc /\ new.in = q.in /\ new.turn = q.turn /\ new.frames = frames
  BY <1>2 DEF Reads, StreamFields
<1>7. streams'[x] = new
  BY <1>1, <1>2
<1> HIDE DEF new
<1>8. Reads(x, new, turns')
  BY <1>1, <1>2, <1>3, <1>4, <1>5, <1>6 DEF Reads
<1>9. Evolves
  BY <1>1, StayAsTheyAre DEF ChatInv
<1>10. ResumeShowsOwnSession'
  BY <1>1, <1>2, <1>7, <1>8, PublishedIsOwn
<1> QED
  BY <1>1, <1>2, <1>8, <1>9, <1>10, FetchedOn, StreamKeeps DEF ChatInv, Evolves

\* A stream changes where it is in its course, and not what it has read.
LEMMA ReadsStill ==
  ASSUME NEW x, NEW q, Reads(x, q, turns), q.pc # "idle", q.pc # "opening", NEW pc, NEW new,
         pc # "open" \/ q.pc = "open", pc # "opening",
         DOMAIN new = StreamFields, new.pc = pc, new.in = q.in, new.turn = q.turn,
         new.frames \in {0, q.frames}
  PROVE  Reads(x, new, turns)
  BY DEF Reads

LEMMA DropKeeps == ASSUME ChatInv, NEW x \in DOMAIN streams, Drop(x) PROVE ChatInv'
<1> DEFINE q == streams[x]
           pc == IF x = "approve" THEN "failed" ELSE "gap"
           new == [q EXCEPT !.pc = pc]
<1>1. x \in Atoms /\ Reads(x, q, turns) /\ DOMAIN streams = Atoms
  BY DEF ChatInv, StreamsAreSound
<1>2. /\ q.pc = "open" /\ streams' = [streams EXCEPT ![x] = new]
      /\ UNCHANGED <<turns, session, parts, tab, queries, seen>>
  BY <1>1 DEF Drop
<1>3. pc # "open" /\ pc # "opening"
  OBVIOUS
<1> HIDE DEF pc
<1>4. DOMAIN new = StreamFields /\ new.pc = pc /\ new.in = q.in /\ new.turn = q.turn /\ new.frames = q.frames
  BY <1>1 DEF Reads, StreamFields
<1> HIDE DEF new
<1>5. Reads(x, new, turns')
  BY <1>1, <1>2, <1>3, <1>4, ReadsStill
<1>6. Evolves
  BY <1>2, StayAsTheyAre DEF ChatInv
<1> QED
  BY <1>1, <1>2, <1>5, <1>6, FetchedOn, StreamKeeps, SameParts DEF ChatInv, Evolves

LEMMA AttachKeeps == ASSUME ChatInv, NEW x \in DOMAIN streams, Attach(x) PROVE ChatInv'
<1> DEFINE q == streams[x]
<1>1. x \in Atoms /\ Reads(x, q, turns) /\ DOMAIN streams = Atoms
  BY DEF ChatInv, StreamsAreSound
<1>2. /\ q.pc = "gap" /\ parts' = Published(x, streams'[x])
      /\ UNCHANGED <<turns, session, tab, queries, seen>>
  BY DEF Attach
<1>3. q.in \in Sessions
  BY <1>1, <1>2 DEF Reads
<1>4. \E new : streams' = [streams EXCEPT ![x] = new] /\ Reads(x, new, turns)
  <2>1. CASE /\ turns[q.in] # <<>>
             /\ streams' = [streams EXCEPT ![x] =
                         [q EXCEPT !.pc = "open", !.turn = Len(turns[q.in]), !.frames = 0,
                                   !.left = q.left - 1, !.moved = FALSE]]
    <3> DEFINE turn == Len(turns[q.in])
               left == q.left - 1
               new == [q EXCEPT !.pc = "open", !.turn = turn, !.frames = 0, !.left = left, !.moved = FALSE]
    <3>1. turn \in DOMAIN turns[q.in]
      <4>1. turns[q.in] \in Seq(Seq(Entries))
        BY <1>3 DEF ChatInv, TurnsAreSound
      <4> QED
        BY <2>1, <4>1, EmptySeq, LenProperties
    <3>2. streams' = [streams EXCEPT ![x] = new]
      BY <2>1
    <3> HIDE DEF turn, left
    <3>3. DOMAIN new = StreamFields /\ new.pc = "open" /\ new.in = q.in /\ new.turn = turn /\ new.frames = 0
      BY <1>1 DEF Reads, StreamFields
    <3> HIDE DEF new
    <3>4. Reads(x, new, turns)
      BY <1>1, <1>2, <1>3, <3>1, <3>3, AtomsApart DEF Reads
    <3> QED
      BY <3>2, <3>4
  <2>2. CASE streams' = [streams EXCEPT ![x] = [q EXCEPT !.pc = "over", !.frames = 0]]
    <3> DEFINE new == [q EXCEPT !.pc = "over", !.frames = 0]
    <3>1. DOMAIN new = StreamFields /\ new.pc = "over" /\ new.in = q.in /\ new.turn = q.turn /\ new.frames = 0
      BY <1>1 DEF Reads, StreamFields
    <3>2. streams' = [streams EXCEPT ![x] = new]
      BY <2>2
    <3> HIDE DEF new
    <3> QED
      BY <1>1, <1>2, <3>1, <3>2, ReadsStill
  <2>3. CASE streams' = [streams EXCEPT ![x].pc = "over"]
    <3> DEFINE new == [q EXCEPT !.pc = "over"]
    <3>1. /\ DOMAIN new = StreamFields /\ new.pc = "over" /\ new.in = q.in /\ new.turn = q.turn
          /\ new.frames = q.frames
      BY <1>1 DEF Reads, StreamFields
    <3>2. streams' = [streams EXCEPT ![x] = new]
      BY <1>1, <2>3
    <3> HIDE DEF new
    <3> QED
      BY <1>1, <1>2, <3>1, <3>2, ReadsStill
  <2> QED
    BY <2>1, <2>2, <2>3 DEF Attach
<1>5. PICK new : streams' = [streams EXCEPT ![x] = new] /\ Reads(x, new, turns)
  BY <1>4
<1>6. streams'[x] = new
  BY <1>1, <1>5
<1>7. ResumeShowsOwnSession'
  BY <1>1, <1>2, <1>5, <1>6, PublishedIsOwn
<1>8. Evolves
  BY <1>2, StayAsTheyAre DEF ChatInv
<1>9. Reads(x, new, turns')
  BY <1>2, <1>5
<1> QED
  BY <1>1, <1>2, <1>5, <1>7, <1>8, <1>9, FetchedOn, StreamKeeps DEF ChatInv, Evolves

-----------------------------------------------------------------------------
(* The ends of the streams.                                                  *)

LEMMA SeenByIs ==
  ASSUME ChatInv, NEW x \in Atoms, NEW e \in SeenBy(x), e \notin seen
  PROVE  /\ e[1] = streams[x].in /\ e[1] \in Sessions /\ e[2] \in DOMAIN turns[e[1]]
         /\ Has(turns[e[1]][e[2]], e[3])
<1> DEFINE q == streams[x]
<1>1. Reads(x, q, turns)
  BY DEF ChatInv, StreamsAreSound
<1>2. q.frames # 0 /\ e = <<q.in, q.turn, turns[q.in][q.turn][q.frames]>>
  BY DEF SeenBy
<1> HIDE DEF q
<1>3. e[1] = q.in /\ e[2] = q.turn /\ e[3] = turns[q.in][q.turn][q.frames]
  BY <1>2
<1>4. q.in \in Sessions /\ q.turn \in DOMAIN turns[q.in] /\ q.frames \in DOMAIN turns[q.in][q.turn]
  BY <1>1, <1>2 DEF Reads
<1> QED
  BY <1>3, <1>4 DEF Has, q

LEMMA RefreshDoes ==
  ASSUME QueriesAreSound, NEW names, NEW in, NEW r, r = Refresh(names, in)
  PROVE  /\ DOMAIN r = {"history", "journal"}
         /\ \A q \in {"history", "journal"} :
              /\ DOMAIN r[q] = {"state", "value", "sent"}
              /\ r[q].state = queries[q].state /\ r[q].value = queries[q].value
              /\ Settled(r[q]) =>
                   r[q] = queries[q] /\ ~(q \in names /\ (q = "journal" \/ in = session))
<1>1. DOMAIN queries = {"history", "journal"}
  BY DEF QueriesAreSound
<1>2. DOMAIN r = {"history", "journal"}
  BY <1>1 DEF Refresh
<1>3. ASSUME NEW q \in {"history", "journal"}
      PROVE  /\ DOMAIN r[q] = {"state", "value", "sent"}
             /\ r[q].state = queries[q].state /\ r[q].value = queries[q].value
             /\ Settled(r[q]) =>
                  r[q] = queries[q] /\ ~(q \in names /\ (q = "journal" \/ in = session))
  <2>1. DOMAIN queries[q] = {"state", "value", "sent"}
    BY DEF QueriesAreSound
  <2>2. CASE q \in names /\ (q = "journal" \/ in = session)
    <3>1. r[q] = [queries[q] EXCEPT !.sent = TRUE]
      BY <1>1, <2>2 DEF Refresh, Refreshed
    <3> QED
      BY <2>1, <3>1 DEF Settled
  <2>3. CASE ~(q \in names /\ (q = "journal" \/ in = session))
    <3>1. r[q] = queries[q]
      BY <1>1, <2>3 DEF Refresh
    <3> QED
      BY <2>1, <2>3, <3>1
  <2> QED
    BY <2>2, <2>3
<1> QED
  BY <1>2, <1>3

\* The tab learns of an end, and what it concerns is sent for again.
LEMMA EndKeeps ==
  ASSUME ChatInv, UNCHANGED <<turns, session>>, NEW x \in Atoms, seen' \in {seen, SeenBy(x)},
         QueriesAreSound',
         \A q \in {"history", "journal"} : Settled(queries'[q]) =>
           queries'[q] = queries[q] /\ (seen' = seen \/ streams[x].in # session)
  PROVE  Fetched'
<1>1. \A e \in seen' : e \in seen \/
        /\ e[1] = streams[x].in /\ e[1] \in Sessions /\ e[2] \in DOMAIN turns[e[1]]
        /\ Has(turns[e[1]][e[2]], e[3])
  BY SeenByIs
<1>2. SeenIsJournaled'
  BY <1>1 DEF ChatInv, Fetched, SeenIsJournaled
<1>3. \A k, name : <<session, k, name>> \in seen' \ seen => streams[x].in = session
  <2> SUFFICES ASSUME NEW k, NEW name, <<session, k, name>> \in seen' \ seen
               PROVE  streams[x].in = session
    OBVIOUS
  <2>1. <<session, k, name>>[1] = streams[x].in
    BY <1>1
  <2> QED
    BY <2>1
<1>4. HistoryIsNew'
  BY <1>3 DEF ChatInv, Fetched, HistoryIsNew
<1>5. JournalIsNew'
  BY <1>3 DEF ChatInv, Fetched, JournalIsNew
<1> QED
  BY <1>2, <1>4, <1>5 DEF Fetched

LEMMA RefreshKeeps ==
  ASSUME ChatInv, UNCHANGED <<turns, session>>, NEW x \in Atoms, seen' = SeenBy(x),
         queries' = Refresh({"history", "journal"}, streams[x].in)
  PROVE  Fetched'
<1>1. QueriesAreSound
  BY DEF ChatInv, Fetched
<1>2. QueriesAreSound'
  BY <1>1, RefreshDoes DEF QueriesAreSound
<1>3. \A q \in {"history", "journal"} : Settled(queries'[q]) =>
        queries'[q] = queries[q] /\ streams[x].in # session
  BY <1>1, RefreshDoes
<1> QED
  BY <1>2, <1>3, EndKeeps

LEMMA PostOverKeeps == ASSUME ChatInv, PostOver PROVE ChatInv'
<1>1. /\ UNCHANGED <<turns, session>> /\ seen' = SeenBy("post")
      /\ streams' = [streams EXCEPT !["post"] = Idle] /\ parts' = Published("post", streams["post"])
      /\ queries' = Refresh({"history", "journal"}, streams["post"].in)
  BY DEF PostOver
<1>2. "post" \in Atoms /\ Reads("post", streams["post"], turns)
  BY DEF Atoms, ChatInv, StreamsAreSound
<1>3. Evolves /\ Reads("post", Idle, turns')
  BY <1>1, StayAsTheyAre, IdleReads DEF ChatInv
<1>4. StreamsAreSound'
  BY <1>1, <1>2, <1>3, StreamKeeps
<1>5. ResumeShowsOwnSession'
  BY <1>1, <1>2, PublishedIsOwn
<1>6. Fetched'
  BY <1>1, <1>2, RefreshKeeps
<1> QED
  BY <1>1, <1>3, <1>4, <1>5, <1>6 DEF ChatInv, Evolves

LEMMA ResumeOverKeeps == ASSUME ChatInv, NEW s \in Sessions, ResumeOver(s) PROVE ChatInv'
<1> DEFINE q == streams[s]
           new == [q EXCEPT !.pc = "idle", !.left = 0, !.moved = FALSE]
<1>1. s \in Atoms /\ Reads(s, q, turns)
  BY DEF Atoms, ChatInv, StreamsAreSound
<1>2. /\ UNCHANGED <<turns, session>> /\ seen' = SeenBy(s) /\ q.pc = "over"
      /\ streams' = [streams EXCEPT ![s] = new]
  BY DEF ResumeOver
<1>3. DOMAIN new = StreamFields /\ new.pc = "idle" /\ new.in = q.in /\ new.turn = q.turn /\ new.frames = q.frames
  BY <1>1 DEF Reads, StreamFields
<1> HIDE DEF new
<1>4. Reads(s, new, turns)
  BY <1>1, <1>2, <1>3, ReadsStill
<1>5. Evolves /\ Reads(s, new, turns')
  BY <1>2, <1>4, StayAsTheyAre DEF ChatInv
<1>6. StreamsAreSound'
  BY <1>1, <1>2, <1>5, StreamKeeps
<1>7. parts' \in {parts, noParts}
  BY DEF ResumeOver
<1>8. ResumeShowsOwnSession'
  BY <1>2, <1>7, SameParts
<1>9. q.in = s
  BY <1>1, <1>2, AtomsApart DEF Reads
<1>10. Fetched'
  <2>1. CASE s = session
    <3>1. queries' = Refresh({"history", "journal"}, s)
      BY <2>1 DEF ResumeOver
    <3> QED
      BY <1>1, <1>2, <1>9, <3>1, RefreshKeeps
  <2>2. CASE s # session
    <3>1. queries' = queries
      BY <2>2 DEF ResumeOver
    <3>2. QueriesAreSound'
      BY <1>2, <3>1 DEF ChatInv, Fetched, QueriesAreSound
    <3> QED
      BY <1>1, <1>2, <1>9, <2>2, <3>1, <3>2, EndKeeps
  <2> QED
    BY <2>1, <2>2
<1> QED
  BY <1>2, <1>5, <1>6, <1>8, <1>10 DEF ChatInv, Evolves

LEMMA ApproveOverKeeps == ASSUME ChatInv, ApproveOver PROVE ChatInv'
<1>1. UNCHANGED <<turns, session, parts, tab>> /\ streams' = [streams EXCEPT !["approve"] = Idle]
  BY DEF ApproveOver
<1>2. "approve" \in Atoms
  BY DEF Atoms
<1>3. Evolves /\ Reads("approve", Idle, turns')
  BY <1>1, StayAsTheyAre, IdleReads DEF ChatInv
<1>4. StreamsAreSound' /\ ResumeShowsOwnSession'
  BY <1>1, <1>2, <1>3, StreamKeeps, SameParts
<1>5. CASE streams["approve"].pc = "over"
  <2>1. /\ queries' = Refresh({"history", "journal"}, streams["approve"].in)
        /\ seen' = SeenBy("approve")
    BY <1>5 DEF ApproveOver
  <2>2. Fetched'
    BY <1>1, <1>2, <2>1, RefreshKeeps
  <2> QED
    BY <1>1, <1>3, <1>4, <2>2 DEF ChatInv, Evolves
<1>6. CASE streams["approve"].pc # "over"
  <2>1. UNCHANGED <<queries, seen>>
    BY <1>6 DEF ApproveOver
  <2>2. Fetched'
    BY <1>1, <1>3, <2>1, FetchedOn DEF ChatInv
  <2> QED
    BY <1>1, <1>3, <1>4, <2>2 DEF ChatInv, Evolves
<1> QED
  BY <1>5, <1>6

-----------------------------------------------------------------------------
(* The queries.                                                              *)

\* A query is answered or fails.
LEMMA DeliveredKeeps ==
  ASSUME ChatInv, UNCHANGED <<turns, session, seen>>, NEW q \in {"history", "journal"},
         NEW new \in {Delivered(turns[session]), Failed}, queries' = [queries EXCEPT ![q] = new]
  PROVE  Fetched'
<1>1. DOMAIN queries = {"history", "journal"}
  BY DEF ChatInv, Fetched, QueriesAreSound
<1>2. queries'[q] = new /\ \A r \in {"history", "journal"} \ {q} : queries'[r] = queries[r]
  BY <1>1
<1>3. turns[session] \in Seq(Seq(Entries))
  BY DEF ChatInv, TurnsAreSound
<1>4. /\ DOMAIN new = {"state", "value", "sent"}
      /\ new.state = "success" \/ Settled(new) => new.value = turns[session]
  BY DEF Delivered, Failed, Settled
<1>5. QueriesAreSound'
  BY <1>1, <1>2, <1>3, <1>4 DEF ChatInv, Fetched, QueriesAreSound
<1>6. \A k, name : <<session, k, name>> \in seen => k \in DOMAIN turns[session]
  <2> SUFFICES ASSUME NEW k, NEW name, <<session, k, name>> \in seen PROVE k \in DOMAIN turns[session]
    OBVIOUS
  <2>1. LET e == <<session, k, name>> IN e[2] \in DOMAIN turns[e[1]]
    BY DEF ChatInv, Fetched, SeenIsJournaled
  <2> QED
    BY <2>1
<1>7. HistoryIsNew' /\ JournalIsNew'
  <2>1. CASE q = "history"
    BY <1>2, <1>4, <1>6, <2>1 DEF ChatInv, Fetched, HistoryIsNew, JournalIsNew
  <2>2. CASE q = "journal"
    BY <1>2, <1>4, <1>6, <2>2 DEF ChatInv, Fetched, HistoryIsNew, JournalIsNew
  <2> QED
    BY <2>1, <2>2
<1>8. SeenIsJournaled'
  BY DEF ChatInv, Fetched, SeenIsJournaled
<1> QED
  BY <1>5, <1>7, <1>8 DEF Fetched

LEMMA ResumeEffectKeeps ==
  ASSUME ChatInv, UNCHANGED <<turns, session>>, ResumeEffect
  PROVE  StreamsAreSound' /\ ResumeShowsOwnSession'
<1> DEFINE q == streams[session]
           new == [q EXCEPT !.pc = "gap", !.in = session, !.left = MaxAttachAttempts, !.moved = TRUE]
<1>1. session \in Atoms /\ Reads(session, q, turns)
  BY DEF Atoms, ChatInv, StreamsAreSound
<1>2. Evolves
  BY StayAsTheyAre DEF ChatInv
<1>3. q.in \in {"none", session} /\ (q.in = "none" => q.turn = 0) /\ session \in Sessions
  BY <1>1 DEF Reads, ChatInv
<1>4. CASE tab'.resuming
  <2>1. /\ streams' = [streams EXCEPT ![session] = new]
        /\ parts' = IF q.turn > 0 THEN Transcript(session, q) ELSE noParts
    BY <1>4 DEF ResumeEffect, ResumeAtom
  <2>2. DOMAIN new = StreamFields /\ new.pc = "gap" /\ new.in = session /\ new.turn = q.turn /\ new.frames = q.frames
    BY <1>1 DEF Reads, StreamFields
  <2> HIDE DEF new
  <2>3. Reads(session, new, turns)
    BY <1>1, <1>3, <2>2, AtomsApart DEF Reads
  <2>4. Reads(session, new, turns')
    BY <2>3
  <2>5. StreamsAreSound'
    BY <1>1, <1>2, <2>1, <2>4, StreamKeeps
  <2>6. ResumeShowsOwnSession'
    BY <1>3, <2>1 DEF Transcript, noParts, ResumeShowsOwnSession
  <2> QED
    BY <2>5, <2>6
<1>5. CASE ~tab'.resuming
  <2>1. streams' = streams /\ parts' \in {parts, noParts}
    BY <1>5 DEF ResumeEffect
  <2> QED
    BY <1>2, <2>1, SameStreams, SameParts
<1> QED
  BY <1>4, <1>5

LEMMA QueryDeliveredKeeps == ASSUME ChatInv, NEW q \in DOMAIN queries, QueryDelivered(q) PROVE ChatInv'
<1>1. /\ UNCHANGED <<turns, session, seen>>
      /\ queries' = [queries EXCEPT ![q] = Delivered(turns[session])]
      /\ ResumeEffect \/ (streams' = streams /\ parts' \in {parts, noParts})
  BY DEF QueryDelivered, HistoryEffect
<1>2. q \in {"history", "journal"}
  BY DEF ChatInv, Fetched, QueriesAreSound
<1>3. Fetched'
  BY <1>1, <1>2, DeliveredKeeps
<1>4. Evolves
  BY <1>1, StayAsTheyAre DEF ChatInv
<1>5. StreamsAreSound' /\ ResumeShowsOwnSession'
  BY <1>1, <1>4, ResumeEffectKeeps, SameStreams, SameParts
<1> QED
  BY <1>1, <1>3, <1>4, <1>5 DEF ChatInv, Evolves

LEMMA QueryFailsKeeps == ASSUME ChatInv, NEW q \in DOMAIN queries, QueryFails(q) PROVE ChatInv'
<1>1. UNCHANGED <<turns, session, parts, tab, streams, seen>> /\ queries' = [queries EXCEPT ![q] = Failed]
  BY DEF QueryFails
<1>2. q \in {"history", "journal"}
  BY DEF ChatInv, Fetched, QueriesAreSound
<1>3. Fetched'
  BY <1>1, <1>2, DeliveredKeeps
<1>4. Evolves
  BY <1>1, StayAsTheyAre DEF ChatInv
<1> QED
  BY <1>1, <1>3, <1>4, SameStreams, SameParts DEF ChatInv, Evolves

LEMMA RetryKeeps == ASSUME ChatInv, Retry PROVE ChatInv'
<1>1. UNCHANGED <<turns, session, parts, tab, streams, seen>> /\ queries' = Refresh({"journal"}, session)
  BY DEF Retry
<1>2. QueriesAreSound
  BY DEF ChatInv, Fetched
<1>3. QueriesAreSound'
  BY <1>1, <1>2, RefreshDoes DEF QueriesAreSound
<1>4. \A q \in {"history", "journal"} : Settled(queries'[q]) => queries'[q] = queries[q]
  BY <1>1, <1>2, RefreshDoes
<1>5. "post" \in Atoms
  BY DEF Atoms
<1>6. Fetched'
  BY <1>1, <1>3, <1>4, <1>5, EndKeeps
<1>7. Evolves
  BY <1>1, StayAsTheyAre DEF ChatInv
<1> QED
  BY <1>1, <1>6, <1>7, SameStreams, SameParts DEF ChatInv, Evolves

-----------------------------------------------------------------------------
(* The user.                                                                 *)

LEMMA SubmitKeeps == ASSUME ChatInv, Submit PROVE ChatInv'
<1> DEFINE new == [Idle EXCEPT !.pc = "opening", !.in = session, !.left = MaxAttachAttempts]
<1>1. UNCHANGED <<turns, session, queries, seen>> /\ parts' = noParts
      /\ streams' = [streams EXCEPT !["post"] = new]
  BY DEF Submit
<1>2. DOMAIN new = StreamFields /\ new.pc = "opening" /\ new.in = session /\ new.turn = 0 /\ new.frames = 0
  BY DEF Idle, StreamFields
<1> HIDE DEF new
<1>3. Reads("post", new, turns')
  BY <1>2, AtomsApart DEF Reads, ChatInv
<1>4. Evolves /\ "post" \in Atoms
  BY <1>1, StayAsTheyAre DEF ChatInv, Atoms
<1> QED
  BY <1>1, <1>3, <1>4, StreamKeeps, SameParts, FetchedOn DEF ChatInv, Evolves

LEMMA DecideKeeps == ASSUME ChatInv, Decide PROVE ChatInv'
<1>1. PICK k \in PendingApprovals(queries["journal"].value) :
        streams' = [streams EXCEPT !["approve"] = [Idle EXCEPT !.pc = "opening", !.in = session, !.turn = k]]
  BY DEF Decide
<1> DEFINE new == [Idle EXCEPT !.pc = "opening", !.in = session, !.turn = k]
<1>2. UNCHANGED <<turns, session, parts, tab, queries, seen>> /\ queries["journal"].state = "success"
  BY DEF Decide
<1>3. k \in DOMAIN turns[session]
  BY <1>2 DEF PendingApprovals, ChatInv, Fetched, QueriesAreSound
<1>4. DOMAIN new = StreamFields /\ new.pc = "opening" /\ new.in = session /\ new.turn = k /\ new.frames = 0
  BY DEF Idle, StreamFields
<1>5. streams' = [streams EXCEPT !["approve"] = new]
  BY <1>1
<1> HIDE DEF new
<1>6. Reads("approve", new, turns')
  BY <1>2, <1>3, <1>4, AtomsApart DEF Reads, ChatInv
<1>7. Evolves /\ "approve" \in Atoms
  BY <1>2, StayAsTheyAre DEF ChatInv, Atoms
<1> QED
  BY <1>2, <1>5, <1>6, <1>7, StreamKeeps, SameParts, FetchedOn DEF ChatInv, Evolves

LEMMA SwitchKeeps == ASSUME ChatInv, NEW s \in Sessions, Switch(s) PROVE ChatInv'
<1>1. /\ session' = s /\ parts' = noParts /\ UNCHANGED <<turns, seen>>
      /\ queries' = [q \in DOMAIN queries |-> Mounted]
      /\ streams' \in {streams, [streams EXCEPT ![session] = Idle]}
  BY DEF Switch, ResumeAtom
<1>2. Evolves /\ session \in Atoms
  BY <1>1, StayAsTheyAre DEF ChatInv, Atoms
<1>3. Reads(session, Idle, turns')
  BY <1>1, IdleReads
<1>4. StreamsAreSound'
  BY <1>1, <1>2, <1>3, StreamKeeps, SameStreams
<1>5. ResumeShowsOwnSession'
  BY <1>1 DEF noParts, ResumeShowsOwnSession
<1>6. DOMAIN queries' = {"history", "journal"} /\ \A q \in {"history", "journal"} : queries'[q] = Mounted
  BY <1>1 DEF ChatInv, Fetched, QueriesAreSound
<1>7. QueriesAreSound' /\ HistoryIsNew' /\ JournalIsNew'
  <2>1. Mounted.state = "initial" /\ DOMAIN Mounted = {"state", "value", "sent"}
    BY DEF Mounted
  <2>2. QueriesAreSound'
    BY <1>6, <2>1 DEF QueriesAreSound
  <2>3. queries'["history"].state # "success" /\ queries'["journal"].state # "success"
    BY <1>6, <2>1
  <2>4. HistoryIsNew'
    BY <2>3 DEF HistoryIsNew, Settled
  <2>5. JournalIsNew'
    BY <2>3 DEF JournalIsNew, Settled
  <2> QED
    BY <2>2, <2>4, <2>5
<1>8. SeenIsJournaled'
  BY <1>1 DEF ChatInv, Fetched, SeenIsJournaled
<1> QED
  BY <1>1, <1>2, <1>4, <1>5, <1>7, <1>8 DEF ChatInv, Fetched, Evolves

-----------------------------------------------------------------------------
(* The tab.                                                                  *)

LEMMA ChatStep == ASSUME ChatInv, ChatUser \/ ChatFaults \/ ChatSteps PROVE ChatInv'
<1>1. CASE ChatUser
  BY <1>1, SubmitKeeps, DecideKeeps, RetryKeeps, SwitchKeeps DEF ChatUser
<1>2. CASE ChatFaults
  BY <1>2, OthersActKeeps, QueryFailsKeeps, DropKeeps DEF ChatFaults
<1>3. CASE ChatSteps
  BY <1>3, TurnGoesOnKeeps, PostTurnKeeps, PostDecisionKeeps, PostOverKeeps, ApproveOverKeeps,
     FrameKeeps, AttachKeeps, ResumeOverKeeps, QueryDeliveredKeeps DEF ChatSteps
<1> QED
  BY <1>1, <1>2, <1>3

LEMMA ChatStarts == ASSUME ChatInit PROVE ChatInv
<1>1. /\ turns \in [Sessions -> {<<>>, <<<<>>>>}] /\ session \in Sessions /\ parts = noParts
      /\ streams = [x \in Atoms |-> Idle] /\ seen = {}
      /\ queries = [q \in {"history", "journal"} |-> Mounted]
  BY DEF ChatInit, Atoms
<1>2. TurnsAreSound
  <2>1. <<>> \in Seq(Entries)
    BY EmptySeq
  <2>2. <<<<>>>> \in Seq(Seq(Entries)) /\ <<>> \in Seq(Seq(Entries))
    BY <2>1, EmptySeq
  <2>3. turns \in [Sessions -> Seq(Seq(Entries))]
    BY <1>1, <2>2
  <2>4. ~Has(<<>>, "done") /\ DOMAIN <<<<>>>> = {1} /\ <<<<>>>>[1] = <<>>
    BY DEF Has
  <2>5. EndIsLast(<<<<>>>>) /\ EndIsLast(<<>>)
    BY <2>4 DEF EndIsLast, Ended
  <2> QED
    BY <1>1, <2>3, <2>5 DEF TurnsAreSound
<1>3. StreamsAreSound
  BY <1>1, IdleReads DEF StreamsAreSound
<1>4. Fetched
  BY <1>1, QueryShapes DEF Fetched, SeenIsJournaled, QueriesAreSound, HistoryIsNew, JournalIsNew, Mounted
<1>5. ResumeShowsOwnSession
  BY <1>1 DEF noParts, ResumeShowsOwnSession
<1> QED
  BY <1>1, <1>2, <1>3, <1>4, <1>5 DEF ChatInv

LEMMA ChatStays == ASSUME ChatInv, UNCHANGED chatVars PROVE ChatInv'
<1>1. UNCHANGED <<turns, session, parts, streams, queries, seen>>
  BY DEF chatVars
<1>2. Evolves
  BY <1>1, StayAsTheyAre DEF ChatInv
<1> QED
  BY <1>1, <1>2, SameStreams, SameParts, FetchedOn DEF ChatInv, Evolves

LEMMA ConsoleHolds == Spec => [](ChatInv /\ MemoryInv)
<1>1. Init => ChatInv /\ MemoryInv
  BY ChatStarts, MemoryStarts DEF Init
<1>2. ChatInv /\ MemoryInv /\ [Next]_vars => (ChatInv /\ MemoryInv)'
  <2> SUFFICES ASSUME ChatInv, MemoryInv, [Next]_vars PROVE ChatInv' /\ MemoryInv'
    OBVIOUS
  <2>1. CASE ChatMoves
    BY <2>1, ChatStep, NothingKeeps DEF ChatMoves
  <2>2. CASE PanelMoves
    BY <2>2, MemoryStep, ChatStays DEF PanelMoves
  <2>3. CASE TurnRemembers
    BY <2>3, MemoryStep, ChatStays DEF TurnRemembers
  <2>4. CASE UNCHANGED vars
    BY <2>4, NothingKeeps, ChatStays DEF vars
  <2> QED
    BY <2>1, <2>2, <2>3, <2>4 DEF Next
<1> QED
  BY <1>1, <1>2, PTL DEF Spec

\* Once the memory dialog awaits nothing, its list (memoriesAtom) is not older
\* than any change it was answered for, and an open row not older than what
\* was last saved from it, whichever calls the shared put and delete atoms
\* interrupted and whatever the turns of the agent wrote meanwhile.
THEOREM ThePanelReadsItsWrites == Spec => []ReadYourWrites
<1>1. MemoryInv => ReadYourWrites
  BY DEF MemoryInv, ListIsFresh, RowsAreFresh, ReadYourWrites
<1> QED
  BY <1>1, ConsoleHolds, PTL

\* What a resume atom puts into the transcript (onResumeResult) is of the
\* session on screen, for any number of sessions switched to and from.
THEOREM ResumesStayApart == Spec => []ResumeShowsOwnSession
<1>1. ChatInv => ResumeShowsOwnSession
  BY DEF ChatInv
<1> QED
  BY <1>1, ConsoleHolds, PTL

\* A turn that the tab has followed to its end is in the history on screen
\* once the tab is at rest: the end of each stream sends the history for again
\* (refreshHistory), and an ended turn does not change any more.
THEOREM AnswersAreShown == Spec => []AnswerIsShown
<1>1. ASSUME ChatInv, AtRest("history"), NEW k, <<session, k, "done">> \in seen
      PROVE  LET history == queries["history"].value
             IN  k <= Len(history) /\ Says(history[k]) = Says(turns[session][k])
  <2>1. Settled(queries["history"]) /\ queries["history"].state = "success"
    BY <1>1 DEF AtRest, Settled
  <2>2. /\ k \in DOMAIN queries["history"].value /\ queries["history"].value[k] = turns[session][k]
        /\ queries["history"].value \in Seq(Seq(Entries))
    BY <1>1, <2>1 DEF ChatInv, Fetched, QueriesAreSound, HistoryIsNew
  <2> QED
    BY <2>2, LenProperties
<1>2. ChatInv => AnswerIsShown
  BY <1>1 DEF AnswerIsShown
<1> QED
  BY <1>2, ConsoleHolds, PTL

\* A park that the tab has followed has its card once the tab is at rest, as
\* long as nobody has decided it: the end of each stream bumps the journal
\* (bumpJournal), and a turn asks once.
THEOREM CardsAreShown == Spec => []CardIsShown
<1>1. ChatInv => CardIsShown
  BY DEF ChatInv, Fetched, JournalIsNew, AtRest, CardIsShown, PendingApprovals
<1> QED
  BY <1>1, ConsoleHolds, PTL
=============================================================================
