-------------------------------- MODULE Memory --------------------------------
(* The facts of one agent, shared by all its sessions: the Memory object that *)
(* keeps them, the turns' tools and the HTTP handlers that change them, and   *)
(* the panel in which a user does, over its query and mutation atoms.         *)
(*                                                                           *)
(* A fact is when it last changed, and whether it is there; its content is    *)
(* told by when it was written.  The panel's two mutation atoms, put and      *)
(* delete, are each shared by all rows and the form.                          *)
EXTENDS Integers, FiniteSets, Query

CONSTANTS
  Names,
  MaxMemories  \* MEMORY_MAX_ENTRIES

ASSUME MemoryAssumption ==
  MaxMemories \in Nat /\ IsFiniteSet(Names) /\ {"list", "form"} \cap Names = {}

VARIABLES
  facts,    \* the rows of the Memory object
  clock,    \* the time of the last change
  panel,    \* the dialog: open, the rows expanded, what is busy
  lookups,  \* memoriesAtom ("list") and memoryEntryAtom per name
  calls,    \* putMemoryFn and deleteMemoryFn
  strays,   \* requests whose caller has left them
  acked     \* history: per name, the last change answered to the panel, and
            \* the last one saved from its row

memoryVars == <<facts, clock, panel, lookups, calls, strays, acked>>

Unmounted == [state |-> "none", value |-> <<>>, sent |-> FALSE]

NoCall == [pc |-> "idle", name |-> "none", by |-> "none", callers |-> {}]

MemoryInit ==
  /\ \E there \in SUBSET Names :
       /\ Cardinality(there) <= MaxMemories
       /\ facts = [n \in Names |-> [at |-> 0, live |-> n \in there]]
  /\ clock = 0
  /\ panel = [open |-> FALSE, rows |-> {}, busy |-> [put |-> {}, delete |-> {}]]
  /\ lookups = [q \in {"list"} \cup Names |-> Unmounted]
  /\ calls = [c \in {"put", "delete"} |-> NoCall]
  /\ strays = {}
  /\ acked = [n \in Names |-> [any |-> 0, row |-> 0]]

-----------------------------------------------------------------------------
(* The Memory object.                                                        *)

Listed == {n \in Names : facts[n].live}

\* write: a new name needs room, an old one is always taken.
MayWrite(n) == n \in Listed \/ Cardinality(Listed) < MaxMemories

Write(n) ==
  /\ clock' = clock + 1
  /\ facts' = [facts EXCEPT ![n] = [at |-> clock + 1, live |-> TRUE]]

\* remove answers whether there was a row.
Remove(n) ==
  /\ clock' = clock + 1
  /\ facts' = [facts EXCEPT ![n] = [at |-> clock + 1, live |-> FALSE]]

\* What a request for a change does, and whether it is answered with success.
Accepts(c, n) == IF c = "put" THEN MayWrite(n) ELSE n \in Listed

Applied(c, n) ==
  IF ~Accepts(c, n) THEN UNCHANGED <<facts, clock>>
  ELSE IF c = "put" THEN Write(n) ELSE Remove(n)

\* memory_write and memory_delete, the tools of a turn of any session.
ToolChanges ==
  /\ \E c \in {"put", "delete"}, n \in Names : Accepts(c, n) /\ Applied(c, n)
  /\ UNCHANGED <<panel, lookups, calls, strays, acked>>

-----------------------------------------------------------------------------
(* The panel and its queries.                                                *)

OpenPanel ==
  /\ ~panel.open
  /\ panel' = [panel EXCEPT !.open = TRUE]
  /\ lookups' = [lookups EXCEPT !["list"] = Mounted]
  /\ UNCHANGED <<facts, clock, calls, strays, acked>>

ClosePanel ==
  /\ panel.open
  /\ panel' = [open |-> FALSE, rows |-> {}, busy |-> [put |-> {}, delete |-> {}]]
  /\ lookups' = [q \in DOMAIN lookups |-> Unmounted]
  /\ UNCHANGED <<facts, clock, calls, strays, acked>>

\* A row that the list on screen has.
Shown(n) == lookups["list"].state = "success" /\ lookups["list"].value[n].live

Expand(n) ==
  /\ Shown(n) /\ n \notin panel.rows
  /\ panel' = [panel EXCEPT !.rows = @ \cup {n}]
  /\ lookups' = [lookups EXCEPT ![n] = Mounted]
  /\ UNCHANGED <<facts, clock, calls, strays, acked>>

Collapse(n) ==
  /\ n \in panel.rows
  /\ panel' = [panel EXCEPT !.rows = @ \ {n}, !.busy.put = @ \ {n}]
  /\ lookups' = [lookups EXCEPT ![n] = Unmounted]
  /\ UNCHANGED <<facts, clock, calls, strays, acked>>

RetryLookup(q) ==
  /\ lookups[q].state = "failure" /\ ~lookups[q].sent
  /\ lookups' = [lookups EXCEPT ![q] = Refreshed(@)]
  /\ UNCHANGED <<facts, clock, panel, calls, strays, acked>>

\* A row that the new list has not is gone; the others stay as they are.
ListDelivered ==
  /\ lookups["list"].sent
  /\ LET rows == panel.rows \cap Listed IN
     /\ panel' = [panel EXCEPT !.rows = rows, !.busy = [put |-> @.put \cap (rows \cup {"form"}),
                                                        delete |-> @.delete \cap Listed]]
     /\ lookups' = [q \in DOMAIN lookups |->
                      IF q = "list" THEN Delivered(facts)
                      ELSE IF q \in rows THEN lookups[q] ELSE Unmounted]
  /\ UNCHANGED <<facts, clock, calls, strays, acked>>

EntryDelivered(n) ==
  /\ lookups[n].sent
  /\ lookups' = [lookups EXCEPT ![n] = IF n \in Listed THEN Delivered(facts[n].at) ELSE Failed]
  /\ panel' = IF n \in Listed THEN panel ELSE [panel EXCEPT !.busy.put = @ \ {n}]
  /\ UNCHANGED <<facts, clock, calls, strays, acked>>

\* An alert replaces the list, and all rows, or the editor of a row.
LookupFails(q) ==
  /\ lookups[q].sent
  /\ IF q = "list"
       THEN /\ lookups' = [r \in DOMAIN lookups |-> IF r = q THEN Failed ELSE Unmounted]
            /\ panel' = [panel EXCEPT !.rows = {}, !.busy.put = @ \cap {"form"}, !.busy.delete = {}]
       ELSE /\ lookups' = [lookups EXCEPT ![q] = Failed]
            /\ panel' = [panel EXCEPT !.busy.put = @ \ {q}]
  /\ UNCHANGED <<facts, clock, calls, strays, acked>>

-----------------------------------------------------------------------------
(* The changes a user makes.                                                 *)

\* A call of a mutation atom leaves the one under way to itself: its caller
\* is answered with the new one, its request may still reach the server.
Call(c, n, by) ==
  /\ panel' = [panel EXCEPT !.busy[c] = @ \cup {by}]
  /\ calls' = [calls EXCEPT ![c] =
                 [pc |-> "sent", name |-> n, by |-> by, callers |-> @.callers \cup {by}]]
  /\ strays' = IF calls[c].pc = "sent" THEN strays \cup {<<c, calls[c].name>>} ELSE strays
  /\ UNCHANGED <<facts, clock, lookups, acked>>

Save(n) ==
  n \in panel.rows /\ lookups[n].state = "success" /\ n \notin panel.busy.put /\ Call("put", n, n)

\* The form takes any name, also one the list has.
Add(n) == panel.open /\ "form" \notin panel.busy.put /\ Call("put", n, "form")

Delete(n) == Shown(n) /\ n \notin panel.busy.delete /\ Call("delete", n, n)

\* Mutant: a save refreshes the list only.
RefreshListOnly(c, callers) ==
  [q \in DOMAIN lookups |->
     IF lookups[q].state # "none" /\ q = "list" THEN Refreshed(lookups[q]) ELSE lookups[q]]

\* onSaved and onChanged of the callers: the list is fetched again, and after
\* a save the entry of the row.
OnChanged(c, callers) ==
  [q \in DOMAIN lookups |->
     IF lookups[q].state # "none" /\ (q = "list" \/ (c = "put" /\ q \in callers))
       THEN Refreshed(lookups[q]) ELSE lookups[q]]

\* The answer is that of the last call, for all its callers.
CallAnswered(c) ==
  /\ calls[c].pc = "sent"
  /\ Applied(c, calls[c].name)
  /\ calls' = [calls EXCEPT ![c] = NoCall]
  /\ panel' = [panel EXCEPT !.busy[c] = @ \ calls[c].callers]
  /\ IF Accepts(c, calls[c].name)
       THEN /\ lookups' = OnChanged(c, calls[c].callers)
            /\ acked' = [acked EXCEPT ![calls[c].name] =
                           [any |-> clock',
                            row |-> IF c = "put" /\ calls[c].by # "form" THEN clock' ELSE @.row]]
       ELSE UNCHANGED <<lookups, acked>>
  /\ UNCHANGED strays

\* The answer is lost, after the change or before it: the callers see a failure.
CallFails(c) ==
  /\ calls[c].pc = "sent"
  /\ Applied(c, calls[c].name) \/ UNCHANGED <<facts, clock>>
  /\ calls' = [calls EXCEPT ![c] = NoCall]
  /\ panel' = [panel EXCEPT !.busy[c] = @ \ calls[c].callers]
  /\ UNCHANGED <<lookups, strays, acked>>

StrayLands ==
  /\ \E r \in strays : Applied(r[1], r[2]) /\ strays' = strays \ {r}
  /\ UNCHANGED <<panel, lookups, calls, acked>>

-----------------------------------------------------------------------------

PanelUser ==
  \/ OpenPanel \/ ClosePanel
  \/ \E n \in Names : Expand(n) \/ Collapse(n) \/ Save(n) \/ Add(n) \/ Delete(n)
  \/ \E q \in DOMAIN lookups : RetryLookup(q)

PanelFaults ==
  \/ \E q \in DOMAIN lookups : LookupFails(q)
  \/ \E c \in DOMAIN calls : CallFails(c)

PanelSteps ==
  \/ ListDelivered \/ StrayLands
  \/ \E n \in Names : EntryDelivered(n)
  \/ \E c \in DOMAIN calls : CallAnswered(c)

-----------------------------------------------------------------------------
(* Properties.                                                               *)

\* Once the panel awaits nothing, its list is not older than any change it was
\* answered for, and an open row not older than what was last saved from it:
\* whatever else was under way, was left, was late or failed meanwhile.
ReadYourWrites ==
  /\ \A c \in DOMAIN calls : calls[c].pc = "idle"
  /\ Settled(lookups["list"])
  => \A n \in Names :
       /\ lookups["list"].value[n].at >= acked[n].any
       /\ n \in panel.rows /\ Settled(lookups[n]) => lookups[n].value >= acked[n].row
=============================================================================
