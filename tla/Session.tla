------------------------------- MODULE Session -------------------------------
(* The life of a session: messages register it and arm its reaper, close and *)
(* reset wipe it, the reaper closes it when it is idle (Agent.ts appendEvents,*)
(* #touchActivity, close, reset, alarm), the registry lists it (Registry.ts) *)
(* and closing archives its journal (Archive.ts, ArchiveStore.ts).  A session*)
(* without scheduled jobs: module Scheduler has those.  The object's code is *)
(* interrupted only where it awaits another object, R2 or a container.       *)
EXTENDS Integers, Sequences, FiniteSets, SequencesExt

CONSTANTS
  Writers,     \* the user messages that may arrive
  Closers,     \* the DELETE requests that may arrive
  Reaper,      \* the alarm handler
  Faults,      \* what may go wrong, a subset of FaultKinds
  MaxFaults    \* bound: how often

FaultKinds == {"registry", "archive", "evict"}

ASSUME SessionAssumption ==
  /\ IsFiniteSet(Writers) /\ IsFiniteSet(Closers) /\ Reaper \notin Closers
  /\ Faults \subseteq FaultKinds /\ MaxFaults \in Nat

VARIABLES
  rows,       \* the journal: user messages and session-closed
  next,       \* the sequence number of its next row
  armed,      \* reapAt is stored and the alarm set to it
  listed,     \* the registry has the session
  writers,    \* per message, how far appendEvents is
  closers,    \* per close, reset or reap, how far it is
  archives,   \* the journals archived, by the time of their close
  closes,     \* closes begun, the clock of closedAt
  faults,     \* faults so far
  broken,     \* history: a fault, and no message served in full since
  purged      \* history: messages wiped by an archiving close

vars == <<rows, next, armed, listed, writers, closers, archives, closes,
          faults, broken, purged>>

AllClosers == Closers \cup {Reaper}

NotClosing == [pc |-> "idle", mode |-> "none", at |-> 0, upto |-> 0, copy |-> <<>>]

Init ==
  /\ rows = <<>> /\ next = 1 /\ armed = FALSE /\ listed = FALSE
  /\ writers = [w \in Writers |-> [pc |-> "idle", sound |-> FALSE]]
  /\ closers = [k \in AllClosers |-> NotClosing]
  /\ archives = {} /\ closes = 0 /\ faults = 0 /\ broken = FALSE /\ purged = {}

\* A fault of kind f happens: no message under way makes up for it.
Fault(f) ==
  /\ f \in Faults /\ faults < MaxFaults /\ faults' = faults + 1
  /\ broken' = TRUE

AppendRow(tag) == rows' = Append(rows, [seq |-> next, tag |-> tag]) /\ next' = next + 1

-----------------------------------------------------------------------------
(* appendEvents with a user message.                                         *)

ClosingSide == <<closers, archives, closes, purged>>

\* The row is inserted and the registry is called.
Insert(w) ==
  /\ writers[w].pc = "idle"
  /\ AppendRow("user")
  /\ writers' = [writers EXCEPT ![w] = [pc |-> "register", sound |-> TRUE]]
  /\ UNCHANGED <<armed, listed, faults, broken, ClosingSide>>

\* Registry.register: an upsert.
Register(w) ==
  /\ writers[w].pc = "register"
  /\ listed' = TRUE
  /\ writers' = [writers EXCEPT ![w].pc = "touch"]
  /\ UNCHANGED <<rows, next, armed, faults, broken, ClosingSide>>

\* The call fails and is logged.
RegisterFails(w) ==
  /\ writers[w].pc = "register" /\ Fault("registry")
  /\ writers' = [v \in Writers |->
       IF v = w THEN [writers[w] EXCEPT !.pc = "touch", !.sound = FALSE]
       ELSE [writers[v] EXCEPT !.sound = FALSE]]
  /\ UNCHANGED <<rows, next, armed, listed, ClosingSide>>

\* Mutant: only a session with messages left gets a reaper.
TouchIfKept(w) ==
  /\ writers[w].pc = "touch"
  /\ armed' = (armed \/ rows # <<>>)
  /\ writers' = [writers EXCEPT ![w].pc = "done"]
  /\ broken' = (broken /\ ~writers[w].sound)
  /\ UNCHANGED <<rows, next, listed, faults, ClosingSide>>

\* #touchActivity, and the append is acknowledged.
Touch(w) ==
  /\ writers[w].pc = "touch"
  /\ armed' = TRUE
  /\ writers' = [writers EXCEPT ![w].pc = "done"]
  /\ broken' = (broken /\ ~writers[w].sound)
  /\ UNCHANGED <<rows, next, listed, faults, ClosingSide>>

-----------------------------------------------------------------------------
(* close and reset.                                                          *)

WritingSide == <<writers, listed>>

Becomes(k, c) == closers' = [closers EXCEPT ![k] = c]

\* close in one of its modes, or reset: the first wait of each.
Delete(k) ==
  /\ k \in Closers /\ closers[k].pc = "idle" /\ closes' = closes + 1
  /\ \E mode \in {"archive", "purge", "reset"} :
       Becomes(k, [NotClosing EXCEPT !.mode = mode, !.at = closes + 1,
         !.pc = CASE mode = "archive" -> "flush"
                  [] mode = "purge" -> "destroy"
                  [] OTHER -> "wipe"])
  /\ UNCHANGED <<rows, next, armed, WritingSide, archives, faults, broken, purged>>

\* alarm(), no job due and none stored: the idle session is closed.
Alarm ==
  /\ armed /\ closers[Reaper].pc = "idle"
  /\ armed' = FALSE /\ closes' = closes + 1
  /\ Becomes(Reaper, [NotClosing EXCEPT !.mode = "archive", !.at = closes + 1,
                                        !.pc = "flush"])
  /\ UNCHANGED <<rows, next, WritingSide, archives, faults, broken, purged>>

\* The workspace is flushed, or not; session-closed is journaled and the
\* journal read in one step.
Copy(k) ==
  /\ closers[k].pc = "flush"
  /\ AppendRow("closed")
  /\ Becomes(k, [closers[k] EXCEPT !.pc = "put", !.upto = next, !.copy = rows'])
  /\ UNCHANGED <<armed, WritingSide, archives, closes, faults, broken, purged>>

\* Mutant: a session has one archive, the last.
PutOverwrites(k) ==
  /\ closers[k].pc = "put"
  /\ archives' = {[at |-> closers[k].at, rows |-> closers[k].copy]}
  /\ Becomes(k, [closers[k] EXCEPT !.pc = "destroy"])
  /\ UNCHANGED <<rows, next, armed, WritingSide, closes, faults, broken, purged>>

\* The archive is written to R2, or the write fails and is logged.
Put(k) ==
  /\ closers[k].pc = "put"
  /\ \/ /\ archives' = archives \cup {[at |-> closers[k].at, rows |-> closers[k].copy]}
        /\ UNCHANGED <<faults, broken>>
     \/ Fault("archive") /\ UNCHANGED archives
  /\ Becomes(k, [closers[k] EXCEPT !.pc = "destroy"])
  /\ UNCHANGED <<rows, next, armed, WritingSide, closes, purged>>

\* The container is destroyed, or not.
Destroy(k) ==
  /\ closers[k].pc = "destroy"
  /\ Becomes(k, [closers[k] EXCEPT !.pc = "wipe"])
  /\ UNCHANGED <<rows, next, armed, WritingSide, archives, closes, faults, broken, purged>>

Purges(k) ==
  purged' = purged \cup
    (IF closers[k].mode # "archive" THEN {}
     ELSE {[row |-> row, late |-> row.seq > closers[k].upto] :
            row \in {row \in ToSet(rows) : row.tag = "user"}})

\* #wipeStorage up to the registry call.
Wipe(k) ==
  /\ closers[k].pc = "wipe"
  /\ rows' = <<>> /\ armed' = FALSE /\ Purges(k)
  /\ Becomes(k, [closers[k] EXCEPT !.pc = "unregister", !.copy = <<>>])
  /\ UNCHANGED <<next, WritingSide, archives, closes, faults, broken>>

Finishes(k) ==
  Becomes(k, IF k = Reaper THEN NotClosing ELSE [NotClosing EXCEPT !.pc = "done"])

\* Mutant: the alarm is deleted last.
UnregisterThenDisarm(k) ==
  /\ closers[k].pc = "unregister"
  /\ listed' = FALSE /\ armed' = FALSE
  /\ Finishes(k)
  /\ UNCHANGED <<rows, next, writers, archives, closes, faults, broken, purged>>

\* Registry.unregister; the workspace object is deleted, and a reset resets the
\* container (module Workspace).
Unregister(k) ==
  /\ closers[k].pc = "unregister"
  /\ listed' = FALSE
  /\ Finishes(k)
  /\ UNCHANGED <<rows, next, armed, writers, archives, closes, faults, broken, purged>>

UnregisterFails(k) ==
  /\ closers[k].pc = "unregister" /\ Fault("registry")
  /\ writers' = [v \in Writers |-> [writers[v] EXCEPT !.sound = FALSE]]
  /\ Finishes(k)
  /\ UNCHANGED <<rows, next, armed, listed, archives, closes, purged>>

\* The isolate is gone with every request in it; a call under way may still
\* arrive, and an alarm handler that did not return is run again.
Evict ==
  /\ Fault("evict")
  /\ listed' \in {listed}
       \cup {TRUE : w \in {w \in Writers : writers[w].pc = "register"}}
       \cup {FALSE : k \in {k \in AllClosers : closers[k].pc = "unregister"}}
  /\ armed' = (armed \/ closers[Reaper].pc # "idle")
  /\ writers' = [w \in Writers |->
       [writers[w] EXCEPT !.sound = FALSE,
                          !.pc = IF @ \in {"register", "touch"} THEN "lost" ELSE @]]
  /\ closers' = [k \in AllClosers |->
       IF closers[k].pc = "idle" THEN closers[k]
       ELSE IF k = Reaper THEN NotClosing ELSE [NotClosing EXCEPT !.pc = "done"]]
  /\ UNCHANGED <<rows, next, archives, closes, purged>>

WriterStep(w) == Register(w) \/ Touch(w)
CloserStep(k) == Copy(k) \/ Put(k) \/ Destroy(k) \/ Wipe(k) \/ Unregister(k)

Next ==
  \/ \E w \in Writers : Insert(w) \/ WriterStep(w) \/ RegisterFails(w)
  \/ \E k \in AllClosers : Delete(k) \/ CloserStep(k) \/ UnregisterFails(k)
  \/ Alarm \/ Evict

Spec == Init /\ [][Next]_vars

\* Requests go on until they are answered; the clients fall silent in the end,
\* and an alarm that stays set goes off.
FairSpec ==
  /\ Spec
  /\ \A w \in Writers : WF_vars(WriterStep(w))
  /\ \A k \in AllClosers : WF_vars(CloserStep(k))
  /\ WF_vars(Alarm)

-----------------------------------------------------------------------------
(* Properties.                                                               *)

InAnArchive(row) == \E a \in archives : row \in ToSet(a.rows)

\* A close that archives, the reaper's included, loses no message journaled
\* before its session-closed row, whatever other closes and messages come in
\* between or later, unless an archive could not be written (Agent.ts close).
OnlyLatecomersAreLost ==
  \A p \in purged : p.late \/ InAnArchive(p.row) \/ faults > 0

\* A session that was wiped while a message was being registered does not stay
\* in the registry: the message has armed the reaper, whose close removes it
\* (Agent.ts appendEvents, #wipeStorage).
GhostsGo == listed /\ rows = <<>> ~> ~listed \/ rows # <<>> \/ broken

\* A session nobody writes to any more is wiped in the end (Agent.ts
\* #touchActivity, alarm).
IdleSessionsAreReaped == rows # <<>> ~> rows = <<>> \/ broken
=============================================================================
