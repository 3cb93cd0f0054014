----------------------------- MODULE Workspace ------------------------------
(***************************************************************************)
(* The files of one session: the Agent's exec, writeWorkspaceFile,         *)
(* snapshotIfDirty, #promoteToScheduled, close and reset                   *)
(* (apps/api/src/Agent.ts), the server in the container                    *)
(* (apps/api/container/server.ts) and the R2 object that outlives it.      *)
(*                                                                         *)
(* The files exist three times: on the disk of the container, which sleeps *)
(* and dies on its own; as a tar on its way; and in R2.  Each call of the  *)
(* Agent is a sequence of requests to the container and to R2, between     *)
(* which the other calls go on.  A request takes effect and is answered in *)
(* one step.  A file is abstracted to the number of the write its contents *)
(* come from, 0 when there is no such file, so contents compare by age.    *)
(***************************************************************************)
EXTENDS Integers, Sequences

CONSTANTS
  Clients,    \* who calls the Agent, one call at a time each
  May,        \* the kinds of call each client makes
  Files,      \* file names
  Faults,     \* the kinds of fault a run explores
  MaxOps,     \* bound on calls
  MaxFaults   \* bound on faults

Kinds == {"exec", "turnEnd", "upload", "promote", "archive", "purge", "reset"}

FaultKinds == {"hydrate", "command", "upload", "snapshot", "copy", "destroy",
               "wipe", "clear", "sleep", "crash", "evict"}

ASSUME WorkspaceAssumption ==
  /\ May \in [Clients -> SUBSET Kinds]
  /\ Faults \subseteq FaultKinds
  /\ MaxOps \in Nat
  /\ MaxFaults \in Nat

VARIABLES
  disk,      \* /workspace in the container
  hydrated,  \* `hydrated`, in the memory of the container's server
  r2,        \* workspaces/<name>.tar.gz; all zero when there is no object
  copies,    \* the last promoted and the last archived copy of it
  dirty,     \* workspaceDirty, in the durable object's storage
  hydrating, \* #hydrating, in memory: where it awaits and the body it read
  chain,     \* #snapshotChain, in memory: the calls linked into it
  call,      \* the call in flight of each client
  version,   \* writes so far
  wrote,     \* observed: what each client's commands wrote and no death erased
  owed,      \* observed: what a finished upload or turn end has promised
  ops, faults

vars == <<disk, hydrated, r2, copies, dirty, hydrating, chain, call, version,
          wrote, owed, ops, faults>>

Contents == [Files -> Nat]
Empty == [f \in Files |-> 0]
Unseen == [c \in Clients |-> Empty]

\* Every file of a is at least as recent in b.
AsRecent(a, b) == \A f \in Files : a[f] <= b[f]

NoFile == "none"

NoCall == [kind |-> "none", pc |-> "idle", file |-> NoFile, ver |-> 0,
           bytes |-> Empty, seen |-> Unseen]

NotHydrating == [phase |-> "none", body |-> Empty]

PCs == {"idle", "hydrate", "run", "upload", "snapshot", "put", "copy",
        "destroy", "wipe", "clear"}

CallType == [kind: Kinds \cup {"none"}, pc: PCs, file: Files \cup {NoFile},
             ver: Nat, bytes: Contents, seen: [Clients -> Contents]]

Init ==
  /\ disk = Empty
  /\ hydrated = FALSE
  /\ r2 = Empty
  /\ copies = [k \in {"promote", "archive"} |-> Empty]
  /\ dirty = FALSE
  /\ hydrating = NotHydrating
  /\ chain = <<>>
  /\ call = [c \in Clients |-> NoCall]
  /\ version = 0
  /\ wrote = Unseen
  /\ owed = [k \in {"upload", "turnEnd"} |-> Empty]
  /\ ops = 0
  /\ faults = 0

container == <<disk, hydrated>>
observed == <<wrote, owed>>

-----------------------------------------------------------------------------
(* Calls                                                                   *)

Request(c, kind) ==
  /\ kind \in May[c]
  /\ call[c].pc = "idle"
  /\ ops < MaxOps
  /\ ops' = ops + 1
  /\ UNCHANGED faults

Fault(kind) ==
  /\ kind \in Faults
  /\ faults < MaxFaults
  /\ faults' = faults + 1
  /\ UNCHANGED ops

NoFault == UNCHANGED <<ops, faults>>

Goto(c, pc) == call' = [call EXCEPT ![c].pc = pc]
Return(c) == call' = [call EXCEPT ![c] = NoCall]

\* A copy is held to what every client's commands had written when it was
\* asked for.
Start(c, kind, pc, f) ==
  call' = [call EXCEPT ![c] = [NoCall EXCEPT !.kind = kind, !.pc = pc, !.file = f,
             !.seen = IF kind \in {"promote", "archive"} THEN wrote ELSE Unseen]]

\* The promise a call makes by returning: an upload that its file is durable,
\* a turn end that what the turn's commands wrote is.
Promised(c, kind) ==
  LET what == IF kind = "upload" THEN [Empty EXCEPT ![call[c].file] = call[c].ver]
                                 ELSE wrote[c]
  IN  [owed EXCEPT ![kind] = [f \in Files |-> IF what[f] > @[f] THEN what[f] ELSE @[f]]]

-----------------------------------------------------------------------------
(* Hydration                                                               *)

\* Mutant: a call that finds a hydration in flight does not wait for it.
EnterUnwaiting(c, kind, f) ==
  /\ Start(c, kind, IF hydrating.phase = "none" THEN "hydrate"
                    ELSE IF kind = "exec" THEN "run" ELSE "upload", f)
  /\ hydrating' = IF hydrating.phase = "none"
                  THEN [NotHydrating EXCEPT !.phase = "status"] ELSE hydrating

\* #ensureHydrated: join the hydration in flight or start one.
Enter(c, kind, f) ==
  /\ Start(c, kind, "hydrate", f)
  /\ hydrating' = IF hydrating.phase = "none"
                  THEN [NotHydrating EXCEPT !.phase = "status"] ELSE hydrating

Exec(c) ==
  /\ Request(c, "exec")
  /\ \E f \in Files : Enter(c, "exec", f)
  /\ UNCHANGED <<container, r2, copies, dirty, chain, version, observed>>

Upload(c) ==
  /\ Request(c, "upload")
  /\ \E f \in Files : Enter(c, "upload", f)
  /\ UNCHANGED <<container, r2, copies, dirty, chain, version, observed>>

Waiting(c) == call[c].pc = "hydrate"

\* #hydrating settles and every call that waits for it goes on: a command marks
\* the workspace dirty before it is sent.
Settle ==
  /\ hydrating' = NotHydrating
  /\ dirty' = (dirty \/ \E c \in Clients : Waiting(c) /\ call[c].kind = "exec")
  /\ call' = [c \in Clients |->
                IF Waiting(c)
                THEN [call[c] EXCEPT !.pc = IF call[c].kind = "exec"
                                            THEN "run" ELSE "upload"]
                ELSE call[c]]

\* GET /status
StatusAnswered ==
  /\ hydrating.phase = "status"
  /\ IF hydrated THEN Settle
     ELSE /\ hydrating' = [hydrating EXCEPT !.phase = "read"]
          /\ UNCHANGED <<dirty, call>>
  /\ NoFault
  /\ UNCHANGED <<container, r2, copies, chain, version, observed>>

\* SESSIONS.get
ObjectRead ==
  /\ hydrating.phase = "read"
  /\ hydrating' = [phase |-> "restore", body |-> r2]
  /\ NoFault
  /\ UNCHANGED <<container, r2, copies, dirty, chain, call, version, observed>>

\* POST /restore: tar -xzf over whatever is there.
Restored ==
  /\ hydrating.phase = "restore"
  /\ disk' = [f \in Files |-> IF hydrating.body[f] # 0 THEN hydrating.body[f]
                                                       ELSE disk[f]]
  /\ hydrated' = TRUE
  /\ Settle
  /\ NoFault
  /\ UNCHANGED <<r2, copies, chain, version, observed>>

\* Mutant: the calls go on all the same.
HydrationErrorIgnored ==
  /\ hydrating.phase # "none"
  /\ Fault("hydrate")
  /\ Settle
  /\ UNCHANGED <<container, r2, copies, chain, version, observed>>

\* A request of #hydrate fails: every call that waits for it fails.
HydrationFails ==
  /\ hydrating.phase # "none"
  /\ Fault("hydrate")
  /\ hydrating' = NotHydrating
  /\ call' = [c \in Clients |-> IF Waiting(c) THEN NoCall ELSE call[c]]
  /\ UNCHANGED <<container, r2, copies, dirty, chain, version, observed>>

-----------------------------------------------------------------------------
(* Writing files                                                           *)

Write(f) ==
  /\ version' = version + 1
  /\ disk' = [disk EXCEPT ![f] = version + 1]
  /\ UNCHANGED hydrated

\* POST /exec
CommandRuns(c) ==
  /\ call[c].pc = "run"
  /\ Write(call[c].file)
  /\ wrote' = [wrote EXCEPT ![c][call[c].file] = version + 1]
  /\ Return(c)
  /\ NoFault
  /\ UNCHANGED <<r2, copies, dirty, hydrating, chain, owed>>

\* The request does not reach the container, or the command writes nothing.
CommandFails(c) ==
  /\ call[c].pc = "run"
  /\ Fault("command")
  /\ Return(c)
  /\ UNCHANGED <<container, r2, copies, dirty, hydrating, chain, version, observed>>

\* Mutant: the upload snapshots through snapshotIfDirty.
UploadedIfDirty(c) ==
  /\ call[c].pc = "upload"
  /\ Write(call[c].file)
  /\ IF dirty THEN /\ call' = [call EXCEPT ![c].pc = "snapshot", ![c].ver = version + 1]
                   /\ chain' = Append(chain, c)
                   /\ UNCHANGED owed
     ELSE /\ Return(c)
          /\ owed' = [owed EXCEPT !["upload"][call[c].file] = version + 1]
          /\ UNCHANGED chain
  /\ dirty' = FALSE
  /\ NoFault
  /\ UNCHANGED <<r2, copies, hydrating, wrote>>

\* Mutant: the upload takes the dirty mark for its own snapshot.
UploadedClean(c) ==
  /\ call[c].pc = "upload"
  /\ Write(call[c].file)
  /\ call' = [call EXCEPT ![c].pc = "snapshot", ![c].ver = version + 1]
  /\ chain' = Append(chain, c)
  /\ dirty' = FALSE
  /\ NoFault
  /\ UNCHANGED <<r2, copies, hydrating, observed>>

\* POST /upload, then the forced snapshot joins the chain.
Uploaded(c) ==
  /\ call[c].pc = "upload"
  /\ Write(call[c].file)
  /\ call' = [call EXCEPT ![c].pc = "snapshot", ![c].ver = version + 1]
  /\ chain' = Append(chain, c)
  /\ NoFault
  /\ UNCHANGED <<r2, copies, dirty, hydrating, observed>>

UploadFails(c) ==
  /\ call[c].pc = "upload"
  /\ Fault("upload")
  /\ Return(c)
  /\ UNCHANGED <<container, r2, copies, dirty, hydrating, chain, version, observed>>

-----------------------------------------------------------------------------
(* Snapshots                                                               *)

\* Where a call goes after its snapshot: #promoteToScheduled and close() copy
\* the object, the others return.
AfterSnapshot(kind) == IF kind \in {"promote", "archive"} THEN "copy" ELSE "idle"

\* snapshotIfDirty: nothing to do, or clear the mark and join the chain.
SnapshotIfDirty(c, kind) ==
  /\ Request(c, kind)
  /\ Start(c, kind, IF dirty THEN "snapshot" ELSE "copy", NoFile)
  /\ chain' = IF dirty THEN Append(chain, c) ELSE chain
  /\ dirty' = FALSE
  /\ UNCHANGED <<container, r2, copies, hydrating, version, observed>>

\* snapshotWorkspace, the end of a turn.
TurnEnds(c) == dirty /\ SnapshotIfDirty(c, "turnEnd")

TurnEndsClean(c) ==
  /\ ~dirty
  /\ Request(c, "turnEnd")
  /\ owed' = Promised(c, "turnEnd")
  /\ wrote' = [wrote EXCEPT ![c] = Empty]
  /\ UNCHANGED <<container, r2, copies, dirty, hydrating, chain, call, version>>

\* Mutant: the object is taken to be current.
PromoteStored(c) ==
  /\ Request(c, "promote")
  /\ Start(c, "promote", "copy", NoFile)
  /\ UNCHANGED <<container, r2, copies, dirty, hydrating, chain, version, observed>>

Promote(c) == SnapshotIfDirty(c, "promote")
Archive(c) == SnapshotIfDirty(c, "archive")

\* Mutant: every snapshot in the chain may go on.
AnyTurn(c) == call[c].pc \in {"snapshot", "put"}

\* The chain lets one tar and PUT through at a time.
HasTurn(c) == chain # <<>> /\ Head(chain) = c

\* GET /snapshot answers 409 until a restore.
MaySnapshot == hydrated

Tarred(c) ==
  /\ HasTurn(c)
  /\ call[c].pc = "snapshot"
  /\ MaySnapshot
  /\ call' = [call EXCEPT ![c].pc = "put", ![c].bytes = disk]
  /\ NoFault
  /\ UNCHANGED <<container, r2, copies, dirty, hydrating, chain, version, observed>>

\* SESSIONS.put
Stored(c) ==
  /\ HasTurn(c)
  /\ call[c].pc = "put"
  /\ r2' = call[c].bytes
  /\ chain' = Tail(chain)
  /\ IF AfterSnapshot(call[c].kind) = "copy"
     THEN Goto(c, "copy") /\ UNCHANGED <<owed, wrote>>
     ELSE /\ Return(c)
          /\ owed' = Promised(c, call[c].kind)
          /\ wrote' = IF call[c].kind = "upload" THEN wrote
                      ELSE [wrote EXCEPT ![c] = Empty]
  /\ NoFault
  /\ UNCHANGED <<container, copies, dirty, hydrating, version>>

\* snapshotIfDirty sets the mark again; an upload never touches it.
MarkAfterFailure(c) ==
  dirty' = IF call[c].kind = "upload" THEN dirty ELSE TRUE

\* close() goes on with the last durable workspace, and promises no more.
CopyAnyway(c) == call' = [call EXCEPT ![c].pc = "copy", ![c].seen = Unseen]

\* Mutant: the failed link never lets go of the chain.
FailureWedges(c) ==
  /\ MarkAfterFailure(c)
  /\ UNCHANGED chain
  /\ IF call[c].kind = "archive" THEN CopyAnyway(c) ELSE Return(c)
  /\ UNCHANGED <<container, r2, copies, hydrating, version, observed>>

\* The snapshot fails: close() goes on, the others throw to their caller, and
\* so does the chain.
SnapshotThrows(c) ==
  /\ MarkAfterFailure(c)
  /\ chain' = Tail(chain)
  /\ IF call[c].kind = "archive" THEN CopyAnyway(c) ELSE Return(c)
  /\ UNCHANGED <<container, r2, copies, hydrating, version, observed>>

\* 409
SnapshotRefused(c) ==
  /\ HasTurn(c)
  /\ call[c].pc = "snapshot"
  /\ ~MaySnapshot
  /\ SnapshotThrows(c)
  /\ NoFault

SnapshotFails(c) ==
  /\ HasTurn(c)
  /\ call[c].pc \in {"snapshot", "put"}
  /\ Fault("snapshot")
  /\ SnapshotThrows(c)

-----------------------------------------------------------------------------
(* Promotion, closing and resetting                                        *)

\* The object is read and put under its new key.
Copied(c) ==
  /\ call[c].pc = "copy"
  /\ copies' = [copies EXCEPT ![call[c].kind] = r2]
  /\ IF call[c].kind = "archive" THEN Goto(c, "destroy") ELSE Return(c)
  /\ NoFault
  /\ UNCHANGED <<container, r2, dirty, hydrating, chain, version, observed>>

\* A promotion throws; close() goes on without the archive.
CopyFails(c) ==
  /\ call[c].pc = "copy"
  /\ Fault("copy")
  /\ IF call[c].kind = "archive" THEN Goto(c, "destroy") ELSE Return(c)
  /\ UNCHANGED <<container, r2, copies, dirty, hydrating, chain, version, observed>>

\* close({mode: "purge"})
Purge(c) ==
  /\ Request(c, "purge")
  /\ Start(c, "purge", "destroy", NoFile)
  /\ UNCHANGED <<container, r2, copies, dirty, hydrating, chain, version, observed>>

\* The container and everything on its disk are gone.
ContainerDies ==
  /\ disk' = Empty
  /\ hydrated' = FALSE
  /\ wrote' = Unseen

\* destroyContainer, then the part of #wipeStorage before its awaits.
Destroyed(c) ==
  /\ call[c].pc = "destroy"
  /\ ContainerDies
  /\ dirty' = FALSE
  /\ Goto(c, "wipe")
  /\ NoFault
  /\ UNCHANGED <<r2, copies, hydrating, chain, version, owed>>

DestroyFails(c) ==
  /\ call[c].pc = "destroy"
  /\ Fault("destroy")
  /\ dirty' = FALSE
  /\ Goto(c, "wipe")
  /\ UNCHANGED <<container, r2, copies, hydrating, chain, version, observed>>

\* reset, up to the first await of #wipeStorage.
Reset(c) ==
  /\ Request(c, "reset")
  /\ Start(c, "reset", "wipe", NoFile)
  /\ dirty' = FALSE
  /\ UNCHANGED <<container, r2, copies, hydrating, chain, version, observed>>

\* A reset goes on to the container; close() returns.
AfterWipe(c) ==
  IF call[c].kind = "reset" THEN Goto(c, "clear") ELSE Return(c)

\* SESSIONS.delete
Wiped(c) ==
  /\ call[c].pc = "wipe"
  /\ r2' = Empty
  /\ owed' = [k \in {"upload", "turnEnd"} |-> Empty]
  /\ AfterWipe(c)
  /\ NoFault
  /\ UNCHANGED <<container, copies, dirty, hydrating, chain, version, wrote>>

WipeFails(c) ==
  /\ call[c].pc = "wipe"
  /\ Fault("wipe")
  /\ AfterWipe(c)
  /\ UNCHANGED <<container, r2, copies, dirty, hydrating, chain, version, wrote, owed>>

\* POST /reset
Cleared(c) ==
  /\ call[c].pc = "clear"
  /\ ContainerDies
  /\ Return(c)
  /\ NoFault
  /\ UNCHANGED <<r2, copies, dirty, hydrating, chain, version, owed>>

\* The failure is logged and the reset returns.
ClearFails(c) ==
  /\ call[c].pc = "clear"
  /\ Fault("clear")
  /\ Return(c)
  /\ UNCHANGED <<container, r2, copies, dirty, hydrating, chain, version, wrote, owed>>

-----------------------------------------------------------------------------
(* The platform                                                            *)

\* sleepAfter: idle for a minute, the container stops.
Sleep ==
  /\ Fault("sleep")
  /\ \A c \in Clients : call[c].pc = "idle"
  /\ hydrating.phase = "none"
  /\ hydrated
  /\ ContainerDies
  /\ UNCHANGED <<r2, copies, dirty, hydrating, chain, call, version, owed>>

\* The container dies at any moment.
Crash ==
  /\ Fault("crash")
  /\ ContainerDies
  /\ UNCHANGED <<r2, copies, dirty, hydrating, chain, call, version, owed>>

\* The durable object loses its memory and the calls in it.
Evict ==
  /\ Fault("evict")
  /\ hydrating' = NotHydrating
  /\ chain' = <<>>
  /\ call' = [c \in Clients |-> NoCall]
  /\ UNCHANGED <<container, r2, copies, dirty, version, observed>>

Requests(c) ==
  \/ Exec(c) \/ Upload(c) \/ TurnEnds(c) \/ TurnEndsClean(c)
  \/ Promote(c) \/ Archive(c) \/ Purge(c) \/ Reset(c)

HydrationAnswers == StatusAnswered \/ ObjectRead \/ Restored

Answers(c) ==
  \/ CommandRuns(c) \/ Uploaded(c)
  \/ Tarred(c) \/ Stored(c) \/ SnapshotRefused(c)
  \/ Copied(c) \/ Destroyed(c) \/ Wiped(c) \/ Cleared(c)

Failures(c) ==
  \/ CommandFails(c) \/ UploadFails(c) \/ SnapshotFails(c) \/ CopyFails(c)
  \/ DestroyFails(c) \/ WipeFails(c) \/ ClearFails(c)

Next ==
  \/ \E c \in Clients : Requests(c) \/ Answers(c) \/ Failures(c)
  \/ HydrationAnswers
  \/ HydrationFails
  \/ Sleep
  \/ Crash
  \/ Evict

Spec == Init /\ [][Next]_vars

\* Every request to the container or to R2 is answered.
FairSpec ==
  /\ Spec
  /\ WF_vars(HydrationAnswers)
  /\ \A c \in Clients : WF_vars(Answers(c))

-----------------------------------------------------------------------------
(* Properties                                                              *)

\* What a call that awaits something must be.
CallShape(k) ==
  /\ k.pc = "idle" => k = NoCall
  /\ k.pc = "hydrate" => k.kind \in {"exec", "upload"} /\ k.file \in Files
  /\ k.pc = "run" => k.kind = "exec" /\ k.file \in Files
  /\ k.pc = "upload" => k.kind = "upload" /\ k.file \in Files
  /\ k.pc \in {"snapshot", "put"} =>
       \/ k.kind \in {"turnEnd", "promote", "archive"}
       \/ k.kind = "upload" /\ k.file \in Files
  /\ k.pc = "copy" => k.kind \in {"promote", "archive"}
  /\ k.pc \in {"destroy", "wipe", "clear"} => k.kind \in {"archive", "purge", "reset"}

\* Every variable keeps its type, and a call awaits only what its method awaits.
TypeOK ==
  /\ disk \in Contents
  /\ hydrated \in BOOLEAN
  /\ r2 \in Contents
  /\ copies \in [{"promote", "archive"} -> Contents]
  /\ dirty \in BOOLEAN
  /\ hydrating \in [phase: {"none", "status", "read", "restore"}, body: Contents]
  /\ chain \in Seq(Clients)
  /\ call \in [Clients -> CallType]
  /\ \A c \in Clients : CallShape(call[c])
  /\ version \in Nat
  /\ wrote \in [Clients -> Contents]
  /\ owed \in [{"upload", "turnEnd"} -> Contents]
  /\ ops \in 0 .. MaxOps
  /\ faults \in 0 .. MaxFaults

\* Outside a wipe no step stores an older file over a newer one, or drops one:
\* no stale tar clobbers a fresher object, and no container that was never
\* restored is snapshotted over a good one (#snapshotWorkspaceToR2, the 409 of
\* handleSnapshot).
R2NeverRegresses ==
  [][(\A c \in Clients : call[c].pc # "wipe") => AsRecent(r2, r2')]_vars

\* As long as the container lives no step puts an older file over a newer one:
\* concurrent commands cannot have the archive restored twice (#ensureHydrated).
DiskNeverRegresses == [][hydrated' => AsRecent(disk, disk')]_vars

RanCommand(c) ==
  call[c].pc = "run" /\ call[c]' = NoCall /\ version' = version + 1

\* A command runs only in a container that holds the session's files (#hydrate:
\* restore "before any command runs").
CommandsSeeWorkspace ==
  [][\A c \in Clients : RanCommand(c) => hydrated]_vars

\* A file whose upload was answered is in R2 from then on, or a newer one of the
\* same name (writeWorkspaceFile).
UploadsAreDurable == AsRecent(owed["upload"], r2)

\* When no call is in flight, whatever commands wrote to the living container is
\* in R2 or marked dirty, so that some later turn end will save it: neither an
\* upload nor a failed or concurrent snapshot may lose the mark
\* (snapshotIfDirty, writeWorkspaceFile).
UnsavedWritesAreMarked ==
  (~dirty /\ \A c \in Clients : call[c].pc = "idle")
    => \A c \in Clients : AsRecent(wrote[c], r2)

\* A promotion, and the archive of a close whose snapshot did not fail, copy at
\* least what commands had written when it was asked for (#promoteToScheduled:
\* "the CURRENT live workspace").
CopiesAreCurrent ==
  [][\A c \in Clients :
       (call[c].pc = "copy" /\ copies' = [copies EXCEPT ![call[c].kind] = r2]
          /\ faults' = faults /\ call[c]'.pc # "copy")
       => \A d \in Clients : AsRecent(call[c].seen[d], copies'[call[c].kind])]_vars

\* Every call returns: a failed snapshot does not wedge the chain, and a call
\* that joined a hydration is woken when it settles (#snapshotChain,
\* #ensureHydrated).
CallsReturn ==
  \A c \in Clients : call[c].pc # "idle" ~> call[c].pc = "idle"
=============================================================================
