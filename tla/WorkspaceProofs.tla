-------------------------- MODULE WorkspaceProofs ---------------------------
(***************************************************************************)
(* Proofs about Workspace: its type invariant for every instance, and, for *)
(* a session that is not closed or reset and a container that stops only   *)
(* when it is idle, that no file ever regresses and no acknowledged upload *)
(* is lost, whatever calls overlap, fail or are evicted; and, for a single *)
(* turn beside any number of uploads, that no write of it is forgotten.    *)
(***************************************************************************)
EXTENDS Workspace, TLAPS

-----------------------------------------------------------------------------
(* Types                                                                   *)

CallsTyped ==
  /\ call \in [Clients -> CallType]
  /\ \A c \in Clients : CallShape(call[c])

\* The blank values have the types of the variables they blank.
LEMMA Blanks ==
  /\ Empty \in Contents
  /\ Unseen \in [Clients -> Contents]
  /\ NoCall \in CallType
  /\ CallShape(NoCall)
  /\ NotHydrating \in [phase: {"none", "status", "read", "restore"}, body: Contents]
<1>1. Empty \in Contents
  BY DEF Empty, Contents
<1>2. Unseen \in [Clients -> Contents]
  BY <1>1 DEF Unseen
<1>3. NoCall \in CallType
  BY <1>1, <1>2 DEF NoCall, CallType, PCs, Kinds
<1>4. CallShape(NoCall)
  BY DEF CallShape, NoCall
<1>5. NotHydrating \in [phase: {"none", "status", "read", "restore"}, body: Contents]
  BY <1>1 DEF NotHydrating
<1> QED
  BY <1>1, <1>2, <1>3, <1>4, <1>5

\* Replacing one call by a well-shaped one keeps the calls typed.
LEMMA OneCall ==
  ASSUME CallsTyped, NEW c \in Clients, NEW k \in CallType, CallShape(k),
         call' = [call EXCEPT ![c] = k]
  PROVE  CallsTyped'
<1>1. call' \in [Clients -> CallType]
  BY DEF CallsTyped
<1>2. ASSUME NEW d \in Clients
      PROVE  CallShape(call'[d])
  BY <1>2 DEF CallsTyped
<1> QED
  BY <1>1, <1>2 DEF CallsTyped, CallShape

\* Returning, moving on and starting.
LEMMA ReturnTyped ==
  ASSUME CallsTyped, NEW c \in Clients, Return(c)
  PROVE  CallsTyped'
BY OneCall, Blanks DEF Return

LEMMA GotoTyped ==
  ASSUME CallsTyped, NEW c \in Clients, NEW pc \in PCs, Goto(c, pc),
         CallShape([call[c] EXCEPT !.pc = pc])
  PROVE  CallsTyped'
<1> DEFINE k == [call[c] EXCEPT !.pc = pc]
<1>1. k \in CallType
  BY DEF CallsTyped, CallType
<1>2. call' = [call EXCEPT ![c] = k]
  BY DEF Goto, CallsTyped
<1> QED
  BY <1>1, <1>2, OneCall

LEMMA StartTyped ==
  ASSUME TypeOK, NEW c \in Clients, NEW kind \in Kinds, NEW pc \in PCs,
         NEW f \in Files \cup {NoFile}, Start(c, kind, pc, f),
         \A k \in CallType : (k.kind = kind /\ k.pc = pc /\ k.file = f) => CallShape(k)
  PROVE  CallsTyped'
<1> DEFINE k == [NoCall EXCEPT !.kind = kind, !.pc = pc, !.file = f,
                   !.seen = IF kind \in {"promote", "archive"} THEN wrote ELSE Unseen]
<1>1. k \in CallType /\ k.kind = kind /\ k.pc = pc /\ k.file = f
  <2>1. (IF kind \in {"promote", "archive"} THEN wrote ELSE Unseen)
          \in [Clients -> Contents]
    BY Blanks DEF TypeOK
  <2> QED
    BY <2>1, Blanks DEF CallType, NoCall
<1>2. call' = [call EXCEPT ![c] = k]
  BY DEF Start
<1> QED
  BY <1>1, <1>2, OneCall DEF TypeOK, CallsTyped

\* Entering through #ensureHydrated.
LEMMA EnterTyped ==
  ASSUME TypeOK, NEW c \in Clients, NEW kind \in {"exec", "upload"},
         NEW f \in Files, Enter(c, kind, f)
  PROVE  /\ CallsTyped'
         /\ hydrating' \in [phase: {"none", "status", "read", "restore"},
                            body: Contents]
<1>1. CallsTyped'
  <2>1. Start(c, kind, "hydrate", f)
    BY DEF Enter
  <2>2. \A k \in CallType : (k.kind = kind /\ k.pc = "hydrate" /\ k.file = f)
          => CallShape(k)
    BY DEF CallShape
  <2>3. kind \in Kinds /\ "hydrate" \in PCs
    BY DEF Kinds, PCs
  <2> QED
    BY <2>1, <2>2, <2>3, StartTyped
<1>2. hydrating' \in [phase: {"none", "status", "read", "restore"}, body: Contents]
  BY Blanks DEF Enter, TypeOK
<1> QED
  BY <1>1, <1>2

\* Settling a hydration.
LEMMA SettleTyped ==
  ASSUME TypeOK, Settle
  PROVE  /\ CallsTyped'
         /\ dirty' \in BOOLEAN
         /\ hydrating' \in [phase: {"none", "status", "read", "restore"},
                            body: Contents]
<1>1. ASSUME NEW c \in Clients
      PROVE  call'[c] \in CallType /\ CallShape(call'[c])
  <2>1. CASE Waiting(c)
    <3>1. call'[c] = [call[c] EXCEPT !.pc = IF call[c].kind = "exec"
                                            THEN "run" ELSE "upload"]
      BY <2>1 DEF Settle
    <3>2. call[c] \in CallType /\ CallShape(call[c]) /\ call[c].pc = "hydrate"
      BY <2>1 DEF TypeOK, Waiting
    <3>3. call'[c] \in CallType
      BY <3>1, <3>2 DEF CallType, PCs
    <3>4. CallShape(call'[c])
      BY <3>1, <3>2 DEF CallShape, CallType
    <3> QED
      BY <3>3, <3>4
  <2>2. CASE ~Waiting(c)
    BY <2>2 DEF Settle, TypeOK
  <2> QED
    BY <2>1, <2>2
<1>2. CallsTyped'
  BY <1>1 DEF CallsTyped, Settle, CallShape
<1>3. dirty' \in BOOLEAN
  BY DEF Settle
<1> QED
  BY <1>2, <1>3, Blanks DEF Settle

\* A write.
LEMMA WriteTyped ==
  ASSUME TypeOK, NEW f \in Files, Write(f)
  PROVE  version' \in Nat /\ disk' \in Contents /\ hydrated' \in BOOLEAN
BY DEF TypeOK, Write, Contents

\* The promises of a returning call.
LEMMA PromisedTyped ==
  ASSUME TypeOK, NEW c \in Clients, NEW kind \in {"upload", "turnEnd"},
         kind = "upload" => call[c].file \in Files
  PROVE  Promised(c, kind) \in [{"upload", "turnEnd"} -> Contents]
<1> DEFINE what == IF kind = "upload"
                   THEN [Empty EXCEPT ![call[c].file] = call[c].ver]
                   ELSE wrote[c]
           new == [f \in Files |-> IF what[f] > owed[kind][f]
                                   THEN what[f] ELSE owed[kind][f]]
<1>1. what \in Contents
  <2>1. call[c].ver \in Nat
    BY DEF TypeOK, CallType
  <2> QED
    BY <2>1, Blanks DEF TypeOK, Contents
<1>2. owed[kind] \in Contents
  BY DEF TypeOK
<1>3. new \in Contents
  <2> HIDE DEF what
  <2> QED
    BY <1>1, <1>2 DEF Contents
<1>4. Promised(c, kind) = [owed EXCEPT ![kind] = new]
  BY DEF Promised, TypeOK
<1> HIDE DEF new
<1> QED
  BY <1>3, <1>4 DEF TypeOK

\* The calls in the chain are clients; popping and appending keep that.
LEMMA ChainTyped ==
  ASSUME chain \in Seq(Clients)
  PROVE  /\ \A c \in Clients : Append(chain, c) \in Seq(Clients)
         /\ chain # <<>> => Tail(chain) \in Seq(Clients)
OBVIOUS

\* A death empties the container.
LEMMA DeathTyped ==
  ASSUME TypeOK, ContainerDies
  PROVE  /\ disk' \in Contents
         /\ hydrated' \in BOOLEAN
         /\ wrote' \in [Clients -> Contents]
BY Blanks DEF ContainerDies

BoundsTyped == ops \in 0 .. MaxOps /\ faults \in 0 .. MaxFaults

\* The bounds are kept by requests, faults and the rest.
LEMMA Bounded ==
  ASSUME TypeOK,
         \/ \E c \in Clients, kind \in Kinds : Request(c, kind)
         \/ \E kind \in FaultKinds : Fault(kind)
         \/ NoFault
  PROVE  BoundsTyped'
BY WorkspaceAssumption DEF TypeOK, BoundsTyped, Request, Fault, NoFault

-----------------------------------------------------------------------------

\* A request keeps the types.
LEMMA RequestsTyped ==
  ASSUME TypeOK, NEW c \in Clients, Requests(c)
  PROVE  TypeOK'
<1> USE DEF container, observed
<1>1. CASE Exec(c)
  <2>1. PICK f \in Files : Enter(c, "exec", f)
    BY <1>1 DEF Exec
  <2>2. CallsTyped' /\ hydrating' \in [phase: {"none", "status", "read", "restore"},
                                       body: Contents]
    BY <2>1, EnterTyped
  <2>3. BoundsTyped'
    BY <1>1, Bounded DEF Exec, Kinds
  <2> QED
    BY <1>1, <2>2, <2>3 DEF Exec, TypeOK, CallsTyped, BoundsTyped
<1>2. CASE Upload(c)
  <2>1. PICK f \in Files : Enter(c, "upload", f)
    BY <1>2 DEF Upload
  <2>2. CallsTyped' /\ hydrating' \in [phase: {"none", "status", "read", "restore"},
                                       body: Contents]
    BY <2>1, EnterTyped
  <2>3. BoundsTyped'
    BY <1>2, Bounded DEF Upload, Kinds
  <2> QED
    BY <1>2, <2>2, <2>3 DEF Upload, TypeOK, CallsTyped, BoundsTyped
<1>3. ASSUME NEW kind \in {"turnEnd", "promote", "archive"},
             SnapshotIfDirty(c, kind), kind = "turnEnd" => dirty
      PROVE  TypeOK'
  <2>1. CallsTyped'
    <3> DEFINE pc == IF dirty THEN "snapshot" ELSE "copy"
    <3>1. Start(c, kind, pc, NoFile)
      BY <1>3 DEF SnapshotIfDirty
    <3>2. pc \in PCs /\ kind \in Kinds
      BY DEF PCs, Kinds
    <3>3. \A k \in CallType : (k.kind = kind /\ k.pc = pc /\ k.file = NoFile)
            => CallShape(k)
      BY <1>3 DEF CallShape
    <3> HIDE DEF pc
    <3> QED
      BY <3>1, <3>2, <3>3, StartTyped
  <2>2. chain' \in Seq(Clients)
    BY <1>3, ChainTyped DEF SnapshotIfDirty, TypeOK
  <2>3. BoundsTyped'
    BY <1>3, Bounded DEF SnapshotIfDirty, Kinds
  <2> QED
    BY <1>3, <2>1, <2>2, <2>3 DEF SnapshotIfDirty, TypeOK, CallsTyped, BoundsTyped
<1>4. CASE TurnEndsClean(c)
  <2>1. owed' \in [{"upload", "turnEnd"} -> Contents]
    BY <1>4, PromisedTyped DEF TurnEndsClean
  <2>2. wrote' \in [Clients -> Contents]
    BY <1>4, Blanks DEF TurnEndsClean, TypeOK
  <2>3. BoundsTyped'
    BY <1>4, Bounded DEF TurnEndsClean, Kinds
  <2> QED
    BY <1>4, <2>1, <2>2, <2>3 DEF TurnEndsClean, TypeOK, BoundsTyped
<1>5. CASE Purge(c)
  <2>1. CallsTyped'
    <3>1. \A k \in CallType : (k.kind = "purge" /\ k.pc = "destroy" /\ k.file = NoFile)
            => CallShape(k)
      BY DEF CallShape
    <3> QED
      BY <1>5, <3>1, StartTyped DEF Purge, Kinds, PCs
  <2>2. BoundsTyped'
    BY <1>5, Bounded DEF Purge, Kinds
  <2> QED
    BY <1>5, <2>1, <2>2 DEF Purge, TypeOK, CallsTyped, BoundsTyped
<1>6. CASE Reset(c)
  <2>1. CallsTyped'
    <3>1. \A k \in CallType : (k.kind = "reset" /\ k.pc = "wipe" /\ k.file = NoFile)
            => CallShape(k)
      BY DEF CallShape
    <3> QED
      BY <1>6, <3>1, StartTyped DEF Reset, Kinds, PCs
  <2>2. BoundsTyped'
    BY <1>6, Bounded DEF Reset, Kinds
  <2> QED
    BY <1>6, <2>1, <2>2 DEF Reset, TypeOK, CallsTyped, BoundsTyped
<1> QED
  BY <1>1, <1>2, <1>3, <1>4, <1>5, <1>6
     DEF Requests, TurnEnds, Promote, Archive

\* A step of a hydration keeps the types.
LEMMA HydrationTyped ==
  ASSUME TypeOK, HydrationAnswers \/ HydrationFails
  PROVE  TypeOK'
<1> USE DEF container, observed
<1>1. CASE StatusAnswered
  <2>1. BoundsTyped'
    BY <1>1, Bounded DEF StatusAnswered
  <2>2. CASE hydrated
    BY <1>1, <2>1, <2>2, SettleTyped DEF StatusAnswered, TypeOK, CallsTyped, BoundsTyped
  <2>3. CASE ~hydrated
    <3>1. hydrating' \in [phase: {"none", "status", "read", "restore"}, body: Contents]
      BY <1>1, <2>3 DEF StatusAnswered, TypeOK
    <3> QED
      BY <1>1, <2>1, <2>3, <3>1 DEF StatusAnswered, TypeOK, BoundsTyped
  <2> QED
    BY <2>2, <2>3
<1>2. CASE ObjectRead
  <2>1. BoundsTyped'
    BY <1>2, Bounded DEF ObjectRead
  <2> QED
    BY <1>2, <2>1 DEF ObjectRead, TypeOK, BoundsTyped
<1>3. CASE Restored
  <2>1. BoundsTyped'
    BY <1>3, Bounded DEF Restored
  <2>2. disk' \in Contents
    BY <1>3 DEF Restored, TypeOK, Contents
  <2>3. hydrated' \in BOOLEAN /\ Settle
    BY <1>3 DEF Restored
  <2> QED
    BY <1>3, <2>1, <2>2, <2>3, SettleTyped DEF Restored, TypeOK, CallsTyped, BoundsTyped
<1>4. CASE HydrationFails
  <2>1. BoundsTyped'
    BY <1>4, Bounded DEF HydrationFails, FaultKinds
  <2>2. CallsTyped'
    <3>1. call' = [d \in Clients |-> IF Waiting(d) THEN NoCall ELSE call[d]]
      BY <1>4 DEF HydrationFails
    <3>2. \A d \in Clients : call'[d] \in CallType /\ CallShape(call'[d])
      BY <3>1, Blanks DEF TypeOK
    <3> QED
      BY <3>1, <3>2 DEF CallsTyped, CallShape
  <2>3. hydrating' = NotHydrating
    BY <1>4 DEF HydrationFails
  <2> QED
    BY <1>4, <2>1, <2>2, <2>3, Blanks DEF HydrationFails, TypeOK, CallsTyped, BoundsTyped
<1> QED
  BY <1>1, <1>2, <1>3, <1>4 DEF HydrationAnswers

\* A failed snapshot keeps the types.
LEMMA ThrowsTyped ==
  ASSUME TypeOK, NEW c \in Clients, SnapshotThrows(c), HasTurn(c),
         call[c].pc \in {"snapshot", "put"}
  PROVE  /\ CallsTyped'
         /\ chain' \in Seq(Clients)
         /\ dirty' \in BOOLEAN
<1>1. chain' \in Seq(Clients)
  BY ChainTyped DEF SnapshotThrows, HasTurn, TypeOK
<1>2. dirty' \in BOOLEAN
  BY DEF SnapshotThrows, MarkAfterFailure, TypeOK
<1>3. CASE call[c].kind = "archive"
  <2> DEFINE k == [call[c] EXCEPT !.pc = "copy", !.seen = Unseen]
  <2>1. k \in CallType /\ CallShape(k)
    BY <1>3, Blanks DEF TypeOK, CallType, CallShape, PCs, NoCall
  <2>2. call' = [call EXCEPT ![c] = k]
    BY <1>3 DEF SnapshotThrows, CopyAnyway, TypeOK
  <2> HIDE DEF k
  <2>3. CallsTyped'
    BY <2>1, <2>2, OneCall DEF TypeOK, CallsTyped
  <2> QED
    BY <1>1, <1>2, <2>3
<1>4. CASE call[c].kind # "archive"
  BY <1>1, <1>2, <1>4, ReturnTyped DEF SnapshotThrows, TypeOK, CallsTyped
<1> QED
  BY <1>3, <1>4

\* Moving on to a state that the kind of the call allows.
LEMMA MoveTyped ==
  ASSUME TypeOK, NEW c \in Clients, NEW pc \in PCs, Goto(c, pc),
         \/ pc = "copy" /\ call[c].kind \in {"promote", "archive"}
         \/ pc \in {"destroy", "wipe", "clear"}
              /\ call[c].kind \in {"archive", "purge", "reset"}
  PROVE  CallsTyped'
<1>1. CallShape([call[c] EXCEPT !.pc = pc])
  BY DEF CallShape, TypeOK, CallType
<1> QED
  BY <1>1, GotoTyped DEF TypeOK, CallsTyped

\* A step of a call keeps the types.
LEMMA AnswersTyped ==
  ASSUME TypeOK, NEW c \in Clients, Answers(c)
  PROVE  TypeOK'
<1> USE DEF container, observed
<1>0. call[c] \in CallType /\ CallShape(call[c])
  BY DEF TypeOK
<1>1. CASE CommandRuns(c)
  <2>1. call[c].file \in Files
    BY <1>0, <1>1 DEF CommandRuns, CallShape
  <2>2. version' \in Nat /\ disk' \in Contents /\ hydrated' \in BOOLEAN
    BY <1>1, <2>1, WriteTyped DEF CommandRuns
  <2>3. wrote' \in [Clients -> Contents]
    BY <1>1, <2>1 DEF CommandRuns, TypeOK, Contents
  <2>4. CallsTyped'
    BY <1>1, ReturnTyped DEF CommandRuns, TypeOK, CallsTyped
  <2>5. BoundsTyped'
    BY <1>1, Bounded DEF CommandRuns
  <2> QED
    BY <1>1, <2>2, <2>3, <2>4, <2>5 DEF CommandRuns, TypeOK, CallsTyped, BoundsTyped
<1>2. CASE Uploaded(c)
  <2>1. call[c].file \in Files /\ call[c].kind = "upload"
    BY <1>0, <1>2 DEF Uploaded, CallShape
  <2>2. version' \in Nat /\ disk' \in Contents /\ hydrated' \in BOOLEAN
    BY <1>2, <2>1, WriteTyped DEF Uploaded
  <2>3. CallsTyped'
    <3> DEFINE k == [call[c] EXCEPT !.pc = "snapshot", !.ver = version + 1]
    <3>1. version + 1 \in Nat
      BY DEF TypeOK
    <3>2. k \in CallType
      BY <1>0, <3>1 DEF CallType, PCs
    <3>3. k.pc = "snapshot" /\ k.kind = "upload" /\ k.file \in Files
      BY <1>0, <2>1 DEF CallType
    <3>4. call' = [call EXCEPT ![c] = k]
      BY <1>2 DEF Uploaded, TypeOK
    <3> HIDE DEF k
    <3>5. CallShape(k)
      BY <3>3 DEF CallShape
    <3> QED
      BY <3>2, <3>4, <3>5, OneCall DEF TypeOK, CallsTyped
  <2>4. chain' \in Seq(Clients)
    BY <1>2, ChainTyped DEF Uploaded, TypeOK
  <2>5. BoundsTyped'
    BY <1>2, Bounded DEF Uploaded
  <2> QED
    BY <1>2, <2>2, <2>3, <2>4, <2>5 DEF Uploaded, TypeOK, CallsTyped, BoundsTyped
<1>3. CASE Tarred(c)
  <2>1. CallsTyped'
    <3> DEFINE k == [call[c] EXCEPT !.pc = "put", !.bytes = disk]
    <3>1. k \in CallType /\ CallShape(k)
      BY <1>0, <1>3 DEF Tarred, TypeOK, CallType, CallShape, PCs
    <3>2. call' = [call EXCEPT ![c] = k]
      BY <1>3 DEF Tarred, TypeOK
    <3> HIDE DEF k
    <3> QED
      BY <3>1, <3>2, OneCall DEF TypeOK, CallsTyped
  <2>2. BoundsTyped'
    BY <1>3, Bounded DEF Tarred
  <2> QED
    BY <1>3, <2>1, <2>2 DEF Tarred, TypeOK, CallsTyped, BoundsTyped
<1>4. CASE Stored(c)
  <2>1. r2' \in Contents
    BY <1>0, <1>4 DEF Stored, CallType
  <2>2. chain' \in Seq(Clients)
    BY <1>4, ChainTyped DEF Stored, HasTurn, TypeOK
  <2>3. BoundsTyped'
    BY <1>4, Bounded DEF Stored
  <2>4. CASE AfterSnapshot(call[c].kind) = "copy"
    <3>1. call[c].kind \in {"promote", "archive"}
      BY <2>4 DEF AfterSnapshot
    <3>2. CallsTyped'
      BY <1>4, <2>4, <3>1, MoveTyped DEF Stored, PCs
    <3> QED
      BY <1>4, <2>1, <2>2, <2>3, <2>4, <3>2 DEF Stored, TypeOK, CallsTyped, BoundsTyped
  <2>5. CASE AfterSnapshot(call[c].kind) # "copy"
    <3>1. /\ call[c].kind \in {"upload", "turnEnd"}
          /\ call[c].kind = "upload" => call[c].file \in Files
      BY <1>0, <1>4, <2>5 DEF AfterSnapshot, CallShape, Stored
    <3>2. CallsTyped'
      BY <1>4, <2>5, ReturnTyped DEF Stored, TypeOK, CallsTyped
    <3>3. owed' \in [{"upload", "turnEnd"} -> Contents]
      BY <1>4, <2>5, <3>1, PromisedTyped DEF Stored
    <3>4. wrote' \in [Clients -> Contents]
      BY <1>4, <2>5, Blanks DEF Stored, TypeOK
    <3> QED
      BY <1>4, <2>1, <2>2, <2>3, <3>2, <3>3, <3>4
         DEF Stored, TypeOK, CallsTyped, BoundsTyped
  <2> QED
    BY <2>4, <2>5
<1>5. CASE SnapshotRefused(c)
  <2>1. CallsTyped' /\ chain' \in Seq(Clients) /\ dirty' \in BOOLEAN
    BY <1>5, ThrowsTyped DEF SnapshotRefused
  <2>2. BoundsTyped'
    BY <1>5, Bounded DEF SnapshotRefused
  <2> QED
    BY <1>5, <2>1, <2>2
       DEF SnapshotRefused, SnapshotThrows, TypeOK, CallsTyped, BoundsTyped
<1>6. CASE Copied(c)
  <2>1. call[c].kind \in {"promote", "archive"}
    BY <1>0, <1>6 DEF Copied, CallShape
  <2>2. copies' \in [{"promote", "archive"} -> Contents]
    BY <1>6 DEF Copied, TypeOK
  <2>3. ASSUME call[c].kind = "archive"
       PROVE  CallsTyped'
    BY <1>6, <2>3, MoveTyped DEF Copied, PCs
  <2>4. ASSUME call[c].kind # "archive"
       PROVE  CallsTyped'
    BY <1>6, <2>4, ReturnTyped DEF Copied, TypeOK, CallsTyped
  <2>5. BoundsTyped'
    BY <1>6, Bounded DEF Copied
  <2> QED
    BY <1>6, <2>2, <2>3, <2>4, <2>5 DEF Copied, TypeOK, CallsTyped, BoundsTyped
<1>7. CASE Destroyed(c)
  <2>1. call[c].kind \in {"archive", "purge", "reset"}
    BY <1>0, <1>7 DEF Destroyed, CallShape
  <2>2. CallsTyped'
    BY <1>7, <2>1, MoveTyped DEF Destroyed, PCs
  <2>3. BoundsTyped'
    BY <1>7, Bounded DEF Destroyed
  <2> QED
    BY <1>7, <2>2, <2>3, DeathTyped DEF Destroyed, TypeOK, CallsTyped, BoundsTyped
<1>8. ASSUME AfterWipe(c), call[c].pc = "wipe"
      PROVE  CallsTyped'
  BY <1>8, MoveTyped, ReturnTyped DEF AfterWipe, PCs, TypeOK, CallsTyped
<1>9. CASE Wiped(c)
  <2>1. owed' \in [{"upload", "turnEnd"} -> Contents]
    BY <1>9, Blanks DEF Wiped
  <2>2. BoundsTyped'
    BY <1>9, Bounded DEF Wiped
  <2> QED
    BY <1>8, <1>9, <2>1, <2>2, Blanks DEF Wiped, TypeOK, CallsTyped, BoundsTyped
<1>10. CASE Cleared(c)
  <2>1. CallsTyped'
    BY <1>10, ReturnTyped DEF Cleared, TypeOK, CallsTyped
  <2>2. BoundsTyped'
    BY <1>10, Bounded DEF Cleared
  <2> QED
    BY <1>10, <2>1, <2>2, DeathTyped DEF Cleared, TypeOK, CallsTyped, BoundsTyped
<1> QED
  BY <1>1, <1>2, <1>3, <1>4, <1>5, <1>6, <1>7, <1>9, <1>10 DEF Answers

\* A failed step of a call keeps the types.
LEMMA FailuresTyped ==
  ASSUME TypeOK, NEW c \in Clients, Failures(c)
  PROVE  TypeOK'
<1> USE DEF container, observed
<1>0. call[c] \in CallType /\ CallShape(call[c])
  BY DEF TypeOK
<1>1. CASE CommandFails(c) \/ UploadFails(c)
  <2>1. CallsTyped'
    BY <1>1, ReturnTyped DEF CommandFails, UploadFails, TypeOK, CallsTyped
  <2>2. BoundsTyped'
    BY <1>1, Bounded DEF CommandFails, UploadFails, FaultKinds
  <2> QED
    BY <1>1, <2>1, <2>2 DEF CommandFails, UploadFails, TypeOK, CallsTyped, BoundsTyped
<1>2. CASE SnapshotFails(c)
  <2>1. CallsTyped' /\ chain' \in Seq(Clients) /\ dirty' \in BOOLEAN
    BY <1>2, ThrowsTyped DEF SnapshotFails
  <2>2. BoundsTyped'
    BY <1>2, Bounded DEF SnapshotFails, FaultKinds
  <2> QED
    BY <1>2, <2>1, <2>2
       DEF SnapshotFails, SnapshotThrows, TypeOK, CallsTyped, BoundsTyped
<1>3. CASE CopyFails(c)
  <2>1. ASSUME call[c].kind = "archive"
       PROVE  CallsTyped'
    BY <1>3, <2>1, MoveTyped DEF CopyFails, PCs
  <2>2. ASSUME call[c].kind # "archive"
       PROVE  CallsTyped'
    BY <1>3, <2>2, ReturnTyped DEF CopyFails, TypeOK, CallsTyped
  <2>3. BoundsTyped'
    BY <1>3, Bounded DEF CopyFails, FaultKinds
  <2> QED
    BY <1>3, <2>1, <2>2, <2>3 DEF CopyFails, TypeOK, CallsTyped, BoundsTyped
<1>4. CASE DestroyFails(c)
  <2>1. call[c].kind \in {"archive", "purge", "reset"}
    BY <1>0, <1>4 DEF DestroyFails, CallShape
  <2>2. CallsTyped'
    BY <1>4, <2>1, MoveTyped DEF DestroyFails, PCs
  <2>3. BoundsTyped'
    BY <1>4, Bounded DEF DestroyFails, FaultKinds
  <2> QED
    BY <1>4, <2>2, <2>3 DEF DestroyFails, TypeOK, CallsTyped, BoundsTyped
<1>5. CASE WipeFails(c)
  <2>1. CallsTyped'
    BY <1>5, MoveTyped, ReturnTyped
       DEF WipeFails, AfterWipe, PCs, TypeOK, CallsTyped
  <2>2. BoundsTyped'
    BY <1>5, Bounded DEF WipeFails, FaultKinds
  <2> QED
    BY <1>5, <2>1, <2>2 DEF WipeFails, TypeOK, CallsTyped, BoundsTyped
<1>6. CASE ClearFails(c)
  <2>1. CallsTyped'
    BY <1>6, ReturnTyped DEF ClearFails, TypeOK, CallsTyped
  <2>2. BoundsTyped'
    BY <1>6, Bounded DEF ClearFails, FaultKinds
  <2> QED
    BY <1>6, <2>1, <2>2 DEF ClearFails, TypeOK, CallsTyped, BoundsTyped
<1> QED
  BY <1>1, <1>2, <1>3, <1>4, <1>5, <1>6 DEF Failures

\* Sleep, crash and eviction keep the types.
LEMMA PlatformTyped ==
  ASSUME TypeOK, Sleep \/ Crash \/ Evict
  PROVE  TypeOK'
<1> USE DEF container, observed
<1>1. BoundsTyped'
  BY Bounded DEF Sleep, Crash, Evict, FaultKinds
<1>2. CASE Sleep \/ Crash
  BY <1>1, <1>2, DeathTyped DEF Sleep, Crash, TypeOK, BoundsTyped
<1>3. CASE Evict
  <2>1. CallsTyped'
    BY <1>3, Blanks DEF Evict, CallsTyped
  <2>2. chain' \in Seq(Clients)
    BY <1>3 DEF Evict
  <2> QED
    BY <1>1, <1>3, <2>1, <2>2, Blanks DEF Evict, TypeOK, CallsTyped, BoundsTyped
<1> QED
  BY <1>2, <1>3

\* Every reachable state is well-typed, and every call awaits only what its
\* method awaits, for any clients, files and faults.
THEOREM TypeCorrect == Spec => []TypeOK
<1>1. Init => TypeOK
  <2> SUFFICES ASSUME Init
               PROVE  TypeOK
    OBVIOUS
  <2>1. CallsTyped
    BY Blanks DEF Init, CallsTyped
  <2>2. ops \in 0 .. MaxOps /\ faults \in 0 .. MaxFaults
    BY WorkspaceAssumption DEF Init
  <2>3. chain \in Seq(Clients)
    BY DEF Init
  <2> QED
    BY <2>1, <2>2, <2>3, Blanks DEF Init, TypeOK, CallsTyped
<1>2. TypeOK /\ [Next]_vars => TypeOK'
  <2> SUFFICES ASSUME TypeOK, [Next]_vars
               PROVE  TypeOK'
    OBVIOUS
  <2>1. CASE UNCHANGED vars
    BY <2>1 DEF vars, TypeOK, CallShape
  <2>2. CASE Next
    BY <2>2, RequestsTyped, AnswersTyped, FailuresTyped, HydrationTyped,
       PlatformTyped DEF Next
  <2> QED
    BY <2>1, <2>2
<1> QED
  BY <1>1, <1>2, PTL DEF Spec

-----------------------------------------------------------------------------
(* Nothing regresses while the container lives                             *)

\* A session that is neither closed nor reset, in a container that stops only
\* when it is idle.
Calm ==
  /\ "crash" \notin Faults
  /\ \A c \in Clients : May[c] \cap {"archive", "purge", "reset"} = {}

\* The living container is at least as recent as R2, an unrestored one is
\* empty, and a restore brings what R2 holds.
FilesSafe ==
  /\ AsRecent(disk, [f \in Files |-> version])
  /\ AsRecent(r2, [f \in Files |-> version])
  /\ hydrated => AsRecent(r2, disk)
  /\ ~hydrated => disk = Empty
  /\ hydrating.phase \in {"read", "restore"} => ~hydrated
  /\ hydrating.phase = "restore" => hydrating.body = r2

\* What call k of client c has on its way is between R2 and the disk, and only
\* the head of the chain has a tar on its way.
CallSafe(c, k) ==
  /\ k.kind \notin {"archive", "purge", "reset"}
  /\ k.pc \in {"run", "upload", "put"} => hydrated
  /\ (k.kind = "upload" /\ k.pc \in {"snapshot", "put"})
       => hydrated /\ k.ver <= disk[k.file]
  /\ k.pc = "put" =>
       /\ HasTurn(c)
       /\ AsRecent(r2, k.bytes)
       /\ AsRecent(k.bytes, disk)
       /\ k.kind = "upload" => k.ver <= k.bytes[k.file]

SafeInv ==
  /\ FilesSafe
  /\ \A c \in Clients : CallSafe(c, call[c])
  /\ UploadsAreDurable

\* Recency is an order.
LEMMA Recency ==
  /\ \A a \in Contents : AsRecent(a, a) /\ AsRecent(Empty, a)
  /\ \A a, b, d \in Contents : AsRecent(a, b) /\ AsRecent(b, d) => AsRecent(a, d)
BY DEF AsRecent, Contents, Empty

\* A call on its way to nothing, or to a snapshot of what is marked dirty, asks
\* nothing of the files.
Harmless(k) ==
  /\ k.kind \notin {"archive", "purge", "reset"}
  /\ k.pc \in {"idle", "hydrate", "copy", "snapshot"}
  /\ k.pc = "snapshot" => k.kind # "upload"

\* A step that leaves the files alone and makes harmless the call it changes;
\* only the call with the turn may let another have it.
LEMMA QuietStep ==
  ASSUME TypeOK, SafeInv, NEW c \in Clients,
         UNCHANGED <<disk, hydrated, r2, version>>,
         \/ UNCHANGED hydrating
         \/ hydrating'.phase \in {"none", "status"},
         owed'["upload"] = owed["upload"],
         \A d \in Clients \ {c} : call'[d] = call[d] \/ Harmless(call'[d]),
         call'[c] = call[c] \/ Harmless(call'[c]),
         \/ UNCHANGED chain
         \/ chain' = Append(chain, c)
         \/ HasTurn(c) /\ chain' = Tail(chain) /\ Harmless(call'[c])
  PROVE  SafeInv'
<1>1. FilesSafe'
  BY DEF SafeInv, FilesSafe, AsRecent
<1>2. ASSUME NEW d \in Clients
      PROVE  CallSafe(d, call[d])'
  <2>1. CASE Harmless(call'[d])
    BY <2>1 DEF Harmless, CallSafe
  <2>2. CASE call'[d] = call[d] /\ ~Harmless(call'[d])
    <3>1. CallSafe(d, call[d])
      BY DEF SafeInv
    <3>2. ASSUME call[d].pc = "put"
          PROVE  HasTurn(d)'
      <4>1. HasTurn(d)
        BY <3>1, <3>2 DEF CallSafe
      <4>2. chain # <<>> /\ chain \in Seq(Clients)
        BY <4>1 DEF HasTurn, TypeOK
      <4>3. CASE UNCHANGED chain
        BY <4>1, <4>3 DEF HasTurn
      <4>4. CASE chain' = Append(chain, c)
        BY <4>1, <4>2, <4>4 DEF HasTurn
      <4>5. CASE HasTurn(c) /\ chain' = Tail(chain) /\ Harmless(call'[c])
        BY <2>2, <4>1, <4>5 DEF HasTurn
      <4> QED
        BY <4>3, <4>4, <4>5
    <3> QED
      BY <2>2, <3>1, <3>2 DEF CallSafe, AsRecent
  <2> QED
    BY <2>1, <2>2
<1>3. UploadsAreDurable'
  BY DEF SafeInv, UploadsAreDurable, AsRecent
<1> QED
  BY <1>1, <1>2, <1>3 DEF SafeInv

\* Without wipes no call is asked for, or is in flight, that wipes.
LEMMA NoWipes ==
  ASSUME Calm, NEW c \in Clients, NEW kind \in {"archive", "purge", "reset"}
  PROVE  ~Request(c, kind)
BY DEF Calm, Request

\* Accepting a call touches no file.
LEMMA RequestsSafe ==
  ASSUME Calm, TypeOK, SafeInv, NEW c \in Clients, Requests(c)
  PROVE  SafeInv'
<1> USE DEF container, observed
<1>1. ASSUME NEW kind \in {"exec", "upload"}, NEW f \in Files, Enter(c, kind, f),
             UNCHANGED <<container, r2, version, chain, observed>>
      PROVE  SafeInv'
  <2>1. Harmless(call'[c]) /\ \A d \in Clients \ {c} : call'[d] = call[d]
    BY <1>1 DEF Enter, Start, Harmless, NoCall, TypeOK
  <2>2. UNCHANGED hydrating \/ hydrating'.phase \in {"none", "status"}
    BY <1>1 DEF Enter, NotHydrating
  <2> QED
    BY <1>1, <2>1, <2>2, QuietStep
<1>2. ASSUME NEW kind \in {"turnEnd", "promote"}, SnapshotIfDirty(c, kind)
      PROVE  SafeInv'
  <2>1. Harmless(call'[c]) /\ \A d \in Clients \ {c} : call'[d] = call[d]
    BY <1>2 DEF SnapshotIfDirty, Start, Harmless, NoCall, TypeOK
  <2> QED
    BY <1>2, <2>1, QuietStep DEF SnapshotIfDirty
<1>3. CASE Exec(c)
  BY <1>1, <1>3 DEF Exec
<1>4. CASE Upload(c)
  BY <1>1, <1>4 DEF Upload
<1>5. CASE TurnEnds(c) \/ Promote(c)
  BY <1>2, <1>5 DEF TurnEnds, Promote
<1>6. CASE TurnEndsClean(c)
  <2>1. owed'["upload"] = owed["upload"]
    BY <1>6 DEF TurnEndsClean, Promised, TypeOK
  <2> QED
    BY <1>6, <2>1, QuietStep DEF TurnEndsClean
<1>7. CASE Archive(c) \/ Purge(c) \/ Reset(c)
  BY <1>7, NoWipes DEF Archive, SnapshotIfDirty, Purge, Reset
<1> QED
  BY <1>3, <1>4, <1>5, <1>6, <1>7 DEF Requests

\* A call that is woken in a restored container is safe.
LEMMA SettleSafe ==
  ASSUME TypeOK, SafeInv, Settle, hydrated', UNCHANGED <<r2, chain, version, owed>>,
         FilesSafe', hydrated => UNCHANGED disk
  PROVE  SafeInv'
<1>1. ASSUME NEW d \in Clients
      PROVE  CallSafe(d, call[d])'
  <2>0. CallSafe(d, call[d]) /\ call[d] \in CallType /\ CallShape(call[d])
    BY DEF SafeInv, TypeOK
  <2>1. CASE Waiting(d)
    <3>1. call'[d] = [call[d] EXCEPT !.pc = IF call[d].kind = "exec"
                                            THEN "run" ELSE "upload"]
      BY <2>1 DEF Settle
    <3>2. call'[d].pc \in {"run", "upload"} /\ call'[d].kind \in {"exec", "upload"}
      BY <2>0, <2>1, <3>1 DEF Waiting, CallShape, CallType
    <3> QED
      BY <3>2 DEF CallSafe
  <2>2. CASE ~Waiting(d)
    <3>1. call'[d] = call[d]
      BY <2>2 DEF Settle
    <3>2. HasTurn(d)' <=> HasTurn(d)
      BY DEF HasTurn
    <3> QED
      BY <2>0, <3>1, <3>2 DEF CallSafe, AsRecent
  <2> QED
    BY <2>1, <2>2
<1>2. UploadsAreDurable'
  BY DEF SafeInv, UploadsAreDurable, AsRecent
<1> QED
  BY <1>1, <1>2 DEF SafeInv

\* A restore brings what R2 holds to an empty disk.
LEMMA HydrationSafe ==
  ASSUME TypeOK, SafeInv, HydrationAnswers \/ HydrationFails
  PROVE  SafeInv'
<1> USE DEF container, observed
<1>1. CASE StatusAnswered /\ hydrated
  <2>1. FilesSafe'
    BY <1>1 DEF StatusAnswered, Settle, NotHydrating, SafeInv, FilesSafe, AsRecent
  <2> QED
    BY <1>1, <2>1, SettleSafe DEF StatusAnswered
<1>2. CASE (StatusAnswered /\ ~hydrated) \/ ObjectRead
  <2>1. FilesSafe'
    BY <1>2 DEF StatusAnswered, ObjectRead, SafeInv, FilesSafe, AsRecent, TypeOK
  <2>2. UNCHANGED <<disk, hydrated, r2, chain, call, owed>>
    BY <1>2 DEF StatusAnswered, ObjectRead
  <2>3. ASSUME NEW d \in Clients
        PROVE  CallSafe(d, call[d])'
    BY <2>2 DEF SafeInv, CallSafe, HasTurn, AsRecent
  <2> QED
    BY <2>1, <2>2, <2>3 DEF SafeInv, UploadsAreDurable, AsRecent
<1>3. CASE Restored
  <2>1. ~hydrated /\ disk = Empty /\ hydrating.body = r2
    BY <1>3 DEF Restored, SafeInv, FilesSafe
  <2>2. disk' = r2
    BY <1>3, <2>1 DEF Restored, TypeOK, Contents, Empty
  <2>3. FilesSafe'
    <3>1. hydrated' /\ UNCHANGED <<r2, version>> /\ hydrating'.phase = "none"
      BY <1>3 DEF Restored, Settle, NotHydrating
    <3>2. AsRecent(r2, r2)
      BY Recency DEF TypeOK
    <3> QED
      BY <2>2, <3>1, <3>2 DEF SafeInv, FilesSafe, AsRecent
  <2> QED
    BY <1>3, <2>1, <2>3, SettleSafe DEF Restored
<1>4. CASE HydrationFails
  <2>1. \A d \in Clients : call'[d] = call[d] \/ Harmless(call'[d])
    BY <1>4 DEF HydrationFails, Harmless, NoCall
  <2>2. hydrating'.phase = "none"
    BY <1>4 DEF HydrationFails, NotHydrating
  <2>3. CASE Clients = {}
    BY <1>4, <2>2, <2>3
       DEF HydrationFails, SafeInv, FilesSafe, UploadsAreDurable, AsRecent
  <2>4. ASSUME NEW c \in Clients
        PROVE  SafeInv'
    BY <1>4, <2>1, <2>2, QuietStep DEF HydrationFails
  <2> QED
    BY <2>3, <2>4
<1> QED
  BY <1>1, <1>2, <1>3, <1>4 DEF HydrationAnswers

\* A write makes its file the most recent one.
LEMMA WriteSafe ==
  ASSUME TypeOK, SafeInv, hydrated, NEW f \in Files, Write(f),
         UNCHANGED <<r2, hydrating>>
  PROVE  AsRecent(disk, disk') /\ FilesSafe' /\ disk'[f] = version'
<1>1. disk' \in Contents /\ version' = version + 1 /\ hydrated'
  BY WriteTyped DEF Write
<1>2. \A g \in Files : disk'[g] = IF g = f THEN version + 1 ELSE disk[g]
  BY DEF Write, TypeOK, Contents
<1>3. \A g \in Files : /\ disk[g] \in Nat /\ r2[g] \in Nat /\ version \in Nat
                       /\ disk[g] <= version /\ r2[g] <= version /\ r2[g] <= disk[g]
  BY DEF TypeOK, Contents, SafeInv, FilesSafe, AsRecent
<1>4. \A g \in Files : disk[g] <= disk'[g] /\ disk'[g] <= version + 1
                       /\ r2[g] <= disk'[g] /\ r2[g] <= version + 1
  BY <1>2, <1>3
<1>5. AsRecent(disk, disk')
  BY <1>4 DEF AsRecent
<1>6. FilesSafe'
  BY <1>1, <1>4 DEF SafeInv, FilesSafe, AsRecent
<1> QED
  BY <1>1, <1>2, <1>5, <1>6

\* A call that a step does not change stays safe when the disk only rises.
LEMMA OthersSafe ==
  ASSUME TypeOK, SafeInv, disk' \in Contents, AsRecent(disk, disk'),
         UNCHANGED <<hydrated, r2>>, NEW d \in Clients, call'[d] = call[d],
         call[d].pc = "put" => (HasTurn(d) => HasTurn(d)')
  PROVE  CallSafe(d, call[d])'
<1>1. CallSafe(d, call[d]) /\ call[d] \in CallType /\ CallShape(call[d])
  BY DEF SafeInv, TypeOK
<1>2. (call[d].kind = "upload" /\ call[d].pc \in {"snapshot", "put"})
        => call[d].ver <= disk'[call[d].file]
  <2>1. SUFFICES ASSUME call[d].kind = "upload", call[d].pc \in {"snapshot", "put"}
                 PROVE  call[d].ver <= disk'[call[d].file]
    OBVIOUS
  <2>2. call[d].file \in Files /\ call[d].ver \in Nat
    BY <1>1, <2>1 DEF CallShape, CallType
  <2>3. call[d].ver <= disk[call[d].file]
    BY <1>1, <2>1 DEF CallSafe
  <2>4. disk[call[d].file] <= disk'[call[d].file]
    BY <2>2 DEF AsRecent
  <2>5. disk[call[d].file] \in Nat /\ disk'[call[d].file] \in Nat
    BY <2>2 DEF TypeOK, Contents
  <2> QED
    BY <2>2, <2>3, <2>4, <2>5
<1>3. call[d].pc = "put" => AsRecent(call[d].bytes, disk')
  <2>1. call[d].bytes \in Contents /\ disk \in Contents
    BY <1>1 DEF CallType, TypeOK
  <2>2. call[d].pc = "put" => AsRecent(call[d].bytes, disk)
    BY <1>1 DEF CallSafe
  <2> QED
    BY <2>1, <2>2, Recency
<1> QED
  BY <1>1, <1>2, <1>3 DEF CallSafe, AsRecent

\* An answer stores, writes or tars what is more recent than before.
LEMMA AnswersSafe ==
  ASSUME TypeOK, TypeOK', SafeInv, NEW c \in Clients, Answers(c)
  PROVE  SafeInv'
<1> USE DEF container, observed
<1>0. /\ CallSafe(c, call[c]) /\ call[c] \in CallType /\ CallShape(call[c])
      /\ disk' \in Contents
  BY DEF SafeInv, TypeOK
<1>1. CASE CommandRuns(c)
  <2>1. hydrated /\ call[c].file \in Files
    BY <1>0, <1>1 DEF CommandRuns, CallSafe, CallShape
  <2>2. AsRecent(disk, disk') /\ FilesSafe'
    BY <1>1, <2>1, WriteSafe DEF CommandRuns
  <2>3. ASSUME NEW d \in Clients
        PROVE  CallSafe(d, call[d])'
    <3>1. CASE d = c
      BY <1>1, <3>1 DEF CommandRuns, Return, CallSafe, NoCall, TypeOK
    <3>2. CASE d # c
      BY <1>0, <1>1, <2>2, <3>2, OthersSafe
         DEF CommandRuns, Return, Write, HasTurn, TypeOK
    <3> QED
      BY <3>1, <3>2
  <2> QED
    BY <1>1, <2>2, <2>3 DEF CommandRuns, SafeInv, UploadsAreDurable, AsRecent
<1>2. CASE Uploaded(c)
  <2>1. hydrated /\ call[c].file \in Files /\ call[c].kind = "upload"
    BY <1>0, <1>2 DEF Uploaded, CallSafe, CallShape
  <2>2. AsRecent(disk, disk') /\ FilesSafe' /\ disk'[call[c].file] = version'
    BY <1>2, <2>1, WriteSafe DEF Uploaded
  <2>3. ASSUME NEW d \in Clients
        PROVE  CallSafe(d, call[d])'
    <3>1. CASE d = c
      <4>1. call'[c] = [call[c] EXCEPT !.pc = "snapshot", !.ver = version + 1]
        BY <1>2 DEF Uploaded, TypeOK
      <4>2. call'[c].pc = "snapshot" /\ call'[c].ver = version' /\ hydrated'
            /\ call'[c].file = call[c].file /\ call'[c].kind = "upload"
        BY ZenonT(30), <1>0, <1>2, <2>1, <4>1 DEF Uploaded, Write, CallType
      <4>3. version' \in Nat
        BY DEF TypeOK
      <4> QED
        BY <2>2, <3>1, <4>2, <4>3 DEF CallSafe
    <3>2. CASE d # c
      <4>1. call'[d] = call[d]
        BY <1>2, <3>2 DEF Uploaded, TypeOK
      <4>2. HasTurn(d) => HasTurn(d)'
        <5>1. chain' = Append(chain, c) /\ chain \in Seq(Clients)
          BY <1>2 DEF Uploaded, TypeOK
        <5> QED
          BY <5>1 DEF HasTurn
      <4>3. UNCHANGED <<hydrated, r2>>
        BY <1>2 DEF Uploaded, Write
      <4> QED
        BY <1>0, <2>2, <4>1, <4>2, <4>3, OthersSafe
    <3> QED
      BY <3>1, <3>2
  <2> QED
    BY <1>2, <2>2, <2>3 DEF Uploaded, SafeInv, UploadsAreDurable, AsRecent
<1>3. CASE Tarred(c)
  <2>1. UNCHANGED <<disk, hydrated, r2, version, hydrating, chain, owed>>
    BY <1>3 DEF Tarred
  <2>2. ASSUME NEW d \in Clients
        PROVE  CallSafe(d, call[d])'
    <3>1. CASE d = c
      <4>1. call'[c] = [call[c] EXCEPT !.pc = "put", !.bytes = disk]
        BY <1>3 DEF Tarred, TypeOK
      <4>2. /\ call'[c].pc = "put" /\ call'[c].bytes = disk
            /\ call'[c].kind = call[c].kind /\ call'[c].ver = call[c].ver
            /\ call'[c].file = call[c].file
        BY <1>0, <4>1 DEF CallType
      <4>3. hydrated /\ HasTurn(c)' /\ call[c].pc = "snapshot"
        BY <1>3, <2>1 DEF Tarred, MaySnapshot, HasTurn
      <4>4. AsRecent(r2, disk) /\ AsRecent(disk, disk)
        BY <4>3, Recency DEF SafeInv, FilesSafe, TypeOK
      <4> QED
        BY <1>0, <2>1, <3>1, <4>2, <4>3, <4>4 DEF CallSafe, AsRecent
    <3>2. CASE d # c
      <4>1. call'[d] = call[d] /\ (HasTurn(d) => HasTurn(d)')
        BY <1>3, <2>1, <3>2 DEF Tarred, HasTurn, TypeOK
      <4>2. AsRecent(disk, disk')
        BY <2>1, Recency DEF TypeOK
      <4> QED
        BY <1>0, <2>1, <4>1, <4>2, OthersSafe
    <3> QED
      BY <3>1, <3>2
  <2>3. FilesSafe'
    BY <2>1 DEF SafeInv, FilesSafe, AsRecent
  <2> QED
    BY <2>1, <2>2, <2>3 DEF SafeInv, UploadsAreDurable, AsRecent
<1>4. CASE Stored(c)
  <2>1. /\ call[c].pc = "put" /\ hydrated /\ HasTurn(c)
        /\ r2' = call[c].bytes /\ AsRecent(r2, r2') /\ AsRecent(r2', disk)
        /\ UNCHANGED <<disk, hydrated, version, hydrating>>
        /\ chain' = Tail(chain)
    BY <1>0, <1>4 DEF Stored, CallSafe
  <2>2. r2 \in Contents /\ r2' \in Contents /\ disk \in Contents /\ version \in Nat
    BY DEF TypeOK
  <2>3. FilesSafe'
    <3>1. \A f \in Files : r2'[f] <= disk[f] /\ disk[f] <= version
      BY <2>1 DEF SafeInv, FilesSafe, AsRecent
    <3>2. \A f \in Files : r2'[f] <= version
      BY <2>2, <3>1 DEF Contents
    <3>3. hydrating.phase \notin {"read", "restore"}
      BY <2>1 DEF SafeInv, FilesSafe
    <3> QED
      BY <2>1, <3>1, <3>2, <3>3 DEF FilesSafe, AsRecent
  <2>4. ASSUME NEW d \in Clients
        PROVE  CallSafe(d, call[d])'
    <3>1. CASE d = c
      <4>1. Harmless(call'[c])
        <5>1. CASE AfterSnapshot(call[c].kind) = "copy"
          <6>1. call'[c] = [call[c] EXCEPT !.pc = "copy"]
            BY <1>4, <5>1 DEF Stored, Goto, TypeOK
          <6> QED
            BY <1>0, <6>1 DEF Harmless, CallSafe, CallType
        <5>2. CASE AfterSnapshot(call[c].kind) # "copy"
          BY <1>4, <5>2 DEF Stored, Return, Harmless, NoCall, TypeOK
        <5> QED
          BY <5>1, <5>2
      <4> QED
        BY <3>1, <4>1 DEF Harmless, CallSafe
    <3>2. CASE d # c
      <4>1. call'[d] = call[d]
        BY <1>4, <3>2 DEF Stored, Goto, Return, TypeOK
      <4>2. CallSafe(d, call[d])
        BY DEF SafeInv
      <4>3. call[d].pc # "put"
        BY <2>1, <3>2, <4>2 DEF CallSafe, HasTurn
      <4> QED
        BY <2>1, <4>1, <4>2, <4>3 DEF CallSafe
    <3> QED
      BY <3>1, <3>2
  <2>5. UploadsAreDurable'
    <3>1. \A f \in Files : owed["upload"][f] <= r2'[f]
      <4>1. \A f \in Files : owed["upload"][f] <= r2[f] /\ r2[f] <= r2'[f]
                             /\ owed["upload"][f] \in Nat
        BY <2>1 DEF SafeInv, UploadsAreDurable, AsRecent, TypeOK, Contents
      <4> QED
        BY <2>2, <4>1 DEF Contents
    <3>2. CASE call[c].kind = "upload"
      <4>1. call[c].file \in Files /\ call[c].ver <= r2'[call[c].file]
            /\ call[c].ver \in Nat
        BY <1>0, <2>1, <3>2 DEF CallShape, CallSafe, CallType
      <4>2. owed' = Promised(c, "upload")
        BY <1>4, <3>2 DEF Stored, AfterSnapshot
      <4> DEFINE what == [Empty EXCEPT ![call[c].file] = call[c].ver]
      <4>3. \A f \in Files : what[f] <= r2'[f]
        BY <2>2, <4>1 DEF Empty, Contents
      <4>4. \A f \in Files : owed'["upload"][f] \in {what[f], owed["upload"][f]}
        BY <4>2 DEF Promised, TypeOK
      <4> HIDE DEF what
      <4> QED
        BY <3>1, <4>3, <4>4 DEF UploadsAreDurable, AsRecent
    <3>3. CASE call[c].kind # "upload"
      <4>1. owed'["upload"] = owed["upload"]
        <5>1. CASE AfterSnapshot(call[c].kind) = "copy"
          BY <1>4, <5>1 DEF Stored
        <5>2. CASE AfterSnapshot(call[c].kind) # "copy"
          <6>1. owed' = Promised(c, call[c].kind)
            BY <1>4, <5>2 DEF Stored
          <6> QED
            BY <3>3, <6>1 DEF Promised, TypeOK
        <5> QED
          BY <5>1, <5>2
      <4> QED
        BY <3>1, <4>1 DEF UploadsAreDurable, AsRecent
    <3> QED
      BY <3>2, <3>3
  <2> QED
    BY <2>3, <2>4, <2>5 DEF SafeInv
<1>5. CASE SnapshotRefused(c)
  <2>1. Harmless(call'[c])
    BY <1>0, <1>5 DEF SnapshotRefused, SnapshotThrows, CallSafe, Return,
       Harmless, NoCall, TypeOK
  <2>2. \A d \in Clients \ {c} : call'[d] = call[d]
    BY <1>5 DEF SnapshotRefused, SnapshotThrows, CopyAnyway, Return, TypeOK
  <2> QED
    BY <1>5, <2>1, <2>2, QuietStep DEF SnapshotRefused, SnapshotThrows
<1>6. CASE Copied(c)
  <2>1. Harmless(call'[c]) /\ \A d \in Clients \ {c} : call'[d] = call[d]
    BY <1>0, <1>6 DEF Copied, CallSafe, Return, Harmless, NoCall, TypeOK
  <2> QED
    BY <1>6, <2>1, QuietStep DEF Copied
<1>7. CASE Destroyed(c) \/ Wiped(c) \/ Cleared(c)
  BY <1>0, <1>7 DEF Destroyed, Wiped, Cleared, CallShape, CallSafe
<1> QED
  BY <1>1, <1>2, <1>3, <1>4, <1>5, <1>6, <1>7 DEF Answers

\* A failed request leaves the files alone.
LEMMA FailuresSafe ==
  ASSUME TypeOK, SafeInv, NEW c \in Clients, Failures(c)
  PROVE  SafeInv'
<1> USE DEF container, observed
<1>0. CallSafe(c, call[c]) /\ CallShape(call[c])
  BY DEF SafeInv, TypeOK
<1>1. CASE DestroyFails(c) \/ WipeFails(c) \/ ClearFails(c)
  BY <1>0, <1>1 DEF DestroyFails, WipeFails, ClearFails, CallShape, CallSafe
<1>2. CASE CommandFails(c) \/ UploadFails(c) \/ CopyFails(c)
  <2>1. Harmless(call'[c]) /\ \A d \in Clients \ {c} : call'[d] = call[d]
    BY <1>0, <1>2 DEF CommandFails, UploadFails, CopyFails, CallSafe, Return,
       Harmless, NoCall, TypeOK
  <2> QED
    BY <1>2, <2>1, QuietStep DEF CommandFails, UploadFails, CopyFails
<1>3. CASE SnapshotFails(c)
  <2>1. Harmless(call'[c]) /\ \A d \in Clients \ {c} : call'[d] = call[d]
    BY <1>0, <1>3 DEF SnapshotFails, SnapshotThrows, CallSafe, Return,
       Harmless, NoCall, TypeOK
  <2> QED
    BY <1>3, <2>1, QuietStep DEF SnapshotFails, SnapshotThrows
<1> QED
  BY <1>1, <1>2, <1>3 DEF Failures

\* A sleep finds no call in flight, and an eviction leaves none.
LEMMA PlatformSafe ==
  ASSUME Calm, TypeOK, SafeInv, Sleep \/ Crash \/ Evict
  PROVE  SafeInv'
<1> USE DEF container, observed
<1>1. ~Crash
  BY DEF Calm, Crash, Fault
<1>2. CASE Sleep
  <2>1. disk' = Empty /\ hydrated' = FALSE
        /\ UNCHANGED <<r2, version, hydrating, chain, call, owed>>
        /\ hydrating.phase = "none" /\ \A d \in Clients : call[d].pc = "idle"
    BY <1>2 DEF Sleep, ContainerDies
  <2>2. AsRecent(Empty, [f \in Files |-> version])
    BY DEF AsRecent, Empty, TypeOK
  <2>3. FilesSafe'
    BY <2>1, <2>2 DEF SafeInv, FilesSafe, AsRecent
  <2>4. ASSUME NEW d \in Clients
        PROVE  CallSafe(d, call[d])'
    BY <2>1 DEF CallSafe, SafeInv
  <2> QED
    BY <2>1, <2>3, <2>4 DEF SafeInv, UploadsAreDurable, AsRecent
<1>3. CASE Evict
  <2>1. UNCHANGED <<disk, hydrated, r2, version, owed>> /\ hydrating'.phase = "none"
    BY <1>3 DEF Evict, NotHydrating
  <2>2. FilesSafe'
    BY <2>1 DEF SafeInv, FilesSafe, AsRecent
  <2>3. ASSUME NEW d \in Clients
        PROVE  CallSafe(d, call[d])'
    BY <1>3 DEF Evict, CallSafe, NoCall
  <2> QED
    BY <2>1, <2>2, <2>3 DEF SafeInv, UploadsAreDurable, AsRecent
<1> QED
  BY <1>1, <1>2, <1>3

\* SafeInv is inductive.
LEMMA SafeInit ==
  ASSUME Init
  PROVE  SafeInv
<1>1. FilesSafe
  BY DEF Init, FilesSafe, AsRecent, Empty, NotHydrating
<1>2. \A c \in Clients : CallSafe(c, call[c])
  BY DEF Init, CallSafe, NoCall
<1>3. UploadsAreDurable
  BY DEF Init, UploadsAreDurable, AsRecent, Empty
<1> QED
  BY <1>1, <1>2, <1>3 DEF SafeInv

LEMMA SafeStep ==
  ASSUME Calm, TypeOK, TypeOK', SafeInv, [Next]_vars
  PROVE  SafeInv'
<1>1. CASE UNCHANGED vars
  BY <1>1 DEF vars, SafeInv, FilesSafe, CallSafe, HasTurn, UploadsAreDurable, AsRecent
<1>2. CASE Next
  BY <1>2, RequestsSafe, AnswersSafe, FailuresSafe, HydrationSafe, PlatformSafe
     DEF Next
<1> QED
  BY <1>1, <1>2

LEMMA SafeAlways ==
  ASSUME Calm
  PROVE  Spec => [](TypeOK /\ SafeInv)
<1>1. Init => SafeInv
  BY SafeInit
<1>2. TypeOK /\ TypeOK' /\ SafeInv /\ [Next]_vars => SafeInv'
  BY SafeStep
<1> QED
  BY <1>1, <1>2, TypeCorrect, PTL DEF Spec

\* An answered upload stays in R2, whatever turns, snapshots, failures, sleeps
\* and evictions overlap with it.
THEOREM AnsweredUploadsAreDurable ==
  ASSUME Calm
  PROVE  Spec => []UploadsAreDurable
<1>1. SafeInv => UploadsAreDurable
  BY DEF SafeInv
<1> QED
  BY <1>1, SafeAlways, PTL

\* No step but the one of a wipe puts an older file into R2, or drops one.
THEOREM StoredFilesNeverRegress ==
  ASSUME Calm
  PROVE  Spec => R2NeverRegresses
<1>1. ASSUME TypeOK, SafeInv, [Next]_vars, \A c \in Clients : call[c].pc # "wipe"
      PROVE  AsRecent(r2, r2')
  <2> USE DEF container, observed
  <2>1. CASE UNCHANGED r2
    BY <1>1, <2>1, Recency DEF TypeOK
  <2>2. ASSUME NEW c \in Clients, Stored(c)
        PROVE  AsRecent(r2, r2')
    BY <1>1, <2>2 DEF Stored, SafeInv, CallSafe
  <2>3. ASSUME NEW c \in Clients, Wiped(c)
        PROVE  FALSE
    BY <1>1, <2>3 DEF Wiped
  <2>4. ASSUME NEW c \in Clients, Requests(c)
        PROVE  UNCHANGED r2
    BY <2>4 DEF Requests, Exec, Upload, TurnEnds, TurnEndsClean, Promote, Archive,
       SnapshotIfDirty, Purge, Reset
  <2>5. ASSUME NEW c \in Clients, Answers(c), ~Stored(c), ~Wiped(c)
        PROVE  UNCHANGED r2
    BY <2>5 DEF Answers, CommandRuns, Uploaded, Tarred, SnapshotRefused,
       SnapshotThrows, Copied, Destroyed, Cleared
  <2>6. ASSUME NEW c \in Clients, Failures(c)
        PROVE  UNCHANGED r2
    BY <2>6 DEF Failures, CommandFails, UploadFails, SnapshotFails,
       SnapshotThrows, CopyFails, DestroyFails, WipeFails, ClearFails
  <2>7. ASSUME HydrationAnswers \/ HydrationFails \/ Sleep \/ Crash \/ Evict
        PROVE  UNCHANGED r2
    BY <2>7 DEF HydrationAnswers, StatusAnswered, ObjectRead, Restored,
       HydrationFails, Sleep, Crash, Evict
  <2>8. CASE UNCHANGED vars
    BY <2>1, <2>8 DEF vars
  <2>9. CASE Next
    BY <2>1, <2>2, <2>3, <2>4, <2>5, <2>6, <2>7, <2>9 DEF Next
  <2> QED
    BY <1>1, <2>8, <2>9
<1>2. TypeOK /\ SafeInv /\ [Next]_vars
        => [(\A c \in Clients : call[c].pc # "wipe") => AsRecent(r2, r2')]_vars
  BY <1>1
<1> QED
  BY <1>2, SafeAlways, PTL DEF Spec, R2NeverRegresses

\* While the container lives, no write, restore or settling hydration puts an
\* older file over a newer one.
THEOREM LiveFilesNeverRegress ==
  ASSUME Calm
  PROVE  Spec => DiskNeverRegresses
<1>1. ASSUME TypeOK, SafeInv, [Next]_vars, hydrated'
      PROVE  AsRecent(disk, disk')
  <2> USE DEF container, observed
  <2>1. CASE UNCHANGED disk
    BY <1>1, <2>1, Recency DEF TypeOK
  <2>2. ASSUME NEW c \in Clients, CommandRuns(c) \/ Uploaded(c)
        PROVE  AsRecent(disk, disk')
    <3>1. CallSafe(c, call[c]) /\ CallShape(call[c])
      BY <1>1 DEF SafeInv, TypeOK
    <3>2. hydrated /\ call[c].file \in Files /\ Write(call[c].file)
          /\ UNCHANGED <<r2, hydrating>>
      BY <2>2, <3>1 DEF CommandRuns, Uploaded, CallSafe, CallShape
    <3> QED
      BY <1>1, <3>2, WriteSafe
  <2>3. CASE Restored
    <3>1. disk = Empty /\ disk' \in Contents
      <4>1. disk = Empty
        BY <1>1, <2>3 DEF Restored, SafeInv, FilesSafe
      <4>2. disk' \in Contents
        BY <1>1, <2>3 DEF Restored, TypeOK, Contents
      <4> QED
        BY <4>1, <4>2
    <3> QED
      BY <3>1, Recency
  <2>4. ASSUME ContainerDies
        PROVE  FALSE
    BY <1>1, <2>4 DEF ContainerDies
  <2>5. ASSUME NEW c \in Clients, Requests(c)
        PROVE  UNCHANGED disk
    BY <2>5 DEF Requests, Exec, Upload, TurnEnds, TurnEndsClean, Promote, Archive,
       SnapshotIfDirty, Purge, Reset
  <2>6. ASSUME NEW c \in Clients, Answers(c), ~CommandRuns(c), ~Uploaded(c)
        PROVE  UNCHANGED disk
    BY <2>4, <2>6 DEF Answers, Tarred, Stored, SnapshotRefused, SnapshotThrows,
       Copied, Destroyed, Wiped, Cleared
  <2>7. ASSUME NEW c \in Clients, Failures(c)
        PROVE  UNCHANGED disk
    BY <2>7 DEF Failures, CommandFails, UploadFails, SnapshotFails,
       SnapshotThrows, CopyFails, DestroyFails, WipeFails, ClearFails
  <2>8. ASSUME StatusAnswered \/ ObjectRead \/ HydrationFails \/ Sleep \/ Crash \/ Evict
        PROVE  UNCHANGED disk
    BY <2>4, <2>8 DEF StatusAnswered, ObjectRead, HydrationFails, Sleep, Crash, Evict
  <2>9. CASE UNCHANGED vars
    BY <2>1, <2>9 DEF vars
  <2>10. CASE Next
    BY <2>1, <2>2, <2>3, <2>5, <2>6, <2>7, <2>8, <2>10 DEF Next, HydrationAnswers
  <2> QED
    BY <1>1, <2>9, <2>10
<1>2. TypeOK /\ SafeInv /\ [Next]_vars => [hydrated' => AsRecent(disk, disk')]_vars
  BY <1>1
<1> QED
  BY <1>2, SafeAlways, PTL DEF Spec, DiskNeverRegresses

\* Every command runs in a restored container.
THEOREM CommandsRunRestored ==
  ASSUME Calm
  PROVE  Spec => CommandsSeeWorkspace
<1>1. TypeOK /\ SafeInv /\ [Next]_vars
        => [\A c \in Clients : RanCommand(c) => hydrated]_vars
  BY DEF SafeInv, CallSafe, RanCommand
<1> QED
  BY <1>1, SafeAlways, PTL DEF Spec, CommandsSeeWorkspace

-----------------------------------------------------------------------------
(* Nothing a turn wrote is forgotten                                       *)

\* One client is the turn, whose calls follow each other; whoever else calls
\* uploads files.
OneTurn(t) ==
  /\ t \in Clients
  /\ May[t] \subseteq {"exec", "turnEnd", "promote"}
  /\ \A c \in Clients \ {t} : May[c] \subseteq {"upload"}

\* With k the turn's call, w what the commands wrote, d the disk, r the object
\* in R2 and m the mark: what the turn wrote is marked, in R2 or in a snapshot on
\* its way, and a promotion on its way has what it was asked to copy.
Covered(t, k, w, d, r, m) ==
  /\ AsRecent(w[t], d)
  /\ k.pc = "run" => m
  /\ m \/ AsRecent(w[t], r) \/ k.pc \in {"snapshot", "put"}
  /\ k.pc = "put" => AsRecent(w[t], k.bytes)
  /\ \A c \in Clients :
       /\ k.pc = "snapshot" => AsRecent(k.seen[c], d)
       /\ k.pc = "put" => AsRecent(k.seen[c], k.bytes)
       /\ k.pc = "copy" => AsRecent(k.seen[c], r)

TurnSafe(t) ==
  /\ \A c \in Clients \ {t} : wrote[c] = Empty /\ call[c].kind \in {"none", "upload"}
  /\ call[t].kind \in {"none", "exec", "turnEnd", "promote"}
  /\ Covered(t, call[t], wrote, disk, r2, dirty)

\* The turn's call stays covered while the files only rise and the mark stays.
LEMMA CoveredStays ==
  ASSUME NEW t \in Clients, NEW k \in CallType, NEW w \in [Clients -> Contents],
         NEW d \in Contents, NEW d2 \in Contents, NEW r \in Contents,
         NEW r2n \in Contents, NEW m \in BOOLEAN, NEW m2 \in BOOLEAN,
         Covered(t, k, w, d, r, m), AsRecent(d, d2), AsRecent(r, r2n), m => m2
  PROVE  Covered(t, k, w, d2, r2n, m2)
<1>1. /\ w[t] \in Contents /\ k.bytes \in Contents
      /\ \A c \in Clients : k.seen[c] \in Contents
  BY DEF CallType
<1>2. /\ AsRecent(w[t], d2)
      /\ AsRecent(w[t], r) => AsRecent(w[t], r2n)
  BY <1>1, Recency DEF Covered
<1>3. ASSUME NEW c \in Clients
      PROVE  /\ AsRecent(k.seen[c], d) => AsRecent(k.seen[c], d2)
             /\ AsRecent(k.seen[c], r) => AsRecent(k.seen[c], r2n)
  BY <1>1, <1>3, Recency
<1> QED
  BY <1>2, <1>3 DEF Covered

\* A call that asks nothing of a snapshot is covered once its writes are.
LEMMA CoveredAtRest ==
  ASSUME NEW t, NEW k, NEW w, NEW d, NEW r, NEW m,
         k.pc \in {"idle", "hydrate", "run"}, k.pc = "run" => m,
         AsRecent(w[t], d), m \/ AsRecent(w[t], r)
  PROVE  Covered(t, k, w, d, r, m)
BY DEF Covered

\* What TurnSafe says of the state a step leads to.
LEMMA TurnGoal ==
  ASSUME NEW t \in Clients,
         \A c \in Clients \ {t} : wrote'[c] = Empty /\ call'[c].kind \in {"none", "upload"},
         call'[t].kind \in {"none", "exec", "turnEnd", "promote"},
         Covered(t, call'[t], wrote', disk', r2', dirty')
  PROVE  TurnSafe(t)'
BY DEF TurnSafe, Covered, AsRecent

\* A step that leaves the turn's call and the writes alone.
LEMMA TurnWaits ==
  ASSUME TypeOK, TypeOK', NEW t \in Clients, TurnSafe(t), UNCHANGED wrote,
         call'[t] = call[t], AsRecent(disk, disk'), AsRecent(r2, r2'),
         dirty => dirty',
         \A c \in Clients \ {t} : call'[c].kind \in {"none", "upload"}
  PROVE  TurnSafe(t)'
<1>1. /\ call[t] \in CallType /\ wrote \in [Clients -> Contents]
      /\ disk \in Contents /\ disk' \in Contents /\ r2 \in Contents /\ r2' \in Contents
      /\ dirty \in BOOLEAN /\ dirty' \in BOOLEAN
  BY DEF TypeOK
<1>2. Covered(t, call[t], wrote, disk, r2, dirty)
  BY DEF TurnSafe
<1>3. Covered(t, call[t], wrote, disk', r2', dirty')
  BY <1>1, <1>2, CoveredStays
<1> QED
  BY <1>3, TurnGoal DEF TurnSafe

\* A step that brings the turn's call to rest, or to its command.
LEMMA TurnRests ==
  ASSUME TypeOK, TypeOK', NEW t \in Clients, TurnSafe(t), UNCHANGED wrote,
         call'[t].pc \in {"idle", "hydrate", "run"}, call'[t].pc = "run" => dirty',
         call'[t].kind \in {"none", "exec", "turnEnd", "promote"},
         AsRecent(disk, disk'), AsRecent(r2, r2'),
         \/ dirty'
         \/ ~dirty /\ call[t].pc \notin {"snapshot", "put"},
         \A c \in Clients \ {t} : call'[c].kind \in {"none", "upload"}
  PROVE  TurnSafe(t)'
<1>1. /\ wrote[t] \in Contents
      /\ disk \in Contents /\ disk' \in Contents /\ r2 \in Contents /\ r2' \in Contents
  BY DEF TypeOK
<1>2. /\ AsRecent(wrote[t], disk)
      /\ dirty' \/ AsRecent(wrote[t], r2)
  BY DEF TurnSafe, Covered
<1>3. /\ AsRecent(wrote[t], disk')
      /\ dirty' \/ AsRecent(wrote[t], r2')
  BY <1>1, <1>2, Recency
<1>4. Covered(t, call'[t], wrote', disk', r2', dirty')
  BY <1>3, CoveredAtRest
<1> QED
  BY <1>4, TurnGoal DEF TurnSafe

\* A request of the turn's.
LEMMA TurnAsks ==
  ASSUME TypeOK, TypeOK', NEW t, OneTurn(t), TurnSafe(t), NEW c \in Clients, Requests(c)
  PROVE  TurnSafe(t)'
<1> USE DEF container, observed
<1>0. /\ t \in Clients /\ call \in [Clients -> CallType] /\ disk \in Contents
      /\ r2 \in Contents /\ wrote \in [Clients -> Contents] /\ dirty \in BOOLEAN
      /\ AsRecent(disk, disk) /\ AsRecent(r2, r2)
  BY Recency DEF OneTurn, TypeOK
<1>1. /\ \A d \in Clients \ {t} : wrote[d] = Empty /\ call[d].kind \in {"none", "upload"}
      /\ call[t].kind \in {"none", "exec", "turnEnd", "promote"}
      /\ Covered(t, call[t], wrote, disk, r2, dirty)
  BY DEF TurnSafe
<1>2. ASSUME NEW kind, Request(c, kind)
      PROVE  /\ c = t => kind \in {"exec", "turnEnd", "promote"} /\ call[t].pc = "idle"
             /\ c # t => kind = "upload"
  BY <1>2 DEF Request, OneTurn
<1>3. CASE Exec(c)
  <2>1. c = t /\ call[t].pc = "idle"
    BY <1>2, <1>3 DEF Exec
  <2>2. /\ call'[t].pc = "hydrate" /\ call'[t].kind = "exec"
        /\ \A d \in Clients \ {t} : call'[d] = call[d]
    BY <1>0, <1>3, <2>1 DEF Exec, Enter, Start, NoCall
  <2>3. UNCHANGED <<disk, r2, dirty, wrote>>
    BY <1>3 DEF Exec
  <2> QED
    BY <1>0, <1>1, <2>1, <2>2, <2>3, TurnRests
<1>4. CASE Upload(c)
  <2>1. c # t
    BY <1>2, <1>4 DEF Upload
  <2>2. /\ call'[c].kind = "upload" /\ \A d \in Clients \ {c} : call'[d] = call[d]
    BY <1>0, <1>4 DEF Upload, Enter, Start, NoCall
  <2>3. UNCHANGED <<disk, r2, dirty, wrote>>
    BY <1>4 DEF Upload
  <2> QED
    BY <1>0, <1>1, <2>1, <2>2, <2>3, TurnWaits
<1>5. ASSUME NEW kind \in {"turnEnd", "promote"}, SnapshotIfDirty(c, kind),
             kind = "turnEnd" => dirty
      PROVE  TurnSafe(t)'
  <2>1. c = t /\ call[t].pc = "idle"
    BY <1>2, <1>5 DEF SnapshotIfDirty
  <2>2. /\ call'[t].kind = kind
        /\ call'[t].pc = IF dirty THEN "snapshot" ELSE "copy"
        /\ call'[t].seen \in {wrote, Unseen}
        /\ \A d \in Clients \ {t} : call'[d] = call[d]
    BY <1>0, <1>5, <2>1 DEF SnapshotIfDirty, Start, NoCall
  <2>3. UNCHANGED <<disk, r2, wrote>>
    BY <1>5 DEF SnapshotIfDirty
  <2>4. AsRecent(wrote[t], disk) /\ (dirty \/ AsRecent(wrote[t], r2))
    BY <1>1, <2>1 DEF Covered
  <2>5. \A d \in Clients \ {t} : AsRecent(wrote[d], disk) /\ AsRecent(wrote[d], r2)
    BY <1>0, <1>1, Recency
  <2>6. ASSUME NEW d \in Clients
        PROVE  AsRecent(call'[t].seen[d], disk) /\ (dirty \/ AsRecent(call'[t].seen[d], r2))
    <3>1. CASE call'[t].seen = wrote
      BY <2>4, <2>5, <3>1
    <3>2. CASE call'[t].seen = Unseen
      BY <1>0, <3>2, Recency DEF Unseen
    <3> QED
      BY <2>2, <3>1, <3>2
  <2>7. Covered(t, call'[t], wrote', disk', r2', dirty')
    BY <2>2, <2>3, <2>4, <2>6 DEF Covered
  <2> QED
    BY <1>0, <1>1, <2>2, <2>3, <2>7, TurnGoal
<1>6. CASE TurnEnds(c) \/ Promote(c)
  BY <1>5, <1>6 DEF TurnEnds, Promote
<1>7. CASE TurnEndsClean(c)
  <2>1. c = t /\ call[t].pc = "idle"
    BY <1>2, <1>7 DEF TurnEndsClean
  <2>2. /\ wrote'[t] = Empty /\ \A d \in Clients \ {t} : wrote'[d] = wrote[d]
        /\ UNCHANGED <<disk, r2, dirty, call>>
    BY <1>0, <1>7, <2>1 DEF TurnEndsClean
  <2>3. Covered(t, call'[t], wrote', disk', r2', dirty')
    BY <1>0, <2>1, <2>2, CoveredAtRest, Recency
  <2> QED
    BY <1>0, <1>1, <2>2, <2>3, TurnGoal
<1>8. CASE Archive(c) \/ Purge(c) \/ Reset(c)
  BY <1>2, <1>8 DEF Archive, SnapshotIfDirty, Purge, Reset
<1> QED
  BY <1>3, <1>4, <1>6, <1>7, <1>8 DEF Requests

\* What the object holds after a PUT is what it held, or newer.
LEMMA StoredIsNewer ==
  ASSUME SafeInv, NEW c \in Clients, Stored(c)
  PROVE  AsRecent(r2, r2') /\ r2' = call[c].bytes
BY DEF SafeInv, CallSafe, Stored

\* An answer to a call of the turn's.
LEMMA TurnAnswered ==
  ASSUME TypeOK, TypeOK', SafeInv, NEW t, OneTurn(t), TurnSafe(t), Answers(t)
  PROVE  TurnSafe(t)'
<1> USE DEF container, observed
<1>0. /\ t \in Clients /\ call \in [Clients -> CallType] /\ CallShape(call[t])
      /\ disk \in Contents /\ r2 \in Contents /\ wrote \in [Clients -> Contents]
      /\ dirty \in BOOLEAN /\ AsRecent(disk, disk) /\ AsRecent(r2, r2)
      /\ call[t] \in CallType
  BY Recency DEF OneTurn, TypeOK
<1>1. /\ \A d \in Clients \ {t} : wrote[d] = Empty /\ call[d].kind \in {"none", "upload"}
      /\ call[t].kind \in {"none", "exec", "turnEnd", "promote"}
      /\ Covered(t, call[t], wrote, disk, r2, dirty)
  BY DEF TurnSafe
<1>2. ASSUME Return(t)
      PROVE  /\ call'[t].pc = "idle" /\ call'[t].kind = "none"
             /\ \A d \in Clients \ {t} : call'[d] = call[d]
  BY <1>0, <1>2 DEF Return, NoCall
<1>3. CASE CommandRuns(t)
  <2>1. call[t].pc = "run" /\ call[t].file \in Files /\ dirty /\ dirty' = dirty
    BY <1>0, <1>1, <1>3 DEF CommandRuns, CallShape, Covered
  <2>. DEFINE f == call[t].file
              w == [wrote[t] EXCEPT ![f] = version + 1]
  <2>2. /\ wrote' = [wrote EXCEPT ![t] = w]
        /\ disk' = [disk EXCEPT ![f] = version + 1]
    BY <1>0, <1>3 DEF CommandRuns, Write
  <2>3. version + 1 \in Nat /\ wrote[t] \in Contents
    BY <1>0 DEF TypeOK
  <2>4. AsRecent(wrote'[t], disk')
    <3>1. AsRecent(wrote[t], disk)
      BY <1>1 DEF Covered
    <3>2. wrote'[t] = w
      BY <1>0, <2>2
    <3>3. \A g \in Files : w[g] <= disk'[g]
      BY <1>0, <2>1, <2>2, <2>3, <3>1 DEF AsRecent, Contents
    <3> HIDE DEF w
    <3> QED
      BY <3>2, <3>3 DEF AsRecent
  <2>5. \A d \in Clients \ {t} : wrote'[d] = wrote[d]
    BY <1>0, <2>2
  <2>6. Return(t)
    BY <1>3 DEF CommandRuns
  <2>7. Covered(t, call'[t], wrote', disk', r2', dirty')
    <3>1. call'[t].pc = "idle" /\ dirty'
      BY <1>2, <2>1, <2>6
    <3> QED
      BY <2>4, <3>1 DEF Covered
  <2> QED
    BY <1>0, <1>1, <1>2, <2>5, <2>6, <2>7, TurnGoal
<1>4. CASE Uploaded(t) \/ Destroyed(t) \/ Wiped(t) \/ Cleared(t)
  BY <1>0, <1>1, <1>4 DEF Uploaded, Destroyed, Wiped, Cleared, CallShape
<1>5. CASE Tarred(t)
  <2>1. call' = [call EXCEPT ![t] = [call[t] EXCEPT !.pc = "put", !.bytes = disk]]
        /\ call[t].pc = "snapshot" /\ UNCHANGED <<disk, r2, dirty, wrote>>
    BY <1>0, <1>5 DEF Tarred
  <2>2. /\ call'[t].pc = "put" /\ call'[t].bytes = disk
        /\ call'[t].kind = call[t].kind /\ call'[t].seen = call[t].seen
        /\ \A d \in Clients \ {t} : call'[d] = call[d]
    BY <1>0, <2>1 DEF CallType
  <2>3. Covered(t, call'[t], wrote', disk', r2', dirty')
    BY <1>1, <2>1, <2>2 DEF Covered
  <2> QED
    BY <1>0, <1>1, <2>1, <2>2, <2>3, TurnGoal
<1>6. CASE Stored(t)
  <2>1. call[t].pc = "put" /\ r2' = call[t].bytes /\ UNCHANGED <<disk, dirty>>
    BY <1>6 DEF Stored
  <2>2. /\ AsRecent(wrote[t], r2') /\ AsRecent(wrote[t], disk)
        /\ \A d \in Clients : AsRecent(call[t].seen[d], r2')
    BY <1>1, <2>1 DEF Covered
  <2>3. CASE call[t].kind = "promote"
    <3>1. call' = [call EXCEPT ![t] = [call[t] EXCEPT !.pc = "copy"]]
          /\ UNCHANGED wrote
      BY <1>0, <1>6, <2>3 DEF Stored, AfterSnapshot, Goto
    <3>2. /\ call'[t].pc = "copy" /\ call'[t].kind = "promote"
          /\ call'[t].seen = call[t].seen
          /\ \A d \in Clients \ {t} : call'[d] = call[d]
      BY <1>0, <2>3, <3>1 DEF CallType
    <3>3. Covered(t, call'[t], wrote', disk', r2', dirty')
      BY <2>1, <2>2, <3>1, <3>2 DEF Covered
    <3> QED
      BY <1>0, <1>1, <3>1, <3>2, <3>3, TurnGoal
  <2>4. CASE call[t].kind # "promote"
    <3>1. call[t].kind = "turnEnd"
      BY <1>0, <1>1, <2>1, <2>4 DEF CallShape
    <3>2. Return(t) /\ wrote' = [wrote EXCEPT ![t] = Empty]
      BY <1>6, <3>1 DEF Stored, AfterSnapshot
    <3>3. wrote'[t] = Empty /\ \A d \in Clients \ {t} : wrote'[d] = wrote[d]
      BY <1>0, <3>2
    <3>4. AsRecent(wrote'[t], disk') /\ AsRecent(wrote'[t], r2')
      BY <1>0, <2>1, <3>3, Recency DEF TypeOK
    <3>5. call'[t].pc = "idle"
      BY <1>2, <3>2
    <3>6. Covered(t, call'[t], wrote', disk', r2', dirty')
      BY <3>4, <3>5 DEF Covered
    <3> QED
      BY <1>0, <1>1, <1>2, <3>2, <3>3, <3>6, TurnGoal
  <2> QED
    BY <2>3, <2>4
<1>7. ASSUME SnapshotThrows(t), call[t].pc \in {"snapshot", "put"}
      PROVE  TurnSafe(t)'
  <2>1. dirty' /\ Return(t) /\ UNCHANGED <<disk, r2, wrote>>
    BY <1>1, <1>7 DEF SnapshotThrows, MarkAfterFailure
  <2> QED
    BY <1>0, <1>1, <1>2, <2>1, TurnRests
<1>8. CASE SnapshotRefused(t)
  BY <1>7, <1>8 DEF SnapshotRefused
<1>9. CASE Copied(t)
  <2>1. call[t].pc = "copy" /\ call[t].kind = "promote"
    BY <1>0, <1>1, <1>9 DEF Copied, CallShape
  <2>2. Return(t) /\ UNCHANGED <<disk, r2, wrote, dirty>>
    BY <1>9, <2>1 DEF Copied
  <2> QED
    BY <1>0, <1>1, <1>2, <2>1, <2>2, TurnRests
<1> QED
  BY <1>3, <1>4, <1>5, <1>6, <1>8, <1>9 DEF Answers

\* A failure of a call of the turn's marks what it was to save.
LEMMA TurnFails ==
  ASSUME TypeOK, TypeOK', NEW t, OneTurn(t), TurnSafe(t), Failures(t)
  PROVE  TurnSafe(t)'
<1> USE DEF container, observed
<1>0. /\ t \in Clients /\ call \in [Clients -> CallType] /\ CallShape(call[t])
      /\ disk \in Contents /\ r2 \in Contents
      /\ dirty \in BOOLEAN /\ AsRecent(disk, disk) /\ AsRecent(r2, r2)
  BY Recency DEF OneTurn, TypeOK
<1>1. /\ \A d \in Clients \ {t} : wrote[d] = Empty /\ call[d].kind \in {"none", "upload"}
      /\ call[t].kind \in {"none", "exec", "turnEnd", "promote"}
      /\ Covered(t, call[t], wrote, disk, r2, dirty)
  BY DEF TurnSafe
<1>2. ASSUME Return(t)
      PROVE  /\ call'[t].pc = "idle" /\ call'[t].kind = "none"
             /\ \A d \in Clients \ {t} : call'[d] = call[d]
  BY <1>0, <1>2 DEF Return, NoCall
<1>3. CASE UploadFails(t) \/ DestroyFails(t) \/ WipeFails(t) \/ ClearFails(t)
  BY <1>0, <1>1, <1>3 DEF UploadFails, DestroyFails, WipeFails, ClearFails, CallShape
<1>4. CASE CommandFails(t) \/ CopyFails(t)
  <2>1. call[t].pc \in {"run", "copy"} /\ call[t].kind # "archive"
    BY <1>1, <1>4 DEF CommandFails, CopyFails
  <2>2. Return(t) /\ UNCHANGED <<disk, r2, wrote, dirty>>
    BY <1>4, <2>1 DEF CommandFails, CopyFails
  <2> QED
    BY <1>0, <1>1, <1>2, <2>1, <2>2, TurnRests
<1>5. CASE SnapshotFails(t)
  <2>1. SnapshotThrows(t) /\ call[t].pc \in {"snapshot", "put"}
    BY <1>5 DEF SnapshotFails
  <2>2. call[t].kind \in {"turnEnd", "promote"}
    BY <1>0, <1>1, <2>1 DEF CallShape
  <2>3. dirty' /\ Return(t) /\ UNCHANGED <<disk, r2, wrote>>
    BY <2>1, <2>2 DEF SnapshotThrows, MarkAfterFailure
  <2> QED
    BY <1>0, <1>1, <1>2, <2>3, TurnRests
<1> QED
  BY <1>3, <1>4, <1>5 DEF Failures

\* A step of an upload leaves the turn's mark alone.
LEMMA UploadBeside ==
  ASSUME TypeOK, TypeOK', SafeInv, NEW t, OneTurn(t), TurnSafe(t),
         NEW c \in Clients, c # t, Answers(c) \/ Failures(c)
  PROVE  TurnSafe(t)'
<1> USE DEF container, observed
<1>0. /\ t \in Clients /\ call \in [Clients -> CallType] /\ CallShape(call[c])
      /\ call[c] \in CallType /\ disk \in Contents /\ r2 \in Contents
      /\ AsRecent(disk, disk) /\ AsRecent(r2, r2)
  BY Recency DEF OneTurn, TypeOK
<1>1. /\ \A d \in Clients \ {t} : wrote[d] = Empty /\ call[d].kind \in {"none", "upload"}
      /\ call[c].kind \in {"none", "upload"}
      /\ call[t].kind \in {"none", "exec", "turnEnd", "promote"}
  BY DEF TurnSafe
<1>2. call[c].pc \in {"idle", "hydrate", "upload", "snapshot", "put"}
  BY <1>0, <1>1 DEF CallShape, CallType, PCs
<1>3. ASSUME Return(c)
      PROVE  /\ call'[t] = call[t]
             /\ \A d \in Clients \ {t} : call'[d].kind \in {"none", "upload"}
  BY <1>0, <1>1, <1>3 DEF Return, NoCall
<1>4. CASE Uploaded(c)
  <2>1. hydrated /\ call[c].file \in Files
    BY <1>0, <1>1, <1>4 DEF Uploaded, CallShape, SafeInv, CallSafe
  <2>2. AsRecent(disk, disk')
    BY <1>4, <2>1, WriteSafe DEF Uploaded
  <2>3. call' = [call EXCEPT ![c] = [call[c] EXCEPT !.pc = "snapshot", !.ver = version + 1]]
        /\ UNCHANGED <<r2, dirty, wrote>>
    BY <1>0, <1>4 DEF Uploaded
  <2>4. call'[c].kind = call[c].kind /\ \A d \in Clients \ {c} : call'[d] = call[d]
    BY <1>0, <2>3 DEF CallType
  <2> QED
    BY <1>0, <1>1, <2>2, <2>3, <2>4, TurnWaits
<1>5. CASE Tarred(c)
  <2>1. call' = [call EXCEPT ![c] = [call[c] EXCEPT !.pc = "put", !.bytes = disk]]
        /\ UNCHANGED <<disk, r2, dirty, wrote>>
    BY <1>0, <1>5 DEF Tarred
  <2>2. call'[c].kind = call[c].kind /\ \A d \in Clients \ {c} : call'[d] = call[d]
    BY <1>0, <2>1 DEF CallType
  <2> QED
    BY <1>0, <1>1, <2>1, <2>2, TurnWaits
<1>6. CASE Stored(c)
  <2>1. AsRecent(r2, r2') /\ call[c].kind = "upload"
    BY <1>0, <1>1, <1>6, StoredIsNewer DEF Stored, CallShape
  <2>2. Return(c) /\ UNCHANGED <<disk, dirty, wrote>>
    BY <1>6, <2>1 DEF Stored, AfterSnapshot
  <2> QED
    BY <1>0, <1>3, <2>1, <2>2, TurnWaits
<1>7. CASE SnapshotRefused(c) \/ SnapshotFails(c)
  <2>1. call[c].kind = "upload" /\ SnapshotThrows(c)
    BY <1>0, <1>1, <1>7 DEF SnapshotRefused, SnapshotFails, CallShape
  <2>2. Return(c) /\ UNCHANGED <<disk, r2, dirty, wrote>>
    BY <2>1 DEF SnapshotThrows, MarkAfterFailure
  <2> QED
    BY <1>0, <1>3, <2>2, TurnWaits
<1>8. CASE UploadFails(c)
  BY <1>0, <1>3, <1>8, TurnWaits DEF UploadFails
<1>9. CASE \/ CommandRuns(c) \/ Copied(c) \/ Destroyed(c) \/ Wiped(c) \/ Cleared(c)
           \/ CommandFails(c) \/ CopyFails(c) \/ DestroyFails(c) \/ WipeFails(c)
           \/ ClearFails(c)
  BY <1>2, <1>9 DEF CommandRuns, Copied, Destroyed, Wiped, Cleared, CommandFails,
     CopyFails, DestroyFails, WipeFails, ClearFails
<1> QED
  BY <1>4, <1>5, <1>6, <1>7, <1>8, <1>9 DEF Answers, Failures

\* A hydration marks the workspace before it lets the turn's command go.
LEMMA TurnHydrates ==
  ASSUME TypeOK, TypeOK', SafeInv, NEW t, OneTurn(t), TurnSafe(t),
         HydrationAnswers \/ HydrationFails
  PROVE  TurnSafe(t)'
<1> USE DEF container, observed
<1>0. /\ t \in Clients /\ call \in [Clients -> CallType] /\ CallShape(call[t])
      /\ call[t] \in CallType /\ disk \in Contents /\ disk' \in Contents
      /\ r2 \in Contents /\ dirty \in BOOLEAN
      /\ AsRecent(disk, disk) /\ AsRecent(r2, r2)
  BY Recency DEF OneTurn, TypeOK
<1>1. /\ \A d \in Clients \ {t} : wrote[d] = Empty /\ call[d].kind \in {"none", "upload"}
      /\ call[t].kind \in {"none", "exec", "turnEnd", "promote"}
  BY DEF TurnSafe
<1>2. ASSUME Settle, UNCHANGED <<r2, wrote>>, AsRecent(disk, disk')
      PROVE  TurnSafe(t)'
  <2>1. ASSUME NEW d \in Clients
        PROVE  call'[d].kind = call[d].kind
    BY <1>0, <1>2, <2>1 DEF Settle, CallType
  <2>2. CASE Waiting(t)
    <3>1. call[t].kind = "exec" /\ call[t].pc = "hydrate"
      BY <1>0, <1>1, <2>2 DEF Waiting, CallShape
    <3>2. dirty'
      BY <1>0, <1>2, <2>2, <3>1 DEF Settle
    <3>3. call'[t] = [call[t] EXCEPT !.pc = "run"]
      BY <1>0, <1>2, <2>2, <3>1 DEF Settle
    <3>4. call'[t].pc = "run"
      BY <1>0, <3>3 DEF CallType
    <3> QED
      BY <1>0, <1>1, <1>2, <2>1, <3>2, <3>4, TurnRests
  <2>3. CASE ~Waiting(t)
    <3>1. call'[t] = call[t] /\ (dirty => dirty')
      BY <1>0, <1>2, <2>3 DEF Settle
    <3> QED
      BY <1>0, <1>1, <1>2, <2>1, <3>1, TurnWaits
  <2> QED
    BY <2>2, <2>3
<1>3. CASE (StatusAnswered /\ ~hydrated) \/ ObjectRead
  <2>1. UNCHANGED <<disk, r2, dirty, wrote, call>>
    BY <1>3 DEF StatusAnswered, ObjectRead
  <2> QED
    BY <1>0, <1>1, <2>1, TurnWaits
<1>4. CASE StatusAnswered /\ hydrated
  BY <1>0, <1>2, <1>4 DEF StatusAnswered
<1>5. CASE Restored
  <2>1. disk = Empty
    BY <1>5 DEF Restored, SafeInv, FilesSafe
  <2>2. AsRecent(disk, disk')
    BY <1>0, <2>1, Recency
  <2> QED
    BY <1>2, <1>5, <2>2 DEF Restored
<1>6. CASE HydrationFails
  <2>1. UNCHANGED <<disk, r2, dirty, wrote>>
        /\ \A d \in Clients : call'[d] = IF Waiting(d) THEN NoCall ELSE call[d]
    BY <1>6 DEF HydrationFails
  <2>2. \A d \in Clients \ {t} : call'[d].kind \in {"none", "upload"}
    BY <1>1, <2>1 DEF NoCall
  <2>3. CASE Waiting(t)
    <3>1. call'[t].pc = "idle" /\ call'[t].kind = "none" /\ call[t].pc = "hydrate"
      BY <1>0, <2>1, <2>3 DEF NoCall, Waiting
    <3> QED
      BY <1>0, <2>1, <2>2, <3>1, TurnRests
  <2>4. CASE ~Waiting(t)
    BY <1>0, <2>1, <2>2, <2>4, TurnWaits
  <2> QED
    BY <2>3, <2>4
<1> QED
  BY <1>3, <1>4, <1>5, <1>6 DEF HydrationAnswers

\* A container that stops when no call is in flight takes with it what was not
\* saved, and with it what there was to save.
LEMMA TurnSleeps ==
  ASSUME TypeOK, TypeOK', NEW t, OneTurn(t), TurnSafe(t), Sleep
  PROVE  TurnSafe(t)'
<1>1. /\ t \in Clients /\ \A d \in Clients : wrote'[d] = Empty
      /\ call[t].pc = "idle" /\ UNCHANGED <<r2, dirty, call>> /\ disk' = Empty
  BY DEF Sleep, ContainerDies, Unseen, OneTurn
<1>2. AsRecent(Empty, r2) /\ AsRecent(Empty, Empty)
  BY Recency, Blanks DEF TypeOK
<1>3. Covered(t, call'[t], wrote', disk', r2', dirty')
  BY <1>1, <1>2, CoveredAtRest
<1> QED
  BY <1>1, <1>3, TurnGoal DEF TurnSafe

LEMMA TurnSafeAlways ==
  ASSUME NEW t, OneTurn(t), Faults \cap {"crash", "evict"} = {}
  PROVE  Spec => [](TypeOK /\ SafeInv /\ TurnSafe(t))
<1>0. Calm
  BY DEF OneTurn, Calm
<1>1. ASSUME Init
      PROVE  TurnSafe(t)
  <2>1. /\ t \in Clients /\ disk = Empty /\ r2 = Empty
        /\ \A d \in Clients : wrote[d] = Empty /\ call[d].kind = "none" /\ call[d].pc = "idle"
    BY <1>1 DEF Init, OneTurn, Unseen, NoCall
  <2>2. Covered(t, call[t], wrote, disk, r2, dirty)
    BY <2>1, Recency, Blanks, CoveredAtRest
  <2> QED
    BY <2>1, <2>2 DEF TurnSafe
<1>2. ASSUME TypeOK, TypeOK', SafeInv, TurnSafe(t), [Next]_vars
      PROVE  TurnSafe(t)'
  <2>1. CASE UNCHANGED vars
    BY <1>2, <2>1 DEF vars, TurnSafe, Covered, AsRecent
  <2>2. ASSUME NEW c \in Clients, Answers(c) \/ Failures(c)
        PROVE  TurnSafe(t)'
    BY <1>2, <2>2, TurnAnswered, TurnFails, UploadBeside
  <2>3. CASE Crash \/ Evict
    BY <2>3 DEF Crash, Evict, Fault
  <2>4. CASE Next
    BY <1>2, <2>2, <2>3, <2>4, TurnAsks, TurnHydrates, TurnSleeps DEF Next
  <2> QED
    BY <1>2, <2>1, <2>4
<1> QED
  BY <1>0, <1>1, <1>2, SafeAlways, PTL DEF Spec

\* With no call in flight, what the turn's commands wrote is in R2 or marked, so
\* that the next turn end saves it, whatever uploads, failures and sleeps came in
\* between: the mark is set before a command is sent, taken only by a snapshot of
\* the turn's own, and put back when that fails.  An eviction in the middle of a
\* snapshot loses the mark, which the hypothesis excludes.
THEOREM WritesAreMarkedOrSaved ==
  ASSUME NEW t, OneTurn(t), Faults \cap {"crash", "evict"} = {}
  PROVE  Spec => []UnsavedWritesAreMarked
<1>1. TypeOK /\ SafeInv /\ TurnSafe(t) => UnsavedWritesAreMarked
  <2> SUFFICES ASSUME TypeOK, TurnSafe(t), ~dirty,
                      \A c \in Clients : call[c].pc = "idle", NEW c \in Clients
               PROVE  AsRecent(wrote[c], r2)
    BY DEF UnsavedWritesAreMarked
  <2>1. CASE c = t
    BY <2>1 DEF TurnSafe, Covered
  <2>2. CASE c # t
    BY <2>2, Recency DEF TurnSafe, TypeOK
  <2> QED
    BY <2>1, <2>2
<1> QED
  BY <1>1, TurnSafeAlways, PTL

\* A promotion copies at least what the turn's commands had written when it was
\* asked for, although the snapshot it waits for shares its chain with uploads.
THEOREM PromotionsAreCurrent ==
  ASSUME NEW t, OneTurn(t), Faults \cap {"crash", "evict"} = {}
  PROVE  Spec => CopiesAreCurrent
<1>1. ASSUME TypeOK, TurnSafe(t), NEW c \in Clients, call[c].pc = "copy",
             copies' = [copies EXCEPT ![call[c].kind] = r2], NEW d \in Clients
      PROVE  AsRecent(call[c].seen[d], copies'[call[c].kind])
  <2>1. call[c].kind \in {"promote", "archive"}
    BY <1>1 DEF TypeOK, CallShape
  <2>2. c = t
    BY <1>1, <2>1 DEF TurnSafe
  <2>3. AsRecent(call[c].seen[d], r2)
    BY <1>1, <2>2 DEF TurnSafe, Covered
  <2>4. copies'[call[c].kind] = r2
    BY <1>1, <2>1 DEF TypeOK
  <2> QED
    BY <2>3, <2>4
<1>2. TypeOK /\ SafeInv /\ TurnSafe(t)
        => [\A c \in Clients :
              (call[c].pc = "copy" /\ copies' = [copies EXCEPT ![call[c].kind] = r2]
                 /\ faults' = faults /\ call[c]'.pc # "copy")
              => \A d \in Clients : AsRecent(call[c].seen[d], copies'[call[c].kind])]_vars
  BY <1>1
<1> QED
  BY <1>2, TurnSafeAlways, PTL DEF Spec, CopiesAreCurrent

=============================================================================
