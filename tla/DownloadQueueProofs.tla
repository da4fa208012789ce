------------------------- MODULE DownloadQueueProofs -------------------------
(***************************************************************************)
(* Theorems about DownloadQueue, for every set of assets, tasks, clients   *)
(* and limits: types, who owns an asset, what stays settled, how many      *)
(* workers there are, files and attempts through crashes, backoff, the     *)
(* budget of retries, and that the queue implements AssetLifecycle.        *)
(***************************************************************************)
EXTENDS DownloadQueue, FiniteSetTheorems, TLAPS

\* Types alone are not inductive: whoever is about to write an asset's row
\* must have an asset in hand.
HoldsAnAsset ==
    /\ poller.pc \in {"commit", "spawn"} => poller.pick \in Assets
    /\ \A c \in Clients : request[c].op # "idle" => request[c].asset \in Assets
    /\ \A w \in Live : task[w].asset \in Assets

WellTyped == TypeOK /\ HoldsAnAsset

\* The counts the code takes (running tasks, attempts in a cycle) are numbers.
LEMMA CountIsNat ==
    ASSUME NEW S, S \subseteq Tasks
    PROVE  Cardinality(S) \in Nat
BY ConstantsAssumption, FS_Subset, FS_CardinalityType

\* The queue starts well typed.
LEMMA InitWellTyped == Init => WellTyped
BY ConstantsAssumption
DEF Init, WellTyped, HoldsAnAsset, TypeOK, Poller, Worker, Row, Request, NoRow,
    IdleWorker, NoRequest, None, MediaState, Claimable, InFlight, Imported,
    AttemptStatus, NextRetry, Live, LivePC

\* A worker record that has ended or has not begun is a worker record.
LEMMA IdleWorkerType ==
    ASSUME NEW pc \in LivePC \cup {"unused", "done", "dead"},
           NEW a \in Assets \cup {None}
    PROVE  [IdleWorker EXCEPT !.pc = pc, !.asset = a] \in Worker
BY DEF IdleWorker, Worker, MediaState, InFlight

\* The poller's steps keep every variable in its type.
LEMMA PollerWellTyped ==
    ASSUME WellTyped, PollerStep
    PROVE  WellTyped'
<1> USE ConstantsAssumption DEF WellTyped, HoldsAnAsset, TypeOK, Poller
<1>1. CASE Start
  BY <1>1 DEF Start, dbVars, histVars, Live
<1>2. CASE ReconcileInterruptedAssets
  <2>1. row' \in [Tasks -> Row]
    <3>1. \A w \in Tasks : [row[w] EXCEPT !.status = "INTERRUPTED"] \in Row
      BY DEF Row, AttemptStatus
    <3> QED
      BY <1>2, <3>1 DEF ReconcileInterruptedAssets
  <2>2. state' \in [Assets -> MediaState]
    BY <1>2 DEF ReconcileInterruptedAssets, MediaState, Claimable
  <2> QED
    BY <1>2, <2>1, <2>2 DEF ReconcileInterruptedAssets, histVars, Live
<1>3. CASE TickStart
  <2> DEFINE k == Cardinality(Live)
  <2>1. k \in Nat
    BY CountIsNat DEF Live
  <2>2. limit \in Nat
    OBVIOUS
  <2>3. k < limit => limit - k \in Nat
    BY <2>1, <2>2
  <2>4. poller' = IF k < limit THEN [poller EXCEPT !.pc = "claim", !.slots = limit - k]
                  ELSE poller
    BY <1>3 DEF TickStart
  <2>5. poller' \in Poller /\ poller'.pc \notin {"commit", "spawn"}
    <3> HIDE DEF k
    <3> QED
      BY ZenonT(60), <1>3, <2>3, <2>4 DEF TickStart
  <2> QED
    BY <1>3, <2>5 DEF TickStart, dbVars, histVars, Live
<1>4. CASE \E a \in Assets : ClaimRead(a)
  BY ZenonT(60), <1>4 DEF ClaimRead, dbVars, histVars, Live
<1>5. CASE ClaimNone
  BY <1>5 DEF ClaimNone, dbVars, histVars, Live
<1>6. CASE ClaimCommit
  <2>1. state' \in [Assets -> MediaState]
    BY <1>6 DEF ClaimCommit, MediaState, InFlight
  <2>2. stale' \subseteq Assets
    BY <1>6 DEF ClaimCommit
  <2>3. poller' \in Poller /\ poller'.pick \in Assets
    BY <1>6 DEF ClaimCommit
  <2> QED
    BY <1>6, <2>1, <2>2, <2>3 DEF ClaimCommit, Live
<1>7. CASE Spawn
  <2>1. PICK w \in Tasks :
          task' = [task EXCEPT ![w] = [IdleWorker EXCEPT !.pc = "load",
                                                         !.asset = poller.pick]]
    BY <1>7 DEF Spawn
  <2>2. [IdleWorker EXCEPT !.pc = "load", !.asset = poller.pick] \in Worker
    BY <1>7, IdleWorkerType DEF Spawn, LivePC
  <2>3. task' \in [Tasks -> Worker]
    BY <2>1, <2>2
  <2>4. \A v \in Live' : task'[v].asset \in Assets
    BY <1>7, <2>1 DEF Spawn, Live, IdleWorker
  <2>5. poller' \in Poller /\ poller'.pc \notin {"commit", "spawn"}
    BY <1>7 DEF Spawn
  <2> QED
    BY <1>7, <2>3, <2>4, <2>5 DEF Spawn, dbVars, histVars
<1> QED
  BY <1>1, <1>2, <1>3, <1>4, <1>5, <1>6, <1>7 DEF PollerStep

\* A worker that is moved on keeps its type and its asset.
LEMMA GotoWellTyped ==
    ASSUME WellTyped, NEW w \in Tasks, NEW pc \in LivePC, NEW seen \in MediaState,
           w \in Live, Goto(w, pc, seen)
    PROVE  /\ task' \in [Tasks -> Worker]
           /\ \A v \in Live' : task'[v].asset \in Assets
           /\ Live' = Live
BY ZenonT(60) DEF WellTyped, HoldsAnAsset, TypeOK, Goto, Worker, Live

\* A worker that ends holds no asset any more.
LEMMA RetireWellTyped ==
    ASSUME WellTyped, NEW w \in Tasks, NEW pc \in {"done", "dead"}, Retire(w, pc)
    PROVE  /\ task' \in [Tasks -> Worker]
           /\ \A v \in Live' : task'[v].asset \in Assets
           /\ Live' = Live \ {w}
<1>1. [IdleWorker EXCEPT !.pc = pc] \in Worker
  BY DEF IdleWorker, Worker, MediaState, InFlight
<1>2. [IdleWorker EXCEPT !.pc = pc].pc = pc
  BY DEF IdleWorker
<1> QED
  BY <1>1, <1>2 DEF WellTyped, HoldsAnAsset, TypeOK, Retire, Live, LivePC

\* Updating a row or a worker field by field keeps it a row or a worker.
LEMMA RowUpdate ==
    ASSUME NEW r \in Row, NEW s \in AttemptStatus, NEW n \in NextRetry
    PROVE  [r EXCEPT !.status = s, !.next = n] \in Row
BY DEF Row

\* The same for a worker that has read its asset.
LEMMA WorkerUpdate ==
    ASSUME NEW r \in Worker, NEW pc \in LivePC, NEW s \in MediaState,
           NEW n \in Nat, NEW k \in Nat
    PROVE  [r EXCEPT !.pc = pc, !.seen = s, !.number = n, !.inCycle = k] \in Worker
BY DEF Worker

\* Writing an asset's state through a session keeps it a MediaState.
LEMMA SetStateType ==
    ASSUME WellTyped, NEW w \in Tasks, NEW new \in MediaState, SetState(w, new)
    PROVE  state' \in [Assets -> MediaState]
BY DEF WellTyped, TypeOK, SetState

\* A worker's steps keep every variable in its type.
LEMMA WorkerWellTyped ==
    ASSUME WellTyped, NEW w \in Tasks, WorkerStep(w)
    PROVE  WellTyped'
<1> USE ConstantsAssumption DEF WellTyped, HoldsAnAsset, TypeOK
<1> DEFINE a == task[w].asset
<1>1. CASE Load(w)
  <2>0. w \in Live /\ a \in Assets
    BY <1>1 DEF Load, AtPC, Live, LivePC
  <2> DEFINE k == Cardinality({v \in Rows(a) : row[v].cycle >= retries[a]}) + 1
  <2>1. k \in Nat
    BY CountIsNat DEF Rows
  <2>2. \A v \in Tasks : row[v].number + 1 \in Nat
    BY DEF Row
  <2>3. state[a] \in MediaState
    BY <2>0
  <2>4. PICK n \in {1} \cup {row[v].number + 1 : v \in LatestOf(Rows(a))} :
          task' = [task EXCEPT ![w] = [@ EXCEPT !.pc = "begin", !.seen = state[a],
                                                !.number = n, !.inCycle = k]]
    BY <1>1 DEF Load
  <2>5. n \in Nat
    BY SMTT(60), <2>2 DEF LatestOf, Rows
  <2>6. [task[w] EXCEPT !.pc = "begin", !.seen = state[a], !.number = n, !.inCycle = k]
          \in Worker
    <3> HIDE DEF k
    <3> QED
      BY <2>1, <2>3, <2>5, WorkerUpdate DEF LivePC
  <2>7. task' \in [Tasks -> Worker] /\ \A v \in Live' : task'[v].asset \in Assets
    <3> HIDE DEF k
    <3> QED
      BY <2>0, <2>4, <2>6 DEF Live
  <2> QED
    BY <1>1, <2>7 DEF Load, dbVars, histVars
<1>2. CASE BeginAttempt(w)
  <2>0. w \in Live /\ a \in Assets /\ task[w].seen \in MediaState
    BY <1>2 DEF BeginAttempt, AtPC, Live, LivePC, Worker
  <2>1. row' \in [Tasks -> Row]
    BY <1>2, <2>0 DEF BeginAttempt, Row, AttemptStatus, NextRetry, Worker
  <2> QED
    BY <1>2, <2>0, <2>1, GotoWellTyped DEF BeginAttempt, histVars, LivePC
<1>3. CASE Downloaded(w) \/ Processed(w)
  <2>0. w \in Live
    BY <1>3 DEF Downloaded, Processed, AtPC, Live, LivePC
  <2>1. state' \in [Assets -> MediaState]
    BY <1>3, SetStateType DEF Downloaded, Processed, MediaState, InFlight
  <2>2. task' \in [Tasks -> Worker] /\ \A v \in Live' : task'[v].asset \in Assets
    BY <1>3, <2>0, GotoWellTyped DEF Downloaded, Processed, MediaState, InFlight, LivePC
  <2> QED
    BY <1>3, <2>1, <2>2 DEF Downloaded, Processed, histVars
<1>4. CASE MoveIntoLibrary(w)
  <2>0. w \in Live /\ task[w].seen \in MediaState
    BY <1>4 DEF MoveIntoLibrary, AtPC, Live, LivePC, Worker
  <2> QED
    BY <1>4, <2>0, GotoWellTyped DEF MoveIntoLibrary, dbVars, histVars, LivePC
<1>5. CASE ImportAsset(w)
  <2>0. w \in Live
    BY <1>5 DEF ImportAsset, AtPC, Live, LivePC
  <2>1. PICK final \in Imported : SetState(w, final) /\ Goto(w, "finish", final)
    BY <1>5 DEF ImportAsset, Imported
  <2>2. final \in MediaState
    BY DEF MediaState
  <2>3. state' \in [Assets -> MediaState]
    BY <2>1, <2>2, SetStateType
  <2>4. task' \in [Tasks -> Worker] /\ \A v \in Live' : task'[v].asset \in Assets
    BY <2>0, <2>1, <2>2, GotoWellTyped DEF LivePC
  <2> QED
    BY <1>5, <2>3, <2>4 DEF ImportAsset, histVars
<1>6. CASE Finish(w)
  <2>1. [row[w] EXCEPT !.status = "SUCCEEDED", !.next = "none"] \in Row
    BY RowUpdate DEF NextRetry, AttemptStatus
  <2>2. row' \in [Tasks -> Row]
    BY <1>6, <2>1 DEF Finish
  <2> QED
    BY SMTT(60), <1>6, <2>2, RetireWellTyped DEF Finish, histVars
<1>7. CASE Fail(w)
  <2>0. PICK next \in NextRetry :
          row' = [row EXCEPT ![w] = [@ EXCEPT !.status = "FAILED", !.next = next]]
    BY <1>7 DEF Fail, NextRetry
  <2>1. row' \in [Tasks -> Row]
    <3>1. [row[w] EXCEPT !.status = "FAILED", !.next = next] \in Row
      BY RowUpdate DEF AttemptStatus
    <3> QED
      BY <2>0, <3>1
  <2>2. PICK new \in {"QUEUED", "DOWNLOAD_FAILED"} : SetState(w, new)
    BY <1>7 DEF Fail
  <2>3. state' \in [Assets -> MediaState]
    BY <2>2, SetStateType DEF MediaState, Claimable
  <2> QED
    BY <1>7, <2>1, <2>3, RetireWellTyped DEF Fail, histVars
<1> QED
  BY <1>1, <1>2, <1>3, <1>4, <1>5, <1>6, <1>7 DEF WorkerStep

\* The operations of api/queue.py end in a state of the queue.
LEMMA HandlerTargets ==
    \A h \in Handlers : /\ h.to \in Claimable
                        /\ h.from \in Claimable \cup {"DOWNLOAD_FAILED"}
                        /\ h.op \in {"enqueue", "retry", "cancel"}
BY DEF Handlers, EnqueueForDownload, RetryDownload, CancelQueued, Claimable

\* Requests and settings keep every variable in its type.
LEMMA ClientWellTyped ==
    ASSUME WellTyped, ClientStep
    PROVE  WellTyped'
<1> USE ConstantsAssumption DEF WellTyped, HoldsAnAsset, TypeOK
<1>1. ASSUME NEW c \in Clients, NEW a \in Assets, HandlerRead(c, a)
      PROVE  WellTyped'
  <2>1. PICK h \in Handlers : request' = [request EXCEPT ![c] = [op |-> h.op, asset |-> a]]
    BY <1>1 DEF HandlerRead
  <2>2. request' \in [Clients -> Request]
    BY <2>1, HandlerTargets DEF Request
  <2>3. \A d \in Clients : request'[d].op # "idle" => request'[d].asset \in Assets
    BY <2>1
  <2> QED
    BY <1>1, <2>2, <2>3 DEF HandlerRead, dbVars, histVars, Live
<1>2. ASSUME NEW c \in Clients, HandlerCommit(c)
      PROVE  WellTyped'
  <2> DEFINE a == request[c].asset
  <2>1. PICK h \in Handlers :
          /\ request[c].op = h.op
          /\ state' = [state EXCEPT ![a] = h.to]
          /\ retries' = IF h.op = "retry" THEN [retries EXCEPT ![a] = @ + 1] ELSE retries
          /\ stale' = IF state[a] \in Claimable \cup {h.from} THEN stale
                      ELSE stale \cup {a}
          /\ request' = [request EXCEPT ![c] = NoRequest]
          /\ UNCHANGED <<path, row, limit, disk, poller, task, crashes>>
    BY <1>2 DEF HandlerCommit
  <2>2. a \in Assets
    BY <2>1, HandlerTargets
  <2>3. state' \in [Assets -> MediaState] /\ retries' \in [Assets -> Nat]
    <3>1. h.to \in MediaState
      BY HandlerTargets DEF MediaState
    <3>2. state' \in [Assets -> MediaState]
      BY <2>1, <3>1
    <3>3. retries' \in [Assets -> Nat]
      <4>1. retries[a] + 1 \in Nat
        <5>1. retries[a] \in Nat
          BY <2>2
        <5> HIDE DEF a, TypeOK
        <5> QED
          BY <5>1
      <4>2. retries' = [retries EXCEPT ![a] = retries[a] + 1] \/ retries' = retries
        BY <2>1
      <4> QED
        BY <4>1, <4>2
    <3> QED
      BY <3>2, <3>3
  <2>4. request' \in [Clients -> Request]
    BY <2>1 DEF Request, NoRequest
  <2>5. \A d \in Clients : request'[d].op # "idle" => request'[d].asset \in Assets
    BY <2>1 DEF NoRequest
  <2> QED
    BY <2>1, <2>2, <2>3, <2>4, <2>5 DEF Live
<1>3. ASSUME NEW n \in Limits, SetLimit(n)
      PROVE  WellTyped'
  BY <1>3 DEF SetLimit, procVars, histVars, Live
<1> QED
  BY <1>1, <1>2, <1>3 DEF ClientStep

\* Stops and failures keep every variable in its type.
LEMMA FaultWellTyped ==
    ASSUME WellTyped, FaultStep
    PROVE  WellTyped'
<1> USE ConstantsAssumption DEF WellTyped, HoldsAnAsset, TypeOK
<1>1. CASE ReconcileFails
  BY <1>1 DEF ReconcileFails, dbVars, histVars, Live, Poller
<1>2. CASE ClaimFails
  BY <1>2 DEF ClaimFails, dbVars, histVars, Live, Poller
<1>3. ASSUME NEW w \in Tasks, WorkerCrashed(w)
      PROVE  WellTyped'
  BY <1>3, RetireWellTyped DEF WorkerCrashed, dbVars, histVars
<1>4. CASE Crash
  <2>1. [IdleWorker EXCEPT !.pc = "dead"] \in Worker
    BY DEF IdleWorker, Worker, MediaState, InFlight
  <2>2. task' \in [Tasks -> Worker]
    BY <1>4, <2>1 DEF Crash
  <2>3. Live' = {}
    BY <1>4 DEF Crash, Live, IdleWorker, LivePC
  <2>4. request' = [c \in Clients |-> NoRequest]
    BY <1>4 DEF Crash
  <2>5. request' \in [Clients -> Request] /\ \A c \in Clients : request'[c].op = "idle"
    BY <2>4 DEF Request, NoRequest
  <2> QED
    BY <1>4, <2>2, <2>3, <2>5 DEF Crash, dbVars, Poller
<1> QED
  BY <1>1, <1>2, <1>3, <1>4 DEF FaultStep

\* Types, and whom each task holds, are inductive.
LEMMA StepWellTyped == WellTyped /\ [Next]_vars => WellTyped'
<1> SUFFICES ASSUME WellTyped, [Next]_vars
             PROVE  WellTyped'
  OBVIOUS
<1>1. CASE PollerStep
  BY <1>1, PollerWellTyped
<1>2. ASSUME NEW w \in Tasks, WorkerStep(w)
      PROVE  WellTyped'
  BY <1>2, WorkerWellTyped
<1>3. ASSUME NEW w \in Tasks, BackoffElapses(w)
      PROVE  WellTyped'
  <2>1. row' \in [Tasks -> Row]
    BY <1>3 DEF BackoffElapses, WellTyped, TypeOK, Row, NextRetry
  <2> QED
    BY <1>3, <2>1 DEF BackoffElapses, WellTyped, TypeOK, HoldsAnAsset, procVars, histVars, Live
<1>4. CASE ClientStep
  BY <1>4, ClientWellTyped
<1>5. CASE FaultStep
  BY <1>5, FaultWellTyped
<1>6. CASE UNCHANGED vars
  BY <1>6 DEF WellTyped, TypeOK, HoldsAnAsset, vars, dbVars, procVars, histVars, Live
<1> QED
  BY <1>1, <1>2, <1>3, <1>4, <1>5, <1>6 DEF Next

\* Every reachable state is well typed, and no claim, worker or handler ever
\* writes to an asset it does not hold.
THEOREM TypeCorrect == Spec => []TypeOK
<1>1. Spec => []WellTyped
  BY InitWellTyped, StepWellTyped, PTL DEF Spec
<1> QED
  BY <1>1, PTL DEF WellTyped

-----------------------------------------------------------------------------
(* Who owns an asset. OneWorkerPerAsset is not inductive: nothing in it says  *)
(* that an asset with a worker cannot be claimed. What makes it so is that    *)
(* the state of an asset nobody has hit with a stale commit tells whether a   *)
(* worker has it, and that the poller is about to write only to an asset      *)
(* nobody has.                                                                *)

NoWorkerBeforeRecovery == poller.pc \in {"down", "reconcile"} => Live = {}

StateTellsOwner ==
    \A w \in Live : task[w].asset \notin stale =>
        IF task[w].pc = "finish" THEN state[task[w].asset] \in Imported
                                 ELSE state[task[w].asset] \in InFlight

PickIsFree ==
    poller.pick \notin stale =>
        /\ poller.pc = "commit" => state[poller.pick] \in Claimable
        /\ poller.pc = "spawn" => /\ state[poller.pick] \in InFlight
                                  /\ \A w \in Live : task[w].asset # poller.pick

\* The session knows the state it committed last.
SessionIsImporting ==
    \A w \in Live : task[w].pc \in {"import", "moved"} => task[w].seen = "IMPORTING"

Ownership ==
    /\ WellTyped
    /\ NoWorkerBeforeRecovery
    /\ StateTellsOwner
    /\ OneWorkerPerAsset
    /\ PickIsFree
    /\ SessionIsImporting

\* The groups of states are disjoint.
LEMMA StateGroups ==
    /\ Claimable \cap InFlight = {} /\ Claimable \cap Imported = {}
    /\ InFlight \cap Imported = {}
    /\ "DOWNLOAD_FAILED" \notin Claimable \cup InFlight \cup Imported
BY DEF Claimable, InFlight, Imported

\* At first nobody works and nothing is in flight.
LEMMA InitOwnership == Init => Ownership
<1> SUFFICES ASSUME Init PROVE Ownership
  OBVIOUS
<1>1. Live = {} /\ poller.pc = "down"
  BY DEF Init, Live, LivePC, IdleWorker
<1> QED
  BY <1>1, InitWellTyped
  DEF Ownership, NoWorkerBeforeRecovery, StateTellsOwner, OneWorkerPerAsset,
      PickIsFree, SessionIsImporting

\* A step that leaves states, tasks and stale alone, and does not make the
\* poller ready to write, preserves ownership.
LEMMA OwnershipFrame ==
    ASSUME Ownership, WellTyped', UNCHANGED <<state, task, stale>>,
           \/ UNCHANGED poller
           \/ poller'.pc \notin {"down", "reconcile", "commit", "spawn"}
           \/ poller.pc \in {"down", "reconcile"} /\ poller'.pc \notin {"commit", "spawn"}
    PROVE  Ownership'
BY DEF Ownership, NoWorkerBeforeRecovery, StateTellsOwner, OneWorkerPerAsset,
       PickIsFree, SessionIsImporting, Live

\* A claim takes a ready asset, which no worker has; recovery runs when no
\* worker lives.
LEMMA PollerOwnership ==
    ASSUME Ownership, PollerStep, WellTyped'
    PROVE  Ownership'
<1> USE DEF Ownership
<1>1. CASE Start \/ TickStart \/ ClaimNone
  <2>1. UNCHANGED <<state, task, stale>>
    BY <1>1 DEF Start, TickStart, ClaimNone, dbVars, histVars
  <2>2. \/ UNCHANGED poller
        \/ poller'.pc \notin {"down", "reconcile", "commit", "spawn"}
        \/ poller.pc \in {"down", "reconcile"} /\ poller'.pc \notin {"commit", "spawn"}
    BY <1>1 DEF Start, TickStart, ClaimNone, WellTyped, TypeOK, Poller
  <2> QED
    BY <2>1, <2>2, OwnershipFrame
<1>2. CASE ReconcileInterruptedAssets
  <2>1. Live = {} /\ Live' = {} /\ poller'.pc = "idle"
    BY <1>2 DEF ReconcileInterruptedAssets, NoWorkerBeforeRecovery, Live, WellTyped, TypeOK, Poller
  <2> QED
    BY <2>1 DEF NoWorkerBeforeRecovery, StateTellsOwner, OneWorkerPerAsset, PickIsFree,
                SessionIsImporting
<1>3. ASSUME NEW a \in Assets, ClaimRead(a)
      PROVE  Ownership'
  <2>1. poller'.pc = "commit" /\ poller'.pick = a /\ state[a] \in Claimable
    BY <1>3 DEF ClaimRead, WellTyped, TypeOK, Poller
  <2>2. UNCHANGED <<state, task, stale>>
    BY <1>3 DEF ClaimRead, dbVars, histVars
  <2> QED
    BY <2>1, <2>2 DEF NoWorkerBeforeRecovery, StateTellsOwner, OneWorkerPerAsset,
                      PickIsFree, SessionIsImporting, Live
<1>4. CASE ClaimCommit
  <2> DEFINE a == poller.pick
  <2>1. /\ a \in Assets /\ poller'.pc = "spawn" /\ poller'.pick = a
        /\ state' = [state EXCEPT ![a] = "DOWNLOADING"]
        /\ stale' = IF state[a] \in Claimable THEN stale ELSE stale \cup {a}
        /\ UNCHANGED task
    BY <1>4 DEF ClaimCommit, WellTyped, HoldsAnAsset, TypeOK, Poller
  <2>2. state'[a] \in InFlight
    BY <2>1 DEF WellTyped, TypeOK, InFlight
  <2>3. a \notin stale' => \A w \in Live : task[w].asset # a
    BY <2>1, StateGroups DEF StateTellsOwner
  <2>4. \A w \in Live : task[w].asset \notin stale' /\ task[w].asset # a =>
            state'[task[w].asset] = state[task[w].asset]
    BY <2>1 DEF WellTyped, TypeOK, HoldsAnAsset
  <2> QED
    BY <2>1, <2>2, <2>3, <2>4
    DEF NoWorkerBeforeRecovery, StateTellsOwner, OneWorkerPerAsset, PickIsFree,
        SessionIsImporting, Live
<1>5. CASE Spawn
  <2> DEFINE a == poller.pick
  <2>1. PICK w \in Tasks :
          /\ task[w].pc = "unused"
          /\ task' = [task EXCEPT ![w] = [IdleWorker EXCEPT !.pc = "load", !.asset = a]]
    BY <1>5 DEF Spawn
  <2>2. UNCHANGED <<state, stale>> /\ poller.pc = "spawn"
    BY <1>5 DEF Spawn, dbVars, histVars
  <2>3. poller'.pc \in {"claim", "idle"}
    BY <1>5 DEF Spawn
  <2>4. task'[w].pc = "load" /\ task'[w].asset = a
    BY <2>1 DEF WellTyped, TypeOK, IdleWorker
  <2>5. /\ Live' = Live \cup {w} /\ w \notin Live
        /\ \A v \in Live : task'[v] = task[v]
    BY <2>1, <2>4 DEF Live, LivePC, WellTyped, TypeOK
  <2>6. a \notin stale => state[a] \in InFlight /\ \A v \in Live : task[v].asset # a
    BY <2>2 DEF PickIsFree
  <2> QED
    BY <2>2, <2>3, <2>4, <2>5, <2>6
    DEF NoWorkerBeforeRecovery, StateTellsOwner, OneWorkerPerAsset, PickIsFree,
        SessionIsImporting
<1> QED
  BY <1>1, <1>2, <1>3, <1>4, <1>5 DEF PollerStep

\* What a step of worker w may do to ownership: it writes only its own
\* asset's state, and it goes on or ends.
LEMMA WorkerMoves ==
    ASSUME Ownership, WellTyped', NEW w \in Live, NEW a, a = task[w].asset,
           UNCHANGED <<poller, stale>>,
           \A b \in Assets \ {a} : state'[b] = state[b],
           \A v \in Tasks \ {w} : task'[v] = task[v],
           task'[w].pc \in LivePC,
           task'[w].asset = a,
           task'[w].pc \in {"import", "moved"} => task'[w].seen = "IMPORTING",
           a \notin stale => IF task'[w].pc = "finish" THEN state'[a] \in Imported
                                                       ELSE state'[a] \in InFlight
    PROVE  Ownership'
<1> USE DEF Ownership
<1>1. w \in Tasks /\ a \in Assets /\ Live' = Live
  BY DEF Live, WellTyped, HoldsAnAsset
<1>2. \A v \in Live : task'[v].asset = task[v].asset /\ task[v].asset \in Assets
  BY <1>1 DEF Live, WellTyped, HoldsAnAsset
<1>3. NoWorkerBeforeRecovery' /\ SessionIsImporting' /\ OneWorkerPerAsset'
  BY <1>1, <1>2 DEF NoWorkerBeforeRecovery, SessionIsImporting, OneWorkerPerAsset, Live
<1>4. StateTellsOwner'
  <2> SUFFICES ASSUME NEW v \in Live, task[v].asset \notin stale
               PROVE  IF task'[v].pc = "finish" THEN state'[task[v].asset] \in Imported
                                                ELSE state'[task[v].asset] \in InFlight
    BY <1>1, <1>2 DEF StateTellsOwner
  <2>1. CASE v = w
    BY <2>1
  <2>2. CASE v # w
    BY <2>2, <1>1, <1>2 DEF OneWorkerPerAsset, StateTellsOwner, Live
  <2> QED
    BY <2>1, <2>2
<1>5. PickIsFree'
  <2> SUFFICES ASSUME poller.pick \notin stale
               PROVE  /\ poller.pc = "commit" => state'[poller.pick] \in Claimable
                      /\ poller.pc = "spawn" =>
                            /\ state'[poller.pick] \in InFlight
                            /\ \A v \in Live : task'[v].asset # poller.pick
    BY <1>1 DEF PickIsFree
  <2>1. poller.pc \in {"commit", "spawn"} => poller.pick # a
    BY <1>1, StateGroups DEF PickIsFree, StateTellsOwner
  <2> QED
    BY <2>1, <1>1, <1>2 DEF PickIsFree, WellTyped, HoldsAnAsset
<1> QED
  BY <1>3, <1>4, <1>5

\* A worker that ends leaves its asset to nobody.
LEMMA WorkerEnds ==
    ASSUME Ownership, WellTyped', NEW w \in Live, NEW a, a = task[w].asset,
           UNCHANGED <<poller, stale>>,
           \A b \in Assets \ {a} : state'[b] = state[b],
           \A v \in Tasks \ {w} : task'[v] = task[v],
           Live' = Live \ {w}
    PROVE  Ownership'
<1> USE DEF Ownership
<1>1. w \in Tasks /\ a \in Assets
  BY DEF Live, WellTyped, HoldsAnAsset
<1>2. \A v \in Live' : /\ task'[v] = task[v] /\ v \in Live
                       /\ task[v].asset \in Assets
                       /\ task[v].asset \notin stale => task[v].asset # a
  BY <1>1 DEF Live, WellTyped, HoldsAnAsset, OneWorkerPerAsset
<1>3. poller.pick \notin stale /\ poller.pc \in {"commit", "spawn"} =>
          poller.pick # a /\ poller.pick \in Assets
  BY <1>1, StateGroups DEF PickIsFree, StateTellsOwner, WellTyped, HoldsAnAsset
<1> QED
  BY <1>1, <1>2, <1>3
  DEF NoWorkerBeforeRecovery, StateTellsOwner, OneWorkerPerAsset, PickIsFree,
      SessionIsImporting

\* A worker writes the state of its own asset only, and gives it up when it
\* ends.
LEMMA WorkerOwnership ==
    ASSUME Ownership, NEW w \in Tasks, WorkerStep(w), WellTyped'
    PROVE  Ownership'
<1> DEFINE a == task[w].asset
<1> USE DEF Ownership, WellTyped, TypeOK
<1>1. CASE Load(w) \/ BeginAttempt(w)
  <2>1. w \in Live /\ task[w].pc \in {"load", "begin"}
    BY ZenonT(60), <1>1 DEF Load, BeginAttempt, AtPC, Live, LivePC
  <2>2. PICK t : task' = [task EXCEPT ![w] = t]
    BY <1>1 DEF Load, BeginAttempt, Goto
  <2>3. task'[w].pc \in {"begin", "download"} /\ task'[w].asset = a
    <3>1. CASE Load(w)
      <4>1. PICK s, n, k :
              task' = [task EXCEPT ![w] = [@ EXCEPT !.pc = "begin", !.seen = s,
                                                    !.number = n, !.inCycle = k]]
        BY <3>1 DEF Load
      <4> QED
        BY SMTT(60), <4>1 DEF Worker
    <3>2. CASE BeginAttempt(w)
      BY SMTT(60), <3>2 DEF BeginAttempt, Goto, Worker
    <3> QED
      BY <1>1, <3>1, <3>2
  <2>4. UNCHANGED <<poller, stale, state>>
    BY <1>1 DEF Load, BeginAttempt, dbVars, histVars
  <2>5. a \notin stale => state[a] \in InFlight
    BY <2>1 DEF StateTellsOwner
  <2> QED
    BY SMTT(60), <2>1, <2>2, <2>3, <2>4, <2>5, WorkerMoves DEF LivePC
<1>2. CASE Downloaded(w) \/ Processed(w)
  <2>1. w \in Live /\ task[w].pc \in {"download", "process"}
    BY <1>2 DEF Downloaded, Processed, AtPC, Live, LivePC
  <2>2. PICK new \in {"PROCESSING", "IMPORTING"} :
            SetState(w, new) /\ task' = [task EXCEPT ![w] = [@ EXCEPT
                !.pc = IF new = "PROCESSING" THEN "process" ELSE "import", !.seen = new]]
    BY <1>2 DEF Downloaded, Processed, Goto
  <2>3. /\ task'[w].pc \in {"process", "import"} /\ task'[w].asset = a
        /\ task'[w].pc = "import" => task'[w].seen = "IMPORTING"
    BY <2>2 DEF Worker
  <2>4. UNCHANGED <<poller, stale>>
    BY <1>2 DEF Downloaded, Processed, histVars
  <2>5. a \notin stale => state[a] \in InFlight
    BY <2>1 DEF StateTellsOwner
  <2>6. a \in Assets
    BY <2>1 DEF HoldsAnAsset
  <2>7. \A b \in Assets \ {a} : state'[b] = state[b]
    BY <2>2 DEF SetState
  <2>8. a \notin stale => state'[a] \in InFlight
    BY <2>2, <2>5, <2>6 DEF SetState, InFlight
  <2> QED
    BY <2>1, <2>2, <2>3, <2>4, <2>7, <2>8, WorkerMoves DEF LivePC
<1>3. CASE MoveIntoLibrary(w)
  <2>1. w \in Live /\ task[w].pc = "import"
    BY <1>3 DEF MoveIntoLibrary, AtPC, Live, LivePC
  <2>2. /\ task' = [task EXCEPT ![w] = [@ EXCEPT !.pc = "moved", !.seen = task[w].seen]]
        /\ UNCHANGED <<poller, stale, state>>
    BY <1>3 DEF MoveIntoLibrary, Goto, dbVars, histVars
  <2>3. task'[w].pc = "moved" /\ task'[w].asset = a /\ task'[w].seen = "IMPORTING"
    BY <2>1, <2>2 DEF Worker, SessionIsImporting
  <2>4. a \notin stale => state[a] \in InFlight
    BY <2>1 DEF StateTellsOwner
  <2> QED
    BY <2>1, <2>2, <2>3, <2>4, WorkerMoves DEF LivePC
<1>4. CASE ImportAsset(w)
  <2>1. w \in Live /\ task[w].seen = "IMPORTING"
    BY <1>4 DEF ImportAsset, AtPC, Live, LivePC, SessionIsImporting
  <2>2. PICK final \in Imported :
            SetState(w, final) /\ task' = [task EXCEPT ![w] = [@ EXCEPT
                !.pc = "finish", !.seen = final]]
    BY <1>4 DEF ImportAsset, Imported, Goto
  <2>3. task'[w].pc = "finish" /\ task'[w].asset = a
    BY <2>2 DEF Worker
  <2>4. a \in Assets /\ UNCHANGED <<poller, stale>>
    BY <1>4, <2>1 DEF ImportAsset, histVars, HoldsAnAsset
  <2>5. \A b \in Assets \ {a} : state'[b] = state[b]
    BY <2>2 DEF SetState
  <2>6. state'[a] \in Imported
    BY <2>1, <2>2, <2>4 DEF SetState, Imported
  <2> QED
    BY <2>1, <2>2, <2>3, <2>4, <2>5, <2>6, WorkerMoves DEF LivePC
<1>5. CASE Finish(w) \/ Fail(w)
  <2>1. w \in Live
    BY <1>5 DEF Finish, Fail, AtPC, Live, LivePC
  <2>2. Retire(w, "done") /\ UNCHANGED <<poller, stale>>
    BY <1>5 DEF Finish, Fail, histVars
  <2>3. Live' = Live \ {w}
    BY <2>2, RetireWellTyped
  <2>4. \A v \in Tasks \ {w} : task'[v] = task[v]
    BY <2>2 DEF Retire
  <2>5. \A b \in Assets \ {a} : state'[b] = state[b]
    <3>1. CASE Finish(w)
      BY <3>1 DEF Finish
    <3>2. CASE Fail(w)
      <4>1. PICK new : SetState(w, new)
        BY <3>2 DEF Fail
      <4> QED
        BY <4>1 DEF SetState
    <3> QED
      BY <1>5, <3>1, <3>2
  <2> QED
    BY <2>1, <2>2, <2>3, <2>4, <2>5, WorkerEnds
<1> QED
  BY <1>1, <1>2, <1>3, <1>4, <1>5 DEF WorkerStep

\* A handler's commit on an asset that a worker has makes the asset stale; any
\* other commit moves a waiting or failed asset to a waiting state.
LEMMA ClientOwnership ==
    ASSUME Ownership, ClientStep, WellTyped'
    PROVE  Ownership'
<1> USE DEF Ownership
<1>1. ASSUME NEW c \in Clients, HandlerCommit(c)
      PROVE  Ownership'
  <2> DEFINE a == request[c].asset
  <2>1. PICK h \in Handlers :
          /\ request[c].op = h.op
          /\ state' = [state EXCEPT ![a] = h.to]
          /\ stale' = IF state[a] \in Claimable \cup {h.from} THEN stale
                      ELSE stale \cup {a}
          /\ UNCHANGED <<poller, task>>
    BY <1>1 DEF HandlerCommit
  <2>2. a \in Assets
    BY <2>1, HandlerTargets DEF WellTyped, HoldsAnAsset
  <2>3. a \notin stale' => /\ state[a] \notin InFlight \cup Imported
                          /\ a \notin stale
                          /\ state'[a] \in Claimable
    BY <2>1, <2>2, HandlerTargets, StateGroups DEF WellTyped, TypeOK
  <2>4. a \notin stale' => \A w \in Live : task[w].asset # a
    BY <2>3 DEF StateTellsOwner
  <2>5. stale \subseteq stale' /\ \A b \in Assets \ {a} : state'[b] = state[b]
    BY <2>1
  <2>6. \A w \in Live : task[w].asset \in Assets
    BY DEF WellTyped, HoldsAnAsset
  <2>7. StateTellsOwner' /\ OneWorkerPerAsset'
    BY <2>1, <2>4, <2>5, <2>6 DEF StateTellsOwner, OneWorkerPerAsset, Live
  <2>8. PickIsFree'
    <3>1. CASE poller.pick = a
      BY <3>1, <2>1, <2>3 , StateGroups DEF PickIsFree, Live
    <3>2. CASE poller.pick # a
      BY <3>2, <2>1, <2>5 DEF PickIsFree, Live, WellTyped, HoldsAnAsset
    <3> QED
      BY <3>1, <3>2
  <2> QED
    BY <2>1, <2>7, <2>8 DEF NoWorkerBeforeRecovery, SessionIsImporting, Live
<1>2. ASSUME NEW c \in Clients, NEW a \in Assets, HandlerRead(c, a)
      PROVE  Ownership'
  BY <1>2, OwnershipFrame DEF HandlerRead, dbVars, histVars
<1>3. ASSUME NEW n \in Limits, SetLimit(n)
      PROVE  Ownership'
  BY <1>3, OwnershipFrame DEF SetLimit, procVars, histVars
<1> QED
  BY <1>1, <1>2, <1>3 DEF ClientStep

\* A failing commit writes nothing, and a stop ends every worker.
LEMMA FaultOwnership ==
    ASSUME Ownership, FaultStep, WellTyped'
    PROVE  Ownership'
<1> USE DEF Ownership
<1>1. CASE ReconcileFails \/ ClaimFails
  <2>1. UNCHANGED <<state, task, stale>>
    BY <1>1 DEF ReconcileFails, ClaimFails, dbVars, histVars
  <2>2. poller'.pc \in {"dead", "idle"}
    BY <1>1 DEF ReconcileFails, ClaimFails, WellTyped, TypeOK, Poller
  <2> QED
    BY <2>1, <2>2, OwnershipFrame
<1>2. ASSUME NEW w \in Tasks, WorkerCrashed(w)
      PROVE  Ownership'
  <2>1. w \in Live /\ Retire(w, "dead") /\ UNCHANGED <<poller, stale, state>>
    BY <1>2 DEF WorkerCrashed, dbVars, histVars
  <2>2. Live' = Live \ {w}
    BY <2>1, RetireWellTyped
  <2>3. \A v \in Tasks \ {w} : task'[v] = task[v]
    BY <2>1 DEF Retire, WellTyped, TypeOK
  <2> QED
    BY <2>1, <2>2, <2>3, WorkerEnds
<1>3. CASE Crash
  <2>1. Live' = {} /\ poller'.pc = "down"
    BY <1>3 DEF Crash, Live, IdleWorker, LivePC
  <2> QED
    BY <2>1 DEF NoWorkerBeforeRecovery, StateTellsOwner, OneWorkerPerAsset, PickIsFree,
                SessionIsImporting
<1> QED
  BY <1>1, <1>2, <1>3 DEF FaultStep

\* Ownership is inductive.
LEMMA StepOwnership == Ownership /\ [Next]_vars => Ownership'
<1> SUFFICES ASSUME Ownership, [Next]_vars
             PROVE  Ownership'
  OBVIOUS
<1>0. WellTyped'
  BY StepWellTyped DEF Ownership
<1>1. CASE PollerStep
  BY <1>0, <1>1, PollerOwnership
<1>2. ASSUME NEW w \in Tasks, WorkerStep(w)
      PROVE  Ownership'
  BY <1>0, <1>2, WorkerOwnership
<1>3. ASSUME NEW w \in Tasks, BackoffElapses(w)
      PROVE  Ownership'
  BY <1>0, <1>3, OwnershipFrame DEF BackoffElapses, procVars, histVars
<1>4. CASE ClientStep
  BY <1>0, <1>4, ClientOwnership
<1>5. CASE FaultStep
  BY <1>0, <1>5, FaultOwnership
<1>6. CASE UNCHANGED vars
  BY <1>0, <1>6, OwnershipFrame DEF vars, dbVars, procVars, histVars
<1> QED
  BY <1>1, <1>2, <1>3, <1>4, <1>5, <1>6 DEF Next

\* It therefore holds in every reachable state.
LEMMA OwnershipInvariant == Spec => []Ownership
BY InitOwnership, StepOwnership, PTL DEF Spec

\* No two workers ever run the pipeline of one asset, except on an asset that
\* a queue request reset after it had been started.
THEOREM OneWorker == Spec => []OneWorkerPerAsset
<1>1. Ownership => OneWorkerPerAsset
  BY DEF Ownership
<1> QED
  BY <1>1, OwnershipInvariant, PTL

-----------------------------------------------------------------------------
(* What is settled stays settled *)

\* Only the holder of an asset writes its state, and nobody holds a settled
\* one, save a request that retries it.
LEMMA StepSettled ==
    ASSUME Ownership, Next, NEW a \in Assets, a \notin stale'
    PROVE  /\ state[a] \in Imported => state'[a] = state[a]
           /\ state[a] = "DOWNLOAD_FAILED" /\ state'[a] # state[a] =>
                 retries'[a] = retries[a] + 1
<1> USE DEF Ownership, WellTyped, TypeOK
<1>0. Imported \cup {"DOWNLOAD_FAILED"} \subseteq MediaState \ (InFlight \cup Claimable)
  BY StateGroups DEF MediaState
<1>1. CASE PollerStep
  <2>1. CASE UNCHANGED state
    BY <2>1
  <2>2. CASE ReconcileInterruptedAssets
    BY <2>2, <1>0 DEF ReconcileInterruptedAssets
  <2>3. CASE ClaimCommit
    BY SMTT(60), <2>3, <1>0 DEF ClaimCommit
  <2> QED
    BY <1>1, <2>1, <2>2, <2>3
    DEF PollerStep, Start, TickStart, ClaimRead, ClaimNone, Spawn, dbVars
<1>2. ASSUME NEW w \in Tasks, WorkerStep(w)
      PROVE  state[a] \in Imported \cup {"DOWNLOAD_FAILED"} => state'[a] = state[a]
  <2>1. CASE UNCHANGED state
    BY <2>1
  <2>2. CASE \E new : SetState(w, new)
    <3>1. CASE a # task[w].asset
      BY <2>2, <3>1 DEF SetState
    <3>2. CASE a = task[w].asset /\ ~UNCHANGED state
      <4>1. w \in Live /\ task[w].pc # "finish" /\ UNCHANGED stale
        BY <1>2, <3>2
        DEF WorkerStep, Load, BeginAttempt, Downloaded, Processed, MoveIntoLibrary,
            ImportAsset, Finish, Fail, AtPC, Live, LivePC, dbVars, histVars
      <4>2. state[a] \in InFlight
        BY <3>2, <4>1 DEF StateTellsOwner
      <4> QED
        BY SMTT(60), <4>2, <1>0
    <3> QED
      BY <3>1, <3>2
  <2> QED
    BY <1>2, <2>1, <2>2
    DEF WorkerStep, Load, BeginAttempt, Downloaded, Processed, MoveIntoLibrary,
        ImportAsset, Finish, Fail, dbVars
<1>3. ASSUME NEW w \in Tasks, BackoffElapses(w)
      PROVE  UNCHANGED state
  BY <1>3 DEF BackoffElapses
<1>4. CASE ClientStep
  <2>1. CASE UNCHANGED state
    BY <2>1
  <2>2. ASSUME NEW c \in Clients, HandlerCommit(c), a = request[c].asset
        PROVE  /\ state[a] \notin Imported
               /\ state[a] = "DOWNLOAD_FAILED" => retries'[a] = retries[a] + 1
    <3>1. PICK h \in Handlers :
            /\ request[c].op = h.op
            /\ retries' = IF h.op = "retry" THEN [retries EXCEPT ![a] = @ + 1] ELSE retries
            /\ stale' = IF state[a] \in Claimable \cup {h.from} THEN stale
                        ELSE stale \cup {a}
      BY <2>2 DEF HandlerCommit
    <3>2. state[a] \in Claimable \cup {h.from}
      BY <3>1
    <3>3. state[a] = "DOWNLOAD_FAILED" => h.op = "retry"
      BY <3>2, <1>0
      DEF Handlers, EnqueueForDownload, RetryDownload, CancelQueued, Claimable
    <3>4. state[a] \notin Imported
      BY <3>2, HandlerTargets, <1>0, StateGroups
    <3> QED
      BY <3>1, <3>3, <3>4
  <2>3. ASSUME NEW c \in Clients, HandlerCommit(c), a # request[c].asset
        PROVE  state'[a] = state[a]
    BY <2>3 DEF HandlerCommit
  <2>4. CASE \E c \in Clients : HandlerCommit(c)
    BY <2>2, <2>3, <2>4
  <2> QED
    BY <1>4, <2>1, <2>4 DEF ClientStep, HandlerRead, SetLimit, dbVars
<1>5. CASE FaultStep
  BY <1>5 DEF FaultStep, ReconcileFails, ClaimFails, WorkerCrashed, Crash, dbVars
<1> QED
  BY <1>1, <1>2, <1>3, <1>4, <1>5 DEF Next

\* Polls, workers, crashes and recovery never reopen an imported or failed
\* asset; a failed one is reopened by retry_download alone.
THEOREM SettledIsFinal == Spec => SettledStaysSettled
<1>1. ASSUME Ownership, [Next]_vars
      PROVE  [\A a \in Assets \ stale' :
                 /\ state[a] \in Imported => state'[a] = state[a]
                 /\ state[a] = "DOWNLOAD_FAILED" /\ state'[a] # state[a] =>
                       retries'[a] = retries[a] + 1]_vars
  BY <1>1, StepSettled
<1> QED
  BY <1>1, OwnershipInvariant, PTL DEF Spec, SettledStaysSettled
-----------------------------------------------------------------------------
(* The number of workers *)

\* What _tick still means to start counts as started: together with the live
\* workers it stays within some limit that was set.
SlotsAreFree ==
    /\ \E n \in Limits : Cardinality(Live) + poller.slots <= n
    /\ poller.pc \in {"claim", "commit", "spawn"} => poller.slots >= 1

\* Without a new worker, and with no more slots to fill, the bound stays.
LEMMA NoMoreWorkers ==
    ASSUME TypeOK, TypeOK', SlotsAreFree, Live' \subseteq Live,
           poller'.slots <= poller.slots,
           poller'.pc \in {"claim", "commit", "spawn"} => poller'.slots >= 1
    PROVE  SlotsAreFree'
<1>1. /\ IsFiniteSet(Live)
      /\ Cardinality(Live) \in Nat /\ Cardinality(Live') \in Nat
  BY ConstantsAssumption, CountIsNat, FS_Subset DEF Live
<1>2. Cardinality(Live') <= Cardinality(Live)
  BY <1>1, FS_Subset
<1>3. poller.slots \in Nat /\ poller'.slots \in Nat
  BY DEF TypeOK, Poller
<1>4. PICK n \in Limits : Cardinality(Live) + poller.slots <= n
  BY DEF SlotsAreFree
<1>5. Cardinality(Live') + poller'.slots <= n
  BY <1>1, <1>2, <1>3, <1>4, ConstantsAssumption
<1> QED
  BY <1>4, <1>5 DEF SlotsAreFree

\* Nobody works before the first start.
LEMMA InitSlots == Init => SlotsAreFree
<1> SUFFICES ASSUME Init PROVE SlotsAreFree
  OBVIOUS
<1>1. Live = {}
  BY DEF Init, Live, LivePC, IdleWorker
<1>2. Cardinality(Live) = 0 /\ poller.slots = 0
  BY <1>1, FS_EmptySet DEF Init
<1>3. PICK n \in Limits : n \in Nat
  BY ConstantsAssumption
<1> QED
  BY <1>2, <1>3 DEF SlotsAreFree, Init

\* A tick takes the slots that the running workers leave, and a spawn turns
\* one of them into a worker; nothing else makes a worker.
LEMMA PollerSlots ==
    ASSUME TypeOK, TypeOK', SlotsAreFree, PollerStep
    PROVE  SlotsAreFree'
<1>1. CASE Start \/ ReconcileInterruptedAssets \/ (\E a \in Assets : ClaimRead(a))
            \/ ClaimNone \/ ClaimCommit
  <2>1. task' = task
    <3>1. Start => task' = task
      BY DEF Start
    <3>2. ReconcileInterruptedAssets => task' = task
      BY DEF ReconcileInterruptedAssets
    <3>3. \A a \in Assets : ClaimRead(a) => task' = task
      BY DEF ClaimRead
    <3>4. ClaimNone => task' = task
      BY DEF ClaimNone
    <3>5. ClaimCommit => task' = task
      BY DEF ClaimCommit
    <3> QED
      BY <1>1, <3>1, <3>2, <3>3, <3>4, <3>5
  <2>2. /\ poller'.slots <= poller.slots
        /\ poller'.pc \in {"claim", "commit", "spawn"} => poller'.slots >= 1
    <3> USE DEF SlotsAreFree, TypeOK, Poller
    <3>1. CASE Start
      BY <3>1 DEF Start
    <3>2. CASE ReconcileInterruptedAssets
      BY <3>2 DEF ReconcileInterruptedAssets
    <3>3. ASSUME NEW a \in Assets, ClaimRead(a)
          PROVE  /\ poller'.slots <= poller.slots
                 /\ poller'.pc \in {"claim", "commit", "spawn"} => poller'.slots >= 1
      BY <3>3 DEF ClaimRead
    <3>4. CASE ClaimNone
      BY <3>4 DEF ClaimNone
    <3>5. CASE ClaimCommit
      BY <3>5 DEF ClaimCommit
    <3> QED
      BY <1>1, <3>1, <3>2, <3>3, <3>4, <3>5
  <2> QED
    BY <2>1, <2>2, NoMoreWorkers DEF Live
<1>2. CASE TickStart
  <2>1. Live' = Live /\ Cardinality(Live) \in Nat /\ limit \in Nat /\ limit \in Limits
    BY <1>2, ConstantsAssumption, CountIsNat DEF TickStart, Live, TypeOK
  <2>2. CASE Cardinality(Live) < limit
    <3>1. poller' = [poller EXCEPT !.pc = "claim", !.slots = limit - Cardinality(Live)]
      BY <1>2, <2>2 DEF TickStart
    <3>2. poller'.slots = limit - Cardinality(Live)
      BY <3>1 DEF TypeOK, Poller
    <3> QED
      BY <2>1, <2>2, <3>2 DEF SlotsAreFree
  <2>3. CASE ~(Cardinality(Live) < limit)
    BY <1>2, <2>1, <2>3 DEF TickStart, SlotsAreFree
  <2> QED
    BY <2>2, <2>3
<1>3. CASE Spawn
  <2>1. PICK w \in Tasks :
          /\ task[w].pc = "unused"
          /\ task' = [task EXCEPT ![w] = [IdleWorker EXCEPT !.pc = "load",
                                                            !.asset = poller.pick]]
    BY <1>3 DEF Spawn
  <2>2. Live' = Live \cup {w} /\ w \notin Live
    BY <2>1 DEF Live, LivePC, TypeOK, Worker, IdleWorker
  <2>3. IsFiniteSet(Live) /\ Cardinality(Live) \in Nat
    BY ConstantsAssumption, CountIsNat, FS_Subset DEF Live
  <2>4. Cardinality(Live') = Cardinality(Live) + 1
    BY <2>2, <2>3, FS_AddElement
  <2>5. PICK n \in Limits : Cardinality(Live) + poller.slots <= n
    BY DEF SlotsAreFree
  <2>6. poller.slots \in Nat /\ poller.slots >= 1
    BY <1>3 DEF Spawn, SlotsAreFree, TypeOK, Poller
  <2>7. poller'.slots = poller.slots - 1
    BY <1>3, <2>6 DEF Spawn
  <2>8. poller'.pc \in {"claim", "commit", "spawn"} => poller'.slots >= 1
    BY <1>3, <2>6 DEF Spawn
  <2>9. Cardinality(Live') + poller'.slots <= n
    BY <2>3, <2>4, <2>5, <2>6, <2>7, ConstantsAssumption
  <2> QED
    BY <2>5, <2>8, <2>9 DEF SlotsAreFree
<1> QED
  BY <1>1, <1>2, <1>3 DEF PollerStep

\* Workers only go on or end; requests, failures and crashes add none.
LEMMA StepSlots ==
    ASSUME TypeOK, TypeOK', SlotsAreFree, [Next]_vars
    PROVE  SlotsAreFree'
<1>1. CASE PollerStep
  BY <1>1, PollerSlots
<1>2. ASSUME NEW w \in Tasks, WorkerStep(w) \/ BackoffElapses(w)
      PROVE  SlotsAreFree'
  <2> DEFINE Keeps == /\ poller' = poller
                      /\ w \in Live
                      /\ \E r : task' = [task EXCEPT ![w] = r]
  <2>1. Load(w) => Keeps
    BY DEF Load, AtPC, Live, LivePC
  <2>2. BeginAttempt(w) => Keeps
    BY DEF BeginAttempt, AtPC, Live, LivePC, Goto
  <2>3. Downloaded(w) => Keeps
    BY DEF Downloaded, AtPC, Live, LivePC, Goto
  <2>4. Processed(w) => Keeps
    BY DEF Processed, AtPC, Live, LivePC, Goto
  <2>5. MoveIntoLibrary(w) => Keeps
    BY DEF MoveIntoLibrary, AtPC, Live, LivePC, Goto
  <2>6. ImportAsset(w) => Keeps
    BY DEF ImportAsset, AtPC, Live, LivePC, Goto
  <2>7. Finish(w) => Keeps
    BY DEF Finish, AtPC, Live, LivePC, Retire
  <2>8. Fail(w) => Keeps
    BY DEF Fail, AtPC, Live, LivePC, Retire
  <2>9. Keeps => Live' \subseteq Live /\ poller' = poller
    BY DEF TypeOK, Live
  <2>10. BackoffElapses(w) => Live' = Live /\ poller' = poller
    BY DEF BackoffElapses, procVars, Live
  <2>11. Live' \subseteq Live /\ poller' = poller
    BY <1>2, <2>1, <2>2, <2>3, <2>4, <2>5, <2>6, <2>7, <2>8, <2>9, <2>10 DEF WorkerStep
  <2> QED
    BY SMTT(60), <2>11, NoMoreWorkers DEF SlotsAreFree, TypeOK, Poller
<1>3. CASE ClientStep
  <2>1. task' = task /\ poller' = poller
    BY <1>3 DEF ClientStep, HandlerRead, HandlerCommit, SetLimit, procVars
  <2> QED
    BY <2>1, NoMoreWorkers DEF SlotsAreFree, TypeOK, Poller, Live
<1>4. CASE FaultStep
  <2>1. Live' \subseteq Live
    BY <1>4 DEF FaultStep, ReconcileFails, ClaimFails, WorkerCrashed, Crash, Retire,
                Live, LivePC, IdleWorker, TypeOK
  <2>2. /\ poller'.slots <= poller.slots
        /\ poller'.pc \in {"claim", "commit", "spawn"} => poller'.slots >= 1
    BY <1>4 DEF FaultStep, ReconcileFails, ClaimFails, WorkerCrashed, Crash,
                SlotsAreFree, TypeOK, Poller
  <2> QED
    BY <2>1, <2>2, NoMoreWorkers
<1>5. CASE UNCHANGED vars
  <2>1. task' = task /\ poller' = poller
    BY <1>5 DEF vars, procVars
  <2> QED
    BY <2>1, NoMoreWorkers DEF SlotsAreFree, TypeOK, Poller, Live
<1> QED
  BY <1>1, <1>2, <1>3, <1>4, <1>5 DEF Next

\* However often max_concurrent_downloads changes, between ticks or during
\* one, at no time do more workers run than the largest limit set allows.
THEOREM WorkersBounded == Spec => []WorkerBound
<1>1. TypeOK /\ SlotsAreFree => WorkerBound
  <2> SUFFICES ASSUME TypeOK, SlotsAreFree PROVE WorkerBound
    OBVIOUS
  <2>1. PICK n \in Limits : Cardinality(Live) + poller.slots <= n
    BY DEF SlotsAreFree
  <2>2. Cardinality(Live) \in Nat /\ poller.slots \in Nat
    BY CountIsNat DEF Live, TypeOK, Poller
  <2>3. Cardinality(Live) <= n
    BY <2>1, <2>2, ConstantsAssumption
  <2> QED
    BY <2>3 DEF WorkerBound
<1>2. TypeOK /\ TypeOK' /\ SlotsAreFree /\ [Next]_vars => SlotsAreFree'
  BY StepSlots
<1> QED
  BY <1>1, <1>2, InitSlots, TypeCorrect, PTL DEF Spec

\* A worker has a row from its first commit to its last.
Begun == {"download", "process", "import", "moved", "finish"}

-----------------------------------------------------------------------------
(* What the building blocks of a worker's step change *)

\* Goto moves one worker on and keeps what it knows.
LEMMA GotoFacts ==
    ASSUME TypeOK, NEW w \in Tasks, NEW pc, NEW seen, Goto(w, pc, seen)
    PROVE  /\ task'[w].pc = pc /\ task'[w].seen = seen
           /\ task'[w].asset = task[w].asset
           /\ task'[w].number = task[w].number /\ task'[w].inCycle = task[w].inCycle
           /\ \A v \in Tasks \ {w} : task'[v] = task[v]
BY DEF TypeOK, Goto, Worker

\* Retire ends one worker.
LEMMA RetireFacts ==
    ASSUME TypeOK, NEW w \in Tasks, NEW pc, Retire(w, pc)
    PROVE  /\ task'[w].pc = pc
           /\ \A v \in Tasks \ {w} : task'[v] = task[v]
BY DEF TypeOK, Retire, IdleWorker

\* Spawn starts a worker of its own for the asset that was picked.
LEMMA SpawnFacts ==
    ASSUME WellTyped, Spawn
    PROVE  \E w \in Tasks :
              /\ task[w].pc = "unused" /\ task'[w].pc = "load"
              /\ task'[w].asset = poller.pick /\ poller.pick \in Assets
              /\ \A v \in Tasks \ {w} : task'[v] = task[v]
              /\ poller.pc = "spawn" /\ poller'.pc \in {"claim", "idle"}
              /\ UNCHANGED <<dbVars, disk, request, histVars>>
<1>1. PICK w \in Tasks :
        /\ task[w].pc = "unused"
        /\ task' = [task EXCEPT ![w] = [IdleWorker EXCEPT !.pc = "load",
                                                          !.asset = poller.pick]]
  BY DEF Spawn
<1>2. task'[w].pc = "load" /\ task'[w].asset = poller.pick
  BY <1>1 DEF WellTyped, TypeOK, IdleWorker
<1> QED
  BY <1>1, <1>2 DEF Spawn, WellTyped, HoldsAnAsset, TypeOK

\* Load reads: the asset's state, a number above its rows', and how many rows
\* its cycle has.
LEMMA LoadFacts ==
    ASSUME WellTyped, NEW w \in Tasks, Load(w)
    PROVE  LET a == task[w].asset
           IN  /\ w \in Live /\ a \in Assets
               /\ task[w].pc = "load" /\ task'[w].pc = "begin"
               /\ task'[w].asset = a /\ task'[w].seen = state[a]
               /\ \/ Rows(a) = {}
                  \/ \E v \in LatestOf(Rows(a)) : task'[w].number = row[v].number + 1
               /\ task'[w].inCycle =
                     Cardinality({v \in Rows(a) : row[v].cycle >= retries[a]}) + 1
               /\ \A v \in Tasks \ {w} : task'[v] = task[v]
               /\ UNCHANGED <<dbVars, disk, poller, request, histVars>>
<1> DEFINE a == task[w].asset
           k == Cardinality({v \in Rows(a) : row[v].cycle >= retries[a]}) + 1
<1>1. PICK n \in {1} \cup {row[v].number + 1 : v \in LatestOf(Rows(a))} :
        /\ n = 1 => Rows(a) = {}
        /\ task' = [task EXCEPT ![w] = [@ EXCEPT !.pc = "begin", !.seen = state[a],
                                              !.number = n, !.inCycle = k]]
  BY DEF Load
<1>2. /\ task'[w].pc = "begin" /\ task'[w].asset = a /\ task'[w].seen = state[a]
      /\ task'[w].number = n /\ task'[w].inCycle = k
      /\ \A v \in Tasks \ {w} : task'[v] = task[v]
  <2> HIDE DEF k
  <2> QED
    BY <1>1 DEF WellTyped, TypeOK, Worker
<1>3. task[w].pc = "load" /\ w \in Live /\ a \in Assets
  BY DEF Load, AtPC, Live, LivePC, WellTyped, HoldsAnAsset
<1>4. UNCHANGED <<dbVars, disk, poller, request, histVars>>
  BY DEF Load
<1>5. Rows(a) = {} \/ \E v \in LatestOf(Rows(a)) : task'[w].number = row[v].number + 1
  BY <1>1, <1>2
<1> QED
  BY <1>2, <1>3, <1>4, <1>5

\* BeginAttempt inserts the worker's row.
LEMMA BeginFacts ==
    ASSUME WellTyped, NEW w \in Tasks, BeginAttempt(w)
    PROVE  LET a == task[w].asset
           IN  /\ w \in Live /\ a \in Assets
               /\ task[w].pc = "begin" /\ task'[w].pc = "download"
               /\ task'[w].asset = a /\ task'[w].seen = task[w].seen
               /\ task'[w].inCycle = task[w].inCycle
               /\ row'[w].status = "RUNNING" /\ row'[w].asset = a
               /\ row'[w].number = task[w].number
               /\ row'[w].cycle = retries[a] /\ row'[w].next = "none"
               /\ \A v \in Tasks \ {w} : row'[v] = row[v] /\ task'[v] = task[v]
               /\ UNCHANGED <<state, path, retries, limit, disk, poller, request, histVars>>
BY GotoFacts DEF BeginAttempt, AtPC, Live, LivePC, WellTyped, HoldsAnAsset, TypeOK

\* Downloaded, Processed and MoveIntoLibrary move the worker on; the first two
\* write an in-flight state, the third puts its file into the folder.
LEMMA AdvanceFacts ==
    ASSUME WellTyped, NEW w \in Tasks, Downloaded(w) \/ Processed(w) \/ MoveIntoLibrary(w)
    PROVE  LET a == task[w].asset
           IN  /\ w \in Live /\ a \in Assets
               /\ task'[w].asset = a /\ task'[w].inCycle = task[w].inCycle
               /\ \/ /\ task[w].pc = "import" /\ task'[w].pc = "moved"
                     /\ disk' = disk \cup {w} /\ UNCHANGED state
                     /\ task'[w].seen = task[w].seen
                  \/ /\ task[w].pc \in {"download", "process"}
                     /\ task'[w].pc \in {"process", "import"}
                     /\ UNCHANGED disk /\ task'[w].seen \in InFlight
                     /\ \A b \in Assets \ {a} : state'[b] = state[b]
                     /\ state'[a] \in InFlight \/ state'[a] = state[a]
               /\ \A v \in Tasks \ {w} : task'[v] = task[v]
               /\ UNCHANGED <<path, retries, row, limit, poller, request, histVars>>
<1> DEFINE a == task[w].asset
<1>1. w \in Live /\ a \in Assets
  BY DEF Downloaded, Processed, MoveIntoLibrary, AtPC, Live, LivePC, WellTyped, HoldsAnAsset
<1>2. CASE Downloaded(w)
  <2>1. /\ task[w].pc = "download" /\ SetState(w, "PROCESSING")
        /\ Goto(w, "process", "PROCESSING")
        /\ UNCHANGED <<path, retries, row, limit, disk, poller, request, histVars>>
    BY <1>2 DEF Downloaded, AtPC
  <2> QED
    BY <1>1, <2>1, GotoFacts DEF SetState, InFlight, WellTyped, TypeOK
<1>3. CASE Processed(w)
  <2>1. /\ task[w].pc = "process" /\ SetState(w, "IMPORTING")
        /\ Goto(w, "import", "IMPORTING")
        /\ UNCHANGED <<path, retries, row, limit, disk, poller, request, histVars>>
    BY <1>3 DEF Processed, AtPC
  <2> QED
    BY <1>1, <2>1, GotoFacts DEF SetState, InFlight, WellTyped, TypeOK
<1>4. CASE MoveIntoLibrary(w)
  <2>1. /\ task[w].pc = "import" /\ disk' = disk \cup {w}
        /\ Goto(w, "moved", task[w].seen)
        /\ UNCHANGED <<state, path, retries, row, limit, poller, request, histVars>>
    BY <1>4 DEF MoveIntoLibrary, AtPC, dbVars
  <2> QED
    BY <1>1, <2>1, GotoFacts DEF WellTyped
<1> QED
  BY <1>2, <1>3, <1>4

\* ImportAsset gives the asset the worker's file and an imported state.
LEMMA ImportFacts ==
    ASSUME Ownership, NEW w \in Tasks, ImportAsset(w)
    PROVE  LET a == task[w].asset
           IN  /\ w \in Live /\ a \in Assets
               /\ task[w].pc = "moved" /\ task'[w].pc = "finish"
               /\ task'[w].asset = a /\ task'[w].inCycle = task[w].inCycle
               /\ state'[a] \in Imported
               /\ \A b \in Assets \ {a} : state'[b] = state[b] /\ path'[b] = path[b]
               /\ path'[a] = w
               /\ \A v \in Tasks \ {w} : task'[v] = task[v]
               /\ UNCHANGED <<retries, row, limit, disk, poller, request, histVars>>
<1> USE DEF Ownership
<1> DEFINE a == task[w].asset
<1>1. w \in Live /\ a \in Assets /\ task[w].pc = "moved" /\ task[w].seen = "IMPORTING"
  BY DEF ImportAsset, AtPC, Live, LivePC, WellTyped, HoldsAnAsset, SessionIsImporting
<1>2. PICK final \in Imported : SetState(w, final) /\ Goto(w, "finish", final)
  BY DEF ImportAsset, Imported
<1>3. /\ path' = [path EXCEPT ![a] = w]
      /\ UNCHANGED <<retries, row, limit, disk, poller, request, histVars>>
  BY DEF ImportAsset
<1>4. state' = [state EXCEPT ![a] = final]
  BY <1>1, <1>2 DEF SetState, Imported
<1> QED
  BY <1>1, <1>2, <1>3, <1>4, GotoFacts DEF WellTyped, TypeOK

\* Finish and Fail close the worker's row; Fail writes the asset's state too,
\* and lets it be tried again only within the budget.
LEMMA CloseFacts ==
    ASSUME WellTyped, NEW w \in Tasks, Finish(w) \/ Fail(w)
    PROVE  LET a == task[w].asset
           IN  /\ w \in Live /\ a \in Assets
               /\ task'[w].pc = "done"
               /\ row'[w].asset = row[w].asset /\ row'[w].number = row[w].number
               /\ row'[w].cycle = row[w].cycle
               /\ \/ /\ task[w].pc = "finish" /\ UNCHANGED state
                     /\ row'[w].status = "SUCCEEDED" /\ row'[w].next = "none"
                  \/ /\ task[w].pc \in {"download", "process", "import"}
                     /\ row'[w].status = "FAILED"
                     /\ \E new \in {"QUEUED", "DOWNLOAD_FAILED"} :
                          /\ SetState(w, new)
                          /\ new = "QUEUED" => /\ task[w].inCycle < MaxAttempts
                                               /\ row'[w].next = "waiting"
                          /\ new = "DOWNLOAD_FAILED" => row'[w].next = "none"
                     /\ \A b \in Assets \ {a} : state'[b] = state[b]
               /\ \A v \in Tasks \ {w} : task'[v] = task[v] /\ row'[v] = row[v]
               /\ UNCHANGED <<path, retries, limit, disk, poller, request, histVars>>
<1> DEFINE a == task[w].asset
<1>1. w \in Live /\ a \in Assets
  BY DEF Finish, Fail, AtPC, Live, LivePC, WellTyped, HoldsAnAsset
<1>2. CASE Finish(w)
  <2>1. /\ task[w].pc = "finish" /\ Retire(w, "done") /\ UNCHANGED state
        /\ row' = [row EXCEPT ![w] = [@ EXCEPT !.status = "SUCCEEDED", !.next = "none"]]
        /\ UNCHANGED <<path, retries, limit, disk, poller, request, histVars>>
    BY <1>2 DEF Finish, AtPC
  <2> QED
    BY <1>1, <2>1, RetireFacts DEF WellTyped, TypeOK, Row
<1>3. CASE Fail(w)
  <2>1. /\ task[w].pc \in {"download", "process", "import"} /\ Retire(w, "done")
        /\ UNCHANGED <<path, retries, limit, disk, poller, request, histVars>>
    BY <1>3 DEF Fail, AtPC
  <2>2. PICK again \in BOOLEAN :
          /\ again => task[w].inCycle < MaxAttempts
          /\ row' = [row EXCEPT ![w] = [@ EXCEPT !.status = "FAILED",
                                        !.next = IF again THEN "waiting" ELSE "none"]]
          /\ SetState(w, IF again THEN "QUEUED" ELSE "DOWNLOAD_FAILED")
    BY <1>3 DEF Fail
  <2>3. PICK new \in {"QUEUED", "DOWNLOAD_FAILED"} :
          /\ SetState(w, new)
          /\ new = "QUEUED" => again
          /\ new = "DOWNLOAD_FAILED" => ~again
    BY <2>2
  <2>4. /\ row'[w].status = "FAILED"
        /\ row'[w].next = IF again THEN "waiting" ELSE "none"
        /\ row'[w].asset = row[w].asset /\ row'[w].number = row[w].number
        /\ row'[w].cycle = row[w].cycle
        /\ \A v \in Tasks \ {w} : row'[v] = row[v]
    BY <2>2 DEF WellTyped, TypeOK, Row
  <2>5. \A b \in Assets \ {a} : state'[b] = state[b]
    BY <2>3 DEF SetState, WellTyped, TypeOK
  <2> QED
    BY <1>1, <2>1, <2>2, <2>3, <2>4, <2>5, RetireFacts DEF WellTyped
<1> QED
  BY <1>2, <1>3

-----------------------------------------------------------------------------
(* The invariant. Neither half of LibraryMatchesDisk and nothing about dead    *)
(* attempts is inductive: that an import overwrites no other file's path       *)
(* needs that one asset has one worker (Ownership), and that recovery closes   *)
(* the right attempt needs that an asset has at most one RUNNING row.          *)

\* A row is its task's: none before the attempt begins, RUNNING until it ends.
RowsNameTheirTask ==
    \A w \in Tasks :
        /\ task[w].pc \in {"unused", "load", "begin"} => row[w] = NoRow
        /\ row[w] # NoRow =>
               /\ row[w].asset \in Assets /\ row[w].status # "absent"
               /\ row[w].cycle <= retries[row[w].asset]
        /\ task[w].pc \in Begun =>
               row[w].status = "RUNNING" /\ row[w].asset = task[w].asset
        /\ task[w].pc = "done" => row[w].status # "RUNNING"

\* In flight, and nobody is at it: what a dead worker leaves.
Abandoned(a) ==
    /\ state[a] \in InFlight
    /\ \A w \in Live : task[w].asset # a
    /\ ~(poller.pc = "spawn" /\ poller.pick = a)

\* An asset has at most one RUNNING row, of its current cycle; its task lives,
\* or died with the asset in flight, or died after the import was committed.
RunningIsCurrent ==
    \A a \in Assets \ stale : \A v \in Running(a) :
        /\ row[v].cycle = retries[a]
        /\ \A u \in Running(a) : u = v
        /\ v \in Live \/ Abandoned(a) \/ path[a] = v

\* A file comes from a worker that has a row, and a worker that has moved its
\* file has it in the folder.
FilesOfWorkers ==
    /\ disk \subseteq Tasks /\ \A w \in disk : row[w] # NoRow
    /\ \A w \in Live :
          /\ task[w].pc \in {"moved", "finish"} => w \in disk
          /\ task[w].pc = "finish" /\ task[w].asset \notin stale =>
                path[task[w].asset] = w

Books ==
    /\ RowsNameTheirTask
    /\ RunningIsCurrent
    /\ FilesOfWorkers
    /\ LibraryMatchesDisk

USE DEF LibraryMatchesDisk

\* An asset with a RUNNING row is in flight or imported.
LEMMA RunningNeedsFlight ==
    ASSUME Ownership, Books, NEW a \in Assets, a \notin stale, Running(a) # {}
    PROVE  state[a] \in InFlight \cup Imported
<1>1. PICK v \in Tasks : v \in Running(a)
  BY DEF Running, Rows
<1>2. row[v].status = "RUNNING" /\ row[v].asset = a /\ row[v] # NoRow
  BY <1>1 DEF Running, Rows, NoRow
<1>3. CASE v \in Live
  <2>1. task[v].pc \in Begun /\ task[v].asset = a
    BY <1>2, <1>3 DEF Books, RowsNameTheirTask, Live, LivePC, Begun
  <2> QED
    BY <1>3, <2>1 DEF Ownership, StateTellsOwner
<1>4. CASE Abandoned(a)
  BY <1>4 DEF Abandoned
<1>5. CASE path[a] = v
  BY <1>5, ConstantsAssumption DEF Books, LibraryConsistent
<1> QED
  BY <1>1, <1>3, <1>4, <1>5 DEF Books, RunningIsCurrent

\* What a worker has, nothing RUNNING is left over of.
LEMMA WorkerHasTheRow ==
    ASSUME Ownership, Books, NEW w \in Live, NEW a \in Assets, a \notin stale,
           task[w].asset = a, task[w].pc # "finish"
    PROVE  /\ \A v \in Running(a) : v = w
           /\ path[a] = None
<1>1. path[a] = None
  <2>1. state[a] \in InFlight
    BY DEF Ownership, StateTellsOwner
  <2> QED
    BY <2>1, StateGroups DEF Books, LibraryConsistent
<1>2. ASSUME NEW v \in Running(a)
      PROVE  v = w
  <2>1. v \in Tasks /\ row[v].status = "RUNNING" /\ row[v].asset = a /\ row[v] # NoRow
    BY DEF Running, Rows, NoRow
  <2>2. v \in Live
    BY <1>1, <2>1, ConstantsAssumption DEF Books, RunningIsCurrent, Abandoned
  <2>3. task[v].asset = a
    BY <2>1, <2>2 DEF Books, RowsNameTheirTask, Live, LivePC, Begun
  <2> QED
    BY <2>2, <2>3 DEF Ownership, OneWorkerPerAsset
<1> QED
  BY <1>1, <1>2

\* At first there are no rows and no files.
LEMMA InitBooks == Init => Books
<1> SUFFICES ASSUME Init PROVE Books
  OBVIOUS
<1>1. /\ Live = {} /\ disk = {}
      /\ \A w \in Tasks : row[w] = NoRow /\ task[w].pc = "unused"
      /\ \A a \in Assets : path[a] = None /\ state[a] \notin Imported
  BY DEF Init, Live, LivePC, IdleWorker, Imported
<1>2. \A a \in Assets : Running(a) = {}
  BY <1>1 DEF Running, Rows, NoRow
<1> QED
  BY <1>1, <1>2
  DEF Books, RowsNameTheirTask, RunningIsCurrent, FilesOfWorkers, LibraryConsistent,
      FilesAccountedFor, Begun

\* A step that leaves rows, tasks and files alone preserves the books, if it
\* leaves the assets with a RUNNING row alone and makes none imported.
LEMMA BooksFrame ==
    ASSUME Ownership, Books, TypeOK', UNCHANGED <<row, task, path, disk>>,
           stale \subseteq stale',
           \A a \in Assets :
              /\ retries'[a] >= retries[a]
              /\ a \notin stale' =>
                    /\ state[a] \in Imported <=> state'[a] \in Imported
                    /\ Running(a) # {} =>
                          /\ state'[a] = state[a] /\ retries'[a] = retries[a]
                          /\ poller'.pc = "spawn" /\ poller'.pick = a =>
                                poller.pc = "spawn" /\ poller.pick = a
    PROVE  Books'
<1> USE DEF Books
<1>1. RowsNameTheirTask'
  <2>1. \A w \in Tasks : row[w].cycle \in Nat
    BY DEF Ownership, WellTyped, TypeOK, Row
  <2>2. \A a \in Assets : retries[a] \in Nat /\ retries'[a] \in Nat
    BY DEF Ownership, WellTyped, TypeOK
  <2> QED
    BY <2>1, <2>2 DEF RowsNameTheirTask
<1>2. FilesOfWorkers'
  BY DEF FilesOfWorkers, Live
<1>3. LibraryConsistent' /\ FilesAccountedFor'
  BY DEF LibraryConsistent, FilesAccountedFor, Rows
<1>4. RunningIsCurrent'
  BY DEF RunningIsCurrent, Abandoned, Running, Rows, Live
<1> QED
  BY <1>1, <1>2, <1>3, <1>4

\* The poller: only recovery touches rows, and it closes, for each asset in
\* flight, the one row that is RUNNING.
LEMMA PollerBooks ==
    ASSUME Ownership, Books, TypeOK', PollerStep
    PROVE  Books'
<1> USE DEF Ownership, WellTyped
<1>1. CASE Start \/ TickStart \/ ClaimNone \/ \E a \in Assets : ClaimRead(a)
  <2>1. UNCHANGED <<state, retries, row, task, path, disk, stale>>
    BY <1>1 DEF Start, TickStart, ClaimNone, ClaimRead, dbVars, histVars
  <2>2. poller'.pc # "spawn" \/ UNCHANGED poller
    BY <1>1 DEF Start, TickStart, ClaimNone, ClaimRead, TypeOK, Poller
  <2> QED
    BY <2>1, <2>2, BooksFrame DEF TypeOK
<1>2. CASE ReconcileInterruptedAssets
  <2> DEFINE stuck == {a \in Assets : state[a] \in InFlight}
  <2>1. PICK closed \in SUBSET Tasks :
          /\ \A w \in closed : \E a \in stuck : w \in LatestOf(Running(a))
          /\ \A a \in stuck : Running(a) # {} =>
                \E w \in closed : closed \cap Running(a) = {w}
          /\ row' = [w \in Tasks |->
                        IF w \in closed THEN [row[w] EXCEPT !.status = "INTERRUPTED"]
                        ELSE row[w]]
    BY <1>2 DEF ReconcileInterruptedAssets
  <2>2. /\ state' = [a \in Assets |-> IF a \in stuck THEN "QUEUED" ELSE state[a]]
        /\ UNCHANGED <<path, retries, disk, task, stale>>
        /\ Live = {} /\ Live' = {}
    BY <1>2 DEF ReconcileInterruptedAssets, histVars, NoWorkerBeforeRecovery, Live
  <2>3. \A w \in closed : \E a \in Assets : w \in Running(a) /\ a \in stuck
    BY <2>1 DEF LatestOf
  <2>4. \A w \in Tasks : /\ row'[w].asset = row[w].asset /\ row'[w].cycle = row[w].cycle
                         /\ w \in closed => row'[w].status = "INTERRUPTED"
                         /\ w \notin closed => row'[w] = row[w]
    BY <2>1 DEF TypeOK, Row
  <2>5. \A w \in closed : row[w] # NoRow /\ row'[w] # NoRow
    BY <2>3, <2>4 DEF Running, NoRow
  <2>6. \A a \in Assets \ stale : a \in stuck => Running(a) \subseteq closed
    BY <2>1 DEF Books, RunningIsCurrent
  <2>7. \A a \in Assets : Rows(a)' = Rows(a) /\ Running(a)' = Running(a) \ closed
    BY <2>4 DEF Rows, Running
  <2>8. \A a \in Assets : state'[a] \in Imported <=> state[a] \in Imported
    BY <2>2, StateGroups DEF Imported
  <2>9. RowsNameTheirTask'
    <3>1. \A w \in Tasks : row'[w] # NoRow => row[w] # NoRow
      BY <2>4, <2>5
    <3>2. \A w \in Tasks : row[w] = NoRow => row'[w] = NoRow
      BY <2>4, <2>5
    <3> QED
      BY <2>2, <2>4, <2>5, <3>1, <3>2 DEF Books, RowsNameTheirTask, Live, LivePC, Begun
  <2>10. FilesOfWorkers' /\ LibraryConsistent' /\ FilesAccountedFor'
    BY <2>2, <2>4, <2>5, <2>7, <2>8 DEF Books, FilesOfWorkers, LibraryConsistent, FilesAccountedFor
  <2>11. RunningIsCurrent'
    <3> SUFFICES ASSUME NEW a \in Assets, a \notin stale, NEW v \in Tasks, v \in Running(a)'
                 PROVE  /\ row'[v].cycle = retries[a]
                        /\ \A u \in Running(a)' : u = v
                        /\ path[a] = v
      BY <2>2 DEF RunningIsCurrent, Running, Rows
    <3>1. v \in Running(a) /\ v \notin closed /\ a \notin stuck
      BY <2>6, <2>7
    <3> QED
      BY <2>2, <2>4, <2>7, <3>1 DEF Books, RunningIsCurrent, Abandoned
  <2> QED
    BY <2>9, <2>10, <2>11 DEF Books
<1>3. CASE ClaimCommit
  <2> DEFINE a == poller.pick
  <2>1. /\ a \in Assets /\ poller'.pc = "spawn" /\ poller'.pick = a
        /\ state' = [state EXCEPT ![a] = "DOWNLOADING"]
        /\ stale' = IF state[a] \in Claimable THEN stale ELSE stale \cup {a}
        /\ UNCHANGED <<retries, row, task, path, disk>>
    BY <1>3 DEF ClaimCommit, HoldsAnAsset, TypeOK, Poller
  <2>2. a \notin stale' => Running(a) = {} /\ state[a] \notin Imported
    BY <2>1, RunningNeedsFlight, StateGroups
  <2>3. state'[a] \notin Imported /\ \A b \in Assets \ {a} : state'[b] = state[b]
    BY <2>1 DEF Imported, TypeOK
  <2>4. \A b \in Assets : retries'[b] >= retries[b]
    BY <2>1 DEF TypeOK
  <2> QED
    BY <2>1, <2>2, <2>3, <2>4, BooksFrame
<1>4. CASE Spawn
  <2> DEFINE a == poller.pick
  <2>1. PICK w \in Tasks :
          /\ task[w].pc = "unused" /\ task'[w].pc = "load"
          /\ task'[w].asset = a /\ a \in Assets
          /\ \A v \in Tasks \ {w} : task'[v] = task[v]
          /\ poller.pc = "spawn" /\ poller'.pc \in {"claim", "idle"}
          /\ UNCHANGED <<dbVars, disk, request, histVars>>
    BY <1>4, SpawnFacts
  <2>2. UNCHANGED <<state, retries, row, path, disk, stale>>
    BY <2>1 DEF dbVars, histVars
  <2>3. Live' = Live \cup {w} /\ w \notin Live
    BY <2>1 DEF Live, LivePC
  <2>4. RowsNameTheirTask'
    BY <2>1, <2>2 DEF Books, RowsNameTheirTask, Begun
  <2>5. FilesOfWorkers' /\ LibraryConsistent' /\ FilesAccountedFor'
    <3>1. FilesOfWorkers'
      BY <2>1, <2>2, <2>3 DEF Books, FilesOfWorkers, Live
    <3>2. LibraryConsistent'
      BY <2>2 DEF Books, LibraryConsistent, Rows
    <3>3. w \notin disk
      BY <2>1 DEF Books, FilesOfWorkers, RowsNameTheirTask
    <3>4. FilesAccountedFor'
      BY <2>1, <2>2, <3>3 DEF Books, FilesAccountedFor, TypeOK
    <3> QED
      BY <3>1, <3>2, <3>4
  <2>6. RunningIsCurrent'
    <3> SUFFICES ASSUME NEW b \in Assets, b \notin stale, NEW v \in Tasks, v \in Running(b)
                 PROVE  v \in Live \/ Abandoned(b)' \/ path[b] = v
      BY <2>2, <2>3 DEF Books, RunningIsCurrent, Running, Rows
    <3>1. CASE Abandoned(b)
      <4>1. a # b
        BY <2>1, <3>1 DEF Abandoned
      <4> QED
        BY <2>1, <2>2, <2>3, <3>1, <4>1 DEF Abandoned, Live
    <3> QED
      BY <3>1 DEF Books, RunningIsCurrent
  <2> QED
    BY <2>4, <2>5, <2>6 DEF Books
<1> QED
  BY <1>1, <1>2, <1>3, <1>4 DEF PollerStep

\* A worker that goes on without writing rows keeps the books.
LEMMA AdvanceBooks ==
    ASSUME Ownership, Ownership', Books, NEW w \in Tasks,
           Downloaded(w) \/ Processed(w) \/ MoveIntoLibrary(w)
    PROVE  Books'
<1> USE DEF Ownership, WellTyped
<1> DEFINE a == task[w].asset
<1>1. /\ w \in Live /\ a \in Assets /\ task'[w].asset = a
      /\ task[w].pc \in {"download", "process", "import"}
      /\ task'[w].pc \in {"process", "import", "moved"}
      /\ disk' = IF task'[w].pc = "moved" THEN disk \cup {w} ELSE disk
      /\ \A b \in Assets \ {a} : state'[b] = state[b]
      /\ \A v \in Tasks \ {w} : task'[v] = task[v]
      /\ UNCHANGED <<path, retries, row, poller, stale>>
  BY AdvanceFacts DEF histVars
<1>2. Live' = Live /\ row[w] # NoRow
  BY <1>1 DEF Live, LivePC, Books, RowsNameTheirTask, NoRow, Begun
<1>3. a \notin stale => state[a] \in InFlight /\ state'[a] \in InFlight
  BY <1>1, <1>2 DEF StateTellsOwner
<1>4. RowsNameTheirTask'
  BY <1>1 DEF Books, RowsNameTheirTask, Begun
<1>5. FilesOfWorkers'
  BY <1>1, <1>2 DEF Books, FilesOfWorkers, Live
<1>6. LibraryConsistent'
  <2>1. \A b \in Assets \ stale : state'[b] \in Imported <=> state[b] \in Imported
    BY <1>1, <1>3, StateGroups
  <2> QED
    BY <1>1, <2>1 DEF Books, LibraryConsistent, Rows
<1>7. FilesAccountedFor'
  BY <1>1 DEF Books, FilesAccountedFor, TypeOK
<1>8. RunningIsCurrent'
  <2> SUFFICES ASSUME NEW b \in Assets, b \notin stale, NEW v \in Running(b)
               PROVE  v \in Live \/ Abandoned(b)' \/ path[b] = v
    BY <1>1, <1>2 DEF Books, RunningIsCurrent, Running, Rows
  <2>1. CASE Abandoned(b)
    BY <1>1, <1>2, <2>1 DEF Abandoned, Live
  <2> QED
    BY <2>1 DEF Books, RunningIsCurrent
<1> QED
  BY <1>4, <1>5, <1>6, <1>7, <1>8 DEF Books

\* Reading its asset, a worker writes nothing.
LEMMA LoadBooks ==
    ASSUME Ownership, Books, NEW w \in Tasks, Load(w)
    PROVE  Books'
<1> USE DEF Ownership, WellTyped
<1>1. /\ w \in Live /\ task[w].pc = "load" /\ task'[w].pc = "begin"
      /\ task'[w].asset = task[w].asset
      /\ \A v \in Tasks \ {w} : task'[v] = task[v]
      /\ UNCHANGED <<state, path, retries, row, disk, poller, stale>>
  BY LoadFacts DEF dbVars, histVars
<1>2. Live' = Live
  BY <1>1 DEF Live, LivePC
<1>3. RowsNameTheirTask'
  BY <1>1 DEF Books, RowsNameTheirTask, Begun
<1>4. FilesOfWorkers'
  BY <1>1, <1>2 DEF Books, FilesOfWorkers, Live
<1>5. LibraryConsistent'
  BY <1>1 DEF Books, LibraryConsistent, Rows
<1>6. FilesAccountedFor'
  BY <1>1 DEF Books, FilesAccountedFor, TypeOK
<1>7. \A b \in Assets : Abandoned(b)' <=> Abandoned(b)
  BY <1>1, <1>2 DEF Abandoned, Live
<1>8. RunningIsCurrent'
  BY <1>1, <1>2, <1>7 DEF Books, RunningIsCurrent, Running, Rows
<1> QED
  BY <1>3, <1>4, <1>5, <1>6, <1>8 DEF Books

\* A new row is the only RUNNING one of its asset.
LEMMA BeginBooks ==
    ASSUME Ownership, Books, NEW w \in Tasks, BeginAttempt(w)
    PROVE  Books'
<1> USE DEF Ownership, WellTyped
<1> DEFINE a == task[w].asset
<1>1. /\ w \in Live /\ a \in Assets
      /\ task[w].pc = "begin" /\ task'[w].pc = "download" /\ task'[w].asset = a
      /\ row'[w].status = "RUNNING" /\ row'[w].asset = a /\ row'[w].cycle = retries[a]
      /\ \A v \in Tasks \ {w} : row'[v] = row[v] /\ task'[v] = task[v]
      /\ UNCHANGED <<state, path, retries, disk, poller, stale>>
  BY BeginFacts DEF histVars
<1>2. row[w] = NoRow /\ row'[w] # NoRow
  BY <1>1 DEF Books, RowsNameTheirTask, NoRow
<1>3. Live' = Live
  BY <1>1 DEF Live, LivePC
<1>4. RowsNameTheirTask'
  BY <1>1, <1>2 DEF Books, RowsNameTheirTask, Begun, TypeOK
<1>5. w \notin disk
  BY <1>2 DEF Books, FilesOfWorkers
<1>6. FilesOfWorkers'
  BY <1>1, <1>2, <1>3 DEF Books, FilesOfWorkers, Live
<1>7. /\ \A b \in Assets \ {a} : Rows(b)' = Rows(b) /\ Running(b)' = Running(b)
      /\ Rows(a) \subseteq Rows(a)' /\ Running(a)' = Running(a) \cup {w}
  <2>0. None \notin Assets
    BY ConstantsAssumption
  <2>1. row[w].asset = None /\ row[w].status # "RUNNING"
    BY <1>2 DEF NoRow
  <2>2. \A b \in Assets : Rows(b)' = IF b = a THEN Rows(b) \cup {w} ELSE Rows(b)
    BY <1>1, <2>0, <2>1 DEF Rows
  <2>3. \A b \in Assets : Running(b)' = IF b = a THEN Running(b) \cup {w} ELSE Running(b)
    BY <1>1, <2>1, <2>2 DEF Running, Rows
  <2> QED
    BY <1>1, <2>2, <2>3
<1>8. LibraryConsistent'
  BY <1>1, <1>7 DEF Books, LibraryConsistent
<1>9. FilesAccountedFor'
  BY <1>1, <1>5 DEF Books, FilesAccountedFor, TypeOK
<1>10. RunningIsCurrent'
  <2>1. \A b \in Assets : Abandoned(b)' <=> Abandoned(b)
    BY <1>1, <1>3 DEF Abandoned, Live
  <2>2. a \notin stale => \A v \in Running(a)' : v = w
    BY <1>1, <1>7, WorkerHasTheRow
  <2>3. ASSUME NEW b \in Assets, b \notin stale, b # a
        PROVE  \A v \in Running(b)' :
                  /\ row'[v].cycle = retries'[b]
                  /\ \A u \in Running(b)' : u = v
                  /\ v \in Live' \/ Abandoned(b)' \/ path'[b] = v
    <3>1. \A v \in Running(b) : v # w /\ v \in Tasks
      BY <1>2, <2>3 DEF Running, Rows, NoRow
    <3> QED
      BY <1>1, <1>3, <1>7, <2>1, <2>3, <3>1 DEF Books, RunningIsCurrent
  <2> QED
    BY <1>1, <1>3, <2>2, <2>3 DEF RunningIsCurrent
<1> QED
  BY <1>4, <1>6, <1>8, <1>9, <1>10 DEF Books

\* An import gives an asset that had no file the worker's.
LEMMA ImportBooks ==
    ASSUME Ownership, Books, NEW w \in Tasks, ImportAsset(w)
    PROVE  Books'
<1> USE DEF Ownership, WellTyped
<1> DEFINE a == task[w].asset
<1>1. /\ w \in Live /\ a \in Assets
      /\ task[w].pc = "moved" /\ task'[w].pc = "finish" /\ task'[w].asset = a
      /\ state'[a] \in Imported /\ path'[a] = w
      /\ \A b \in Assets \ {a} : state'[b] = state[b] /\ path'[b] = path[b]
      /\ \A v \in Tasks \ {w} : task'[v] = task[v]
      /\ UNCHANGED <<retries, row, disk, poller, stale>>
  BY ImportFacts DEF histVars
<1>2. Live' = Live
  BY <1>1 DEF Live, LivePC
<1>3. row[w].status = "RUNNING" /\ row[w].asset = a /\ w \in disk
  BY <1>1 DEF Books, RowsNameTheirTask, FilesOfWorkers, Begun
<1>4. a \notin stale => \A v \in Live : task[v].asset = a => v = w
  BY <1>1 DEF OneWorkerPerAsset
<1>5. a \notin stale => path[a] = None /\ \A v \in Running(a) : v = w
  BY <1>1, WorkerHasTheRow
<1>6. RowsNameTheirTask'
  BY <1>1 DEF Books, RowsNameTheirTask, Begun
<1>7. FilesOfWorkers'
  BY <1>1, <1>2, <1>3, <1>4 DEF Books, FilesOfWorkers, Live, HoldsAnAsset
<1>8. LibraryConsistent'
  <2>1. w # None /\ w \in disk \cap Rows(a)
    BY <1>3, ConstantsAssumption DEF Rows
  <2>2. \A b \in Assets : Rows(b)' = Rows(b)
    BY <1>1 DEF Rows
  <2>3. ASSUME NEW b \in Assets, b \notin stale
        PROVE  /\ state'[b] \in Imported <=> path'[b] # None
               /\ path'[b] # None => path'[b] \in disk \cap Rows(b)
    BY <1>1, <2>1, <2>3 DEF Books, LibraryConsistent
  <2> QED
    BY <1>1, <2>2, <2>3 DEF LibraryConsistent
<1>9. FilesAccountedFor'
  <2> SUFFICES ASSUME NEW u \in disk, row[u].asset \notin stale
               PROVE  path'[row[u].asset] = u \/ task'[u].pc \in {"moved", "dead"}
    BY <1>1 DEF FilesAccountedFor
  <2>1. u \in Tasks /\ row[u].asset \in Assets
    BY DEF Books, FilesOfWorkers, RowsNameTheirTask
  <2>2. path[row[u].asset] = u \/ task[u].pc \in {"moved", "dead"}
    BY DEF Books, FilesAccountedFor
  <2>3. CASE row[u].asset = a /\ u # w
    <3>1. path[a] # u
      BY <1>5, <2>1, <2>3, ConstantsAssumption
    <3>2. task[u].pc = "moved" => u \in Live /\ task[u].asset = a
      BY <2>1, <2>3 DEF Live, LivePC, Books, RowsNameTheirTask, Begun
    <3> QED
      BY <1>1, <1>4, <2>1, <2>2, <2>3, <3>1, <3>2
  <2> QED
    BY <1>1, <1>3, <2>1, <2>2, <2>3
<1>10. RunningIsCurrent'
  <2> SUFFICES ASSUME NEW b \in Assets, b \notin stale, NEW v \in Running(b)
               PROVE  v \in Live \/ Abandoned(b)' \/ path'[b] = v
    BY <1>1, <1>2 DEF Books, RunningIsCurrent, Running, Rows
  <2>1. CASE b = a
    BY <1>5, <1>1, <2>1
  <2>2. CASE b # a
    <3>1. Abandoned(b)' <=> Abandoned(b)
      BY <1>1, <1>2, <2>2 DEF Abandoned, Live
    <3> QED
      BY <1>1, <2>2, <3>1 DEF Books, RunningIsCurrent
  <2> QED
    BY <2>1, <2>2
<1> QED
  BY <1>6, <1>7, <1>8, <1>9, <1>10 DEF Books

\* A worker that ends with its row closed leaves nothing RUNNING of its asset.
LEMMA CloseBooks ==
    ASSUME Ownership, Books, NEW w \in Tasks, Finish(w) \/ Fail(w)
    PROVE  Books'
<1> USE DEF Ownership, WellTyped
<1> DEFINE a == task[w].asset
<1>1. /\ w \in Live /\ a \in Assets
      /\ task[w].pc \in {"download", "process", "import", "finish"}
      /\ task'[w].pc = "done"
      /\ row'[w].asset = row[w].asset /\ row'[w].cycle = row[w].cycle
      /\ row'[w].status \in {"SUCCEEDED", "FAILED"}
      /\ \A b \in Assets \ {a} : state'[b] = state[b]
      /\ \A v \in Tasks \ {w} : task'[v] = task[v] /\ row'[v] = row[v]
      /\ UNCHANGED <<path, retries, disk, poller, stale>>
  BY CloseFacts DEF histVars
<1>2. row[w].asset = a /\ row[w].status = "RUNNING" /\ row'[w] # NoRow /\ row[w] # NoRow
  BY <1>1 DEF Books, RowsNameTheirTask, Begun, NoRow
<1>3. Live' = Live \ {w}
  BY <1>1 DEF Live, LivePC
<1>4. a \notin stale => (state'[a] \in Imported <=> state[a] \in Imported)
  <2>1. CASE task[w].pc = "finish"
    BY <2>1, CloseFacts
  <2>2. CASE task[w].pc # "finish"
    <3>1. a \notin stale => state[a] \in InFlight
      BY <1>1, <2>2 DEF StateTellsOwner
    <3>2. PICK new \in {"QUEUED", "DOWNLOAD_FAILED"} : SetState(w, new)
      BY <2>2, CloseFacts
    <3>3. state'[a] \in {"QUEUED", "DOWNLOAD_FAILED", state[a]}
      BY <1>1, <3>2 DEF SetState, TypeOK
    <3> QED
      BY <3>1, <3>3, StateGroups DEF Imported
  <2> QED
    BY <2>1, <2>2
<1>5. RowsNameTheirTask'
  BY <1>1, <1>2 DEF Books, RowsNameTheirTask, Begun
<1>6. FilesOfWorkers'
  BY <1>1, <1>2, <1>3 DEF Books, FilesOfWorkers, Live
<1>7. \A b \in Assets : Rows(b)' = Rows(b)
  BY <1>1 DEF Rows
<1>8. LibraryConsistent'
  BY <1>1, <1>4, <1>7 DEF Books, LibraryConsistent
<1>9. FilesAccountedFor'
  <2>1. w \in disk => path[a] = w \/ a \in stale
    BY <1>1, <1>2 DEF Books, FilesAccountedFor
  <2> QED
    BY <1>1, <1>2, <2>1 DEF Books, FilesAccountedFor, TypeOK
<1>10. RunningIsCurrent'
  <2> SUFFICES ASSUME NEW b \in Assets, b \notin stale, NEW v \in Running(b)'
               PROVE  /\ row'[v].cycle = retries[b]
                      /\ \A u \in Running(b)' : u = v
                      /\ v \in Live' \/ Abandoned(b)' \/ path[b] = v
    BY <1>1 DEF RunningIsCurrent
  <2>1. /\ v \in Running(b) /\ v # w /\ v \in Tasks
        /\ Running(b)' \subseteq Running(b)
    BY <1>1 DEF Running, Rows
  <2>2. CASE Abandoned(b)
    <3>1. b # a
      BY <1>1, <2>2 DEF Abandoned
    <3>2. Abandoned(b)'
      BY <1>1, <1>3, <2>2, <3>1 DEF Abandoned, Live
    <3> QED
      BY <1>1, <2>1, <3>2 DEF Books, RunningIsCurrent
  <2> QED
    BY <1>1, <1>3, <2>1, <2>2 DEF Books, RunningIsCurrent
<1> QED
  BY <1>5, <1>6, <1>8, <1>9, <1>10 DEF Books

\* Workers that die leave their rows RUNNING, and recovery finds them.
LEMMA DeathBooks ==
    ASSUME Ownership, Ownership', Books, NEW dying, dying \subseteq Live,
           \A w \in Tasks : IF w \in dying THEN task'[w].pc = "dead"
                                           ELSE task'[w] = task[w],
           UNCHANGED <<dbVars, disk, stale>>,
           UNCHANGED poller \/ poller'.pc = "down"
    PROVE  Books'
<1> USE DEF Ownership, WellTyped
<1>1. UNCHANGED <<state, path, retries, row>>
  BY DEF dbVars
<1>2. Live' = Live \ dying
  BY DEF Live, LivePC
<1>3. RowsNameTheirTask'
  BY <1>1 DEF Books, RowsNameTheirTask, Begun
<1>4. FilesOfWorkers'
  BY <1>1, <1>2 DEF Books, FilesOfWorkers, Live
<1>5. LibraryConsistent'
  BY <1>1 DEF Books, LibraryConsistent, Rows
<1>6. FilesAccountedFor'
  BY <1>1 DEF Books, FilesAccountedFor, TypeOK
<1>7. RunningIsCurrent'
  <2> SUFFICES ASSUME NEW b \in Assets, b \notin stale, NEW v \in Running(b)
               PROVE  v \in Live' \/ Abandoned(b)' \/ path[b] = v
    BY <1>1 DEF Books, RunningIsCurrent, Running, Rows
  <2>1. CASE Abandoned(b)
    BY <1>1, <1>2, <2>1 DEF Abandoned, Live
  <2>2. CASE v \in dying
    <3>1. task[v].pc \in Begun /\ task[v].asset = b /\ v \in Live
      BY <2>2 DEF Books, RowsNameTheirTask, Running, Rows, Live, LivePC, Begun, NoRow
    <3>2. CASE task[v].pc = "finish"
      BY <3>1, <3>2 DEF Books, FilesOfWorkers
    <3>3. CASE task[v].pc # "finish"
      <4>1. state[b] \in InFlight
        BY <3>1, <3>3 DEF StateTellsOwner
      <4>2. \A u \in Live : task[u].asset = b => u = v
        BY <3>1 DEF OneWorkerPerAsset
      <4>3. \A u \in Live' : task'[u].asset # b
        BY <1>2, <2>2, <4>2 DEF Live
      <4>4. ~(poller.pc = "spawn" /\ poller.pick = b)
        BY <3>1 DEF PickIsFree
      <4> QED
        BY <1>1, <4>1, <4>3, <4>4 DEF Abandoned
    <3> QED
      BY <3>2, <3>3
  <2> QED
    BY <1>2, <2>1, <2>2 DEF Books, RunningIsCurrent
<1> QED
  BY <1>3, <1>4, <1>5, <1>6, <1>7 DEF Books

\* Failures and stops of the process.
LEMMA FaultBooks ==
    ASSUME Ownership, Ownership', Books, FaultStep
    PROVE  Books'
<1> USE DEF Ownership, WellTyped
<1>1. CASE ReconcileFails \/ ClaimFails
  <2>1. UNCHANGED <<state, retries, row, task, path, disk, stale>>
    BY <1>1 DEF ReconcileFails, ClaimFails, dbVars, histVars
  <2>2. poller'.pc # "spawn"
    BY <1>1 DEF ReconcileFails, ClaimFails, TypeOK, Poller
  <2> QED
    BY <2>1, <2>2, BooksFrame DEF TypeOK
<1>2. ASSUME NEW w \in Tasks, WorkerCrashed(w)
      PROVE  Books'
  <2>1. /\ w \in Live /\ task'[w].pc = "dead"
        /\ \A v \in Tasks \ {w} : task'[v] = task[v]
        /\ UNCHANGED <<dbVars, disk, stale, poller>>
    BY <1>2, RetireFacts DEF WorkerCrashed, histVars
  <2>2. {w} \subseteq Live
    BY <2>1
  <2>3. \A v \in Tasks : IF v \in {w} THEN task'[v].pc = "dead" ELSE task'[v] = task[v]
    BY <2>1
  <2> HIDE DEF Ownership
  <2> QED
    BY <2>1, <2>2, <2>3, DeathBooks
<1>3. CASE Crash
  <2>1. \A w \in Tasks : IF w \in Live THEN task'[w].pc = "dead" ELSE task'[w] = task[w]
    BY <1>3 DEF Crash, IdleWorker
  <2> QED
    BY <1>3, <2>1, DeathBooks DEF Crash
<1> QED
  BY <1>1, <1>2, <1>3 DEF FaultStep

\* A handler's commit on an asset with a RUNNING row makes the asset stale.
LEMMA ClientBooks ==
    ASSUME Ownership, Books, TypeOK', ClientStep
    PROVE  Books'
<1> USE DEF Ownership, WellTyped
<1>1. ASSUME NEW c \in Clients, NEW a \in Assets, HandlerRead(c, a)
      PROVE  Books'
  BY <1>1, BooksFrame DEF HandlerRead, dbVars, histVars, TypeOK
<1>2. ASSUME NEW n \in Limits, SetLimit(n)
      PROVE  Books'
  BY <1>2, BooksFrame DEF SetLimit, procVars, histVars, TypeOK
<1>3. ASSUME NEW c \in Clients, HandlerCommit(c)
      PROVE  Books'
  <2> DEFINE a == request[c].asset
  <2>1. PICK h \in Handlers :
          /\ request[c].op = h.op
          /\ state' = [state EXCEPT ![a] = h.to]
          /\ retries' = IF h.op = "retry" THEN [retries EXCEPT ![a] = @ + 1] ELSE retries
          /\ stale' = IF state[a] \in Claimable \cup {h.from} THEN stale
                      ELSE stale \cup {a}
          /\ UNCHANGED <<path, row, disk, poller, task>>
    BY <1>3 DEF HandlerCommit
  <2>2. a \in Assets /\ h.to \in Claimable
    BY <2>1, HandlerTargets DEF HoldsAnAsset
  <2>3. a \notin stale' => /\ a \notin stale
                          /\ state[a] \notin InFlight \cup Imported
    BY <2>1, HandlerTargets, StateGroups
  <2>4. a \notin stale' => Running(a) = {}
    BY <2>2, <2>3, RunningNeedsFlight
  <2>5. state'[a] \notin Imported /\ \A b \in Assets \ {a} : state'[b] = state[b]
    BY <2>1, <2>2, StateGroups DEF TypeOK
  <2>6. \A b \in Assets : /\ retries'[b] >= retries[b]
                          /\ b # a => retries'[b] = retries[b]
    BY <2>1, <2>2 DEF TypeOK
  <2> QED
    BY <2>1, <2>3, <2>4, <2>5, <2>6, BooksFrame
<1> QED
  BY <1>1, <1>2, <1>3 DEF ClientStep

\* The books are inductive.
LEMMA StepBooks == Ownership /\ Books /\ [Next]_vars => Books'
<1> SUFFICES ASSUME Ownership, Books, [Next]_vars
             PROVE  Books'
  OBVIOUS
<1>0. Ownership' /\ TypeOK'
  BY StepOwnership DEF Ownership, WellTyped
<1>1. CASE PollerStep
  BY <1>0, <1>1, PollerBooks
<1>2. ASSUME NEW w \in Tasks, WorkerStep(w)
      PROVE  Books'
  BY <1>0, <1>2, LoadBooks, BeginBooks, AdvanceBooks, ImportBooks, CloseBooks
  DEF WorkerStep
<1>3. ASSUME NEW w \in Tasks, BackoffElapses(w)
      PROVE  Books'
  <2>1. /\ row[w].next = "waiting" /\ row' = [row EXCEPT ![w].next = "due"]
        /\ UNCHANGED <<state, path, retries, disk, poller, task, stale>>
    BY <1>3 DEF BackoffElapses, procVars, histVars
  <2>2. \A v \in Tasks :
          /\ row'[v].status = row[v].status
          /\ row'[v].asset = row[v].asset
          /\ row'[v].cycle = row[v].cycle
          /\ row'[v] = NoRow <=> row[v] = NoRow
    BY <2>1 DEF Ownership, WellTyped, TypeOK, Row, NoRow
  <2>3. \A a \in Assets : Rows(a)' = Rows(a) /\ Running(a)' = Running(a)
    BY <2>2 DEF Rows, Running
  <2>4. RowsNameTheirTask' /\ FilesOfWorkers'
    BY <2>1, <2>2 DEF Books, RowsNameTheirTask, FilesOfWorkers, Begun, Live
  <2>5. LibraryConsistent' /\ FilesAccountedFor'
    BY <2>1, <2>2, <2>3 DEF Books, LibraryConsistent, FilesAccountedFor, FilesOfWorkers
  <2>6. RunningIsCurrent'
    BY <2>1, <2>2, <2>3 DEF Books, RunningIsCurrent, Abandoned, Live, Running, Rows
  <2> QED
    BY <2>4, <2>5, <2>6 DEF Books
<1>4. CASE ClientStep
  BY <1>0, <1>4, ClientBooks
<1>5. CASE FaultStep
  BY <1>0, <1>5, FaultBooks
<1>6. CASE UNCHANGED vars
  BY <1>0, <1>6, BooksFrame
  DEF vars, dbVars, procVars, histVars, Ownership, WellTyped, TypeOK
<1> QED
  BY <1>1, <1>2, <1>3, <1>4, <1>5, <1>6 DEF Next

\* They therefore hold in every reachable state.
LEMMA BooksInvariant == Spec => [](Ownership /\ Books)
<1>1. Init => Ownership /\ Books
  BY InitOwnership, InitBooks
<1>2. (Ownership /\ Books) /\ [Next]_vars => (Ownership /\ Books)'
  BY StepOwnership, StepBooks
<1> QED
  BY <1>1, <1>2, PTL DEF Spec

\* The rows and the media folder tell the same, through every interleaving of
\* workers, requests, failures and crashes: an asset has a file exactly when its
\* state says so, and no file is unaccounted for unless its worker is, or died,
\* between the move and the commit.
THEOREM LibraryHolds == Spec => []LibraryMatchesDisk
<1>1. Books => LibraryMatchesDisk
  BY DEF Books
<1> QED
  BY <1>1, BooksInvariant, PTL

-----------------------------------------------------------------------------
(* Nothing is stranded. A stale asset may have several workers, and one of     *)
(* them may end without writing its state; NothingStranded does not say that   *)
(* the worker it speaks of will. The one that will is the one whose session    *)
(* has the in-flight state, so that SQLAlchemy sees a change.                  *)

EndsTheFlight(w, a) ==
    /\ task[w].asset = a
    /\ \/ task[w].pc = "load"
       \/ task[w].pc # "finish" /\ task[w].seen \in InFlight

SomebodyHasIt ==
    Up /\ poller.pc # "reconcile" =>
        \A a \in Assets : state[a] \in InFlight =>
            \/ \E w \in Live : EndsTheFlight(w, a)
            \/ poller.pc = "spawn" /\ poller.pick = a

\* A step preserves it that takes no worker from an asset in flight.
LEMMA HasItFrame ==
    ASSUME SomebodyHasIt, UNCHANGED <<task, state>>,
           \/ poller.pc = "down" /\ poller'.pc = "reconcile"
           \/ /\ poller.pc \notin {"down", "reconcile", "spawn"}
              /\ poller'.pc \notin {"down", "reconcile", "spawn"}
           \/ UNCHANGED poller
    PROVE  SomebodyHasIt'
BY DEF SomebodyHasIt, EndsTheFlight, Up, Live

\* A claim puts the asset in flight and the poller then starts its worker;
\* recovery leaves nothing in flight.
LEMMA PollerHasIt ==
    ASSUME Ownership, SomebodyHasIt, PollerStep
    PROVE  SomebodyHasIt'
<1> USE DEF Ownership, WellTyped
<1>1. CASE Start \/ TickStart \/ ClaimNone \/ \E a \in Assets : ClaimRead(a)
  <2>1. UNCHANGED <<task, state>>
    BY <1>1 DEF Start, TickStart, ClaimNone, ClaimRead, dbVars
  <2>2. \/ poller.pc = "down" /\ poller'.pc = "reconcile"
        \/ /\ poller.pc \notin {"down", "reconcile", "spawn"}
           /\ poller'.pc \notin {"down", "reconcile", "spawn"}
        \/ UNCHANGED poller
    BY <1>1 DEF Start, TickStart, ClaimNone, ClaimRead, TypeOK, Poller
  <2> QED
    BY <2>1, <2>2, HasItFrame
<1>2. CASE ReconcileInterruptedAssets
  <2>1. \A a \in Assets : state'[a] \notin InFlight
    BY <1>2 DEF ReconcileInterruptedAssets, InFlight
  <2> QED
    BY <2>1 DEF SomebodyHasIt
<1>3. CASE ClaimCommit
  <2>1. /\ poller'.pc = "spawn" /\ poller'.pick = poller.pick /\ poller.pc = "commit"
        /\ \A b \in Assets \ {poller.pick} : state'[b] = state[b]
        /\ UNCHANGED task
    BY <1>3 DEF ClaimCommit, TypeOK, Poller
  <2> QED
    BY <2>1 DEF SomebodyHasIt, EndsTheFlight, Up, Live
<1>4. CASE Spawn
  <2>1. PICK w \in Tasks :
          /\ task[w].pc = "unused" /\ task'[w].pc = "load"
          /\ task'[w].asset = poller.pick
          /\ \A v \in Tasks \ {w} : task'[v] = task[v]
          /\ poller.pc = "spawn" /\ UNCHANGED dbVars
    BY <1>4, SpawnFacts
  <2>2. w \in Live' /\ \A v \in Live : v \in Live' /\ task'[v] = task[v]
    BY <2>1 DEF Live, LivePC
  <2> QED
    <3> SUFFICES ASSUME NEW a \in Assets, state'[a] \in InFlight
                 PROVE  \E v \in Live' : EndsTheFlight(v, a)'
      BY DEF SomebodyHasIt
    <3>1. state[a] \in InFlight
      BY <2>1 DEF dbVars
    <3>2. CASE poller.pick = a
      BY <2>1, <2>2, <3>2 DEF EndsTheFlight
    <3>3. CASE poller.pick # a
      <4>1. PICK v \in Live : EndsTheFlight(v, a)
        BY <2>1, <3>1, <3>3 DEF SomebodyHasIt, Up
      <4> QED
        BY <2>2, <4>1 DEF EndsTheFlight
    <3> QED
      BY <3>2, <3>3
<1> QED
  BY <1>1, <1>2, <1>3, <1>4 DEF PollerStep

\* A worker that puts its asset in flight knows it, and one that knows it ends
\* with a state that is not in flight.
LEMMA WorkerHasIt ==
    ASSUME Ownership, SomebodyHasIt, NEW w \in Tasks, WorkerStep(w)
    PROVE  SomebodyHasIt'
<1> USE DEF Ownership, WellTyped
<1> DEFINE a == task[w].asset
<1>1. CASE Load(w)
  <2>1. /\ task'[w].asset = a /\ task'[w].seen = state[a] /\ task'[w].pc = "begin"
        /\ w \in Live /\ \A v \in Tasks \ {w} : task'[v] = task[v]
        /\ UNCHANGED <<state, poller>>
    BY <1>1, LoadFacts DEF dbVars
  <2>2. Live' = Live
    BY <2>1 DEF Live, LivePC
  <2> QED
    BY <2>1, <2>2 DEF SomebodyHasIt, EndsTheFlight, Up, Live
<1>2. CASE BeginAttempt(w)
  <2>1. /\ task'[w].asset = a /\ task'[w].seen = task[w].seen /\ task'[w].pc = "download"
        /\ w \in Live /\ task[w].pc = "begin"
        /\ \A v \in Tasks \ {w} : task'[v] = task[v]
        /\ UNCHANGED <<state, poller>>
    BY <1>2, BeginFacts
  <2>2. Live' = Live
    BY <2>1 DEF Live, LivePC
  <2> QED
    BY <2>1, <2>2 DEF SomebodyHasIt, EndsTheFlight, Up, Live
<1>3. CASE Downloaded(w) \/ Processed(w) \/ MoveIntoLibrary(w)
  <2>1. /\ task'[w].asset = a /\ w \in Live /\ UNCHANGED poller
        /\ task[w].pc # "load" /\ task'[w].pc \in LivePC \ {"finish"}
        /\ \A v \in Tasks \ {w} : task'[v] = task[v]
        /\ \A b \in Assets \ {a} : state'[b] = state[b]
        /\ \/ task'[w].seen = task[w].seen /\ state' = state
           \/ task'[w].seen \in InFlight
    BY <1>3, AdvanceFacts DEF LivePC
  <2>2. Live' = Live
    BY <2>1 DEF Live, LivePC
  <2> QED
    BY <2>1, <2>2 DEF SomebodyHasIt, EndsTheFlight, Up, Live
<1>4. CASE ImportAsset(w)
  <2>1. /\ w \in Live /\ a \in Assets /\ task'[w].asset = a /\ UNCHANGED poller
        /\ task[w].pc # "load" /\ task'[w].pc \in LivePC
        /\ \A v \in Tasks \ {w} : task'[v] = task[v]
        /\ \A b \in Assets \ {a} : state'[b] = state[b]
        /\ state'[a] \in Imported
    BY <1>4, ImportFacts DEF LivePC
  <2>2. Live' = Live
    BY <2>1 DEF Live, LivePC
  <2>3. state'[a] \notin InFlight
    BY <2>1, StateGroups
  <2> QED
    BY <2>1, <2>2, <2>3 DEF SomebodyHasIt, EndsTheFlight, Up, Live
<1>5. CASE Finish(w) \/ Fail(w)
  <2>1. /\ w \in Live /\ a \in Assets /\ task'[w].pc = "done" /\ UNCHANGED poller
        /\ task[w].pc # "load"
        /\ \A v \in Tasks \ {w} : task'[v] = task[v]
        /\ \A b \in Assets \ {a} : state'[b] = state[b]
    BY <1>5, CloseFacts
  <2>2. Live' = Live \ {w}
    BY <2>1 DEF Live, LivePC
  <2>3. state'[a] \notin InFlight \/ (UNCHANGED state /\ ~EndsTheFlight(w, a))
    <3>1. CASE Finish(w)
      <4>1. task[w].pc = "finish" /\ UNCHANGED state
        BY <3>1 DEF Finish, AtPC
      <4> QED
        BY <4>1 DEF EndsTheFlight
    <3>2. CASE Fail(w)
      <4>1. PICK new \in {"QUEUED", "DOWNLOAD_FAILED"} : SetState(w, new)
        BY <3>2 DEF Fail
      <4>2. task[w].seen \in InFlight => state'[a] = new
        BY <2>1, <4>1 DEF SetState, InFlight, TypeOK
      <4>3. UNCHANGED state \/ state'[a] = new
        BY <2>1, <4>1 DEF SetState, TypeOK
      <4> QED
        BY <2>1, <4>2, <4>3 DEF EndsTheFlight, InFlight
    <3> QED
      BY <1>5, <3>1, <3>2
  <2>4. \A v \in Live : v # w => v \in Live' /\ task'[v] = task[v]
    BY <2>1, <2>2 DEF Live
  <2> QED
    BY <2>1, <2>2, <2>3, <2>4 DEF SomebodyHasIt, EndsTheFlight, Up
<1> QED
  BY <1>1, <1>2, <1>3, <1>4, <1>5 DEF WorkerStep

\* While exceptions other than AcquisitionError do not happen, no step leaves an
\* asset in flight with nobody to end it.
LEMMA StepHasIt ==
    ASSUME Uncaught = FALSE, Ownership, SomebodyHasIt, [Next]_vars
    PROVE  SomebodyHasIt'
<1> USE DEF Ownership, WellTyped
<1>1. CASE PollerStep
  BY <1>1, PollerHasIt
<1>2. ASSUME NEW w \in Tasks, WorkerStep(w)
      PROVE  SomebodyHasIt'
  BY <1>2, WorkerHasIt
<1>3. ASSUME NEW w \in Tasks, BackoffElapses(w)
      PROVE  SomebodyHasIt'
  BY <1>3, HasItFrame DEF BackoffElapses, procVars
<1>4. CASE ClientStep
  <2>1. UNCHANGED <<task, poller>>
    BY <1>4 DEF ClientStep, HandlerRead, HandlerCommit, SetLimit, procVars
  <2>2. \A a \in Assets : state'[a] = state[a] \/ state'[a] \notin InFlight
    <3>1. ASSUME NEW c \in Clients, HandlerCommit(c)
          PROVE  \A a \in Assets : state'[a] = state[a] \/ state'[a] \notin InFlight
      BY <3>1, HandlerTargets, StateGroups DEF HandlerCommit, TypeOK
    <3> QED
      BY <1>4, <3>1 DEF ClientStep, HandlerRead, SetLimit, dbVars
  <2> QED
    BY <2>1, <2>2 DEF SomebodyHasIt, EndsTheFlight, Up, Live
<1>5. CASE FaultStep
  <2>1. poller'.pc = "down"
    BY <1>5 DEF FaultStep, ReconcileFails, ClaimFails, WorkerCrashed, Crash
  <2> QED
    BY <2>1 DEF SomebodyHasIt, Up
<1>6. CASE UNCHANGED vars
  BY <1>6, HasItFrame DEF vars, dbVars, procVars
<1> QED
  BY <1>1, <1>2, <1>3, <1>4, <1>5, <1>6 DEF Next

\* An attempt a dead worker left RUNNING is closed by the next recovery, or its
\* import had been committed, whatever exceptions and crashes there are.
THEOREM DeadAttemptsHold == Spec => []DeadAttemptIsRecoverable
<1>1. Ownership /\ Books => DeadAttemptIsRecoverable
  <2> SUFFICES ASSUME Ownership, Books, NEW w \in Tasks, row[w].status = "RUNNING",
                      task[w].pc = "dead", row[w].asset \notin stale
               PROVE  state[row[w].asset] \in InFlight \/ path[row[w].asset] = w
    BY DEF DeadAttemptIsRecoverable
  <2>1. row[w].asset \in Assets /\ w \in Running(row[w].asset) /\ w \notin Live
    BY DEF Books, RowsNameTheirTask, Running, Rows, Live, LivePC, NoRow
  <2> QED
    BY <2>1 DEF Books, RunningIsCurrent, Abandoned
<1> QED
  BY <1>1, BooksInvariant, PTL

\* While exceptions other than AcquisitionError do not happen, work in flight
\* always has somebody to finish it: a worker, or the recovery of the next start.
\* (With them a worker can die with its asset in flight: EveryAttemptConcludes.)
THEOREM NothingLost ==
    ASSUME Uncaught = FALSE
    PROVE  Spec => []NothingIsLost
<1>1. Init => SomebodyHasIt
  BY DEF Init, SomebodyHasIt, Up
<1>2. Ownership /\ SomebodyHasIt /\ [Next]_vars => SomebodyHasIt'
  BY StepHasIt
<1>3. SomebodyHasIt => NothingStranded
  BY DEF SomebodyHasIt, NothingStranded, EndsTheFlight
<1> QED
  BY <1>1, <1>2, <1>3, OwnershipInvariant, DeadAttemptsHold, PTL DEF Spec, NothingIsLost
-----------------------------------------------------------------------------
(* Backoff. A claim looks only at the attempt with the highest number. That is *)
(* enough because only that one can still be waiting, and because no attempt   *)
(* of an asset fails between its claim and its next attempt.                   *)

\* A worker has the asset, or the poller is about to give it one.
Taken(a) ==
    \/ \E w \in Live : task[w].asset = a
    \/ poller.pc \in {"commit", "spawn"} /\ poller.pick = a

OnlyTheLastWaits(a) ==
    \A v \in Rows(a) : row[v].next = "waiting" =>
        /\ ~Taken(a)
        /\ \A u \in Rows(a) \ {v} : row[u].number < row[v].number

\* The number a worker read is above those of its asset's other rows.
OwnerIsLast(a) ==
    \A w \in Live : task[w].asset = a =>
        /\ task[w].pc = "begin" => \A v \in Rows(a) : row[v].number < task[w].number
        /\ task[w].pc \in Begun => \A v \in Rows(a) \ {w} : row[v].number < row[w].number

NumbersGrow == \A a \in Assets \ stale : OnlyTheLastWaits(a) /\ OwnerIsLast(a)

\* An asset that is free to be claimed waits for nothing.
LEMMA FreeToClaim ==
    ASSUME TypeOK, NEW a \in Assets, OnlyTheLastWaits(a), NothingToWaitFor(a)
    PROVE  \A v \in Rows(a) : row[v].next # "waiting"
<1> SUFFICES ASSUME NEW v \in Rows(a), row[v].next = "waiting"
             PROVE  FALSE
  OBVIOUS
<1>1. PICK w \in LatestOf(Rows(a)) : row[w].next # "waiting"
  BY DEF NothingToWaitFor
<1>2. row[v].number <= row[w].number /\ w \in Rows(a) \ {v}
  BY <1>1 DEF LatestOf
<1>3. row[w].number < row[v].number
  BY <1>2 DEF OnlyTheLastWaits
<1>4. row[v].number \in Nat /\ row[w].number \in Nat
  BY <1>2 DEF Rows, TypeOK, Row
<1> QED
  BY <1>2, <1>3, <1>4

\* A step that leaves the rows and workers of an asset alone, and does not take
\* it, changes nothing here.
LEMMA NumbersFrame ==
    ASSUME NEW a \in Assets, OnlyTheLastWaits(a), OwnerIsLast(a),
           \A v \in Tasks : /\ row'[v].asset = row[v].asset
                            /\ row'[v].number = row[v].number
                            /\ row'[v].next = "waiting" => row[v].next = "waiting",
           \A w \in Live' : task'[w].asset = a =>
                              /\ w \in Live /\ task[w].asset = a
                              /\ task'[w].number = task[w].number
                              /\ task'[w].pc = "begin" => task[w].pc = "begin"
                              /\ task'[w].pc \in Begun => task[w].pc \in Begun,
           \/ Taken(a)' => Taken(a)
           \/ \A v \in Rows(a) : row[v].next # "waiting"
    PROVE  OnlyTheLastWaits(a)' /\ OwnerIsLast(a)'
<1>1. Rows(a)' = Rows(a) /\ Rows(a) \subseteq Tasks
  BY DEF Rows
<1>2. Live' \subseteq Tasks
  BY DEF Live
<1>3. OnlyTheLastWaits(a)'
  BY <1>1 DEF OnlyTheLastWaits
<1>4. OwnerIsLast(a)'
  BY <1>1, <1>2 DEF OwnerIsLast, Begun
<1> QED
  BY <1>3, <1>4

\* The poller takes an asset only when none of its attempts waits.
LEMMA PollerNumbers ==
    ASSUME Ownership, Books, NumbersGrow, PollerStep,
           NEW a \in Assets, a \notin stale'
    PROVE  OnlyTheLastWaits(a)' /\ OwnerIsLast(a)'
<1> USE DEF Ownership, WellTyped
<1>1. CASE Start \/ TickStart \/ ClaimNone
  <2>1. /\ UNCHANGED <<task, row, stale>>
        /\ poller'.pc \notin {"commit", "spawn"} \/ UNCHANGED poller
    BY <1>1 DEF Start, TickStart, ClaimNone, dbVars, histVars, TypeOK, Poller
  <2> QED
    BY <2>1, NumbersFrame DEF NumbersGrow, Taken, Live
<1>2. ASSUME NEW b \in Assets, ClaimRead(b)
      PROVE  OnlyTheLastWaits(a)' /\ OwnerIsLast(a)'
  <2>1. /\ UNCHANGED <<task, row, stale>> /\ poller'.pc = "commit" /\ poller'.pick = b
        /\ NothingToWaitFor(b)
    BY <1>2 DEF ClaimRead, dbVars, histVars, TypeOK, Poller
  <2>2. a = b => \A v \in Rows(a) : row[v].next # "waiting"
    BY <2>1, FreeToClaim DEF NumbersGrow
  <2>3. a # b => (Taken(a)' => Taken(a))
    BY <2>1 DEF Taken, Live
  <2> QED
    BY <2>1, <2>2, <2>3, NumbersFrame DEF NumbersGrow, Live
<1>3. CASE ReconcileInterruptedAssets
  <2>1. PICK closed : row' = [w \in Tasks |-> IF w \in closed
                                 THEN [row[w] EXCEPT !.status = "INTERRUPTED"] ELSE row[w]]
    BY <1>3 DEF ReconcileInterruptedAssets
  <2>2. \A v \in Tasks : /\ row'[v].asset = row[v].asset /\ row'[v].number = row[v].number
                         /\ row'[v].next = row[v].next
    BY <2>1 DEF TypeOK, Row
  <2>3. UNCHANGED <<task, stale>> /\ poller'.pc = "idle"
    BY <1>3 DEF ReconcileInterruptedAssets, histVars, TypeOK, Poller
  <2> QED
    BY <2>2, <2>3, NumbersFrame DEF NumbersGrow, Taken, Live
<1>4. CASE ClaimCommit
  <2>1. /\ UNCHANGED <<task, row>> /\ stale \subseteq stale'
        /\ poller.pc = "commit" /\ poller'.pick = poller.pick
    BY <1>4 DEF ClaimCommit, TypeOK, Poller
  <2> QED
    BY <2>1, NumbersFrame DEF NumbersGrow, Taken, Live
<1>5. CASE Spawn
  <2>1. PICK w \in Tasks :
          /\ task[w].pc = "unused" /\ task'[w].pc = "load"
          /\ task'[w].asset = poller.pick
          /\ \A v \in Tasks \ {w} : task'[v] = task[v]
          /\ poller.pc = "spawn" /\ poller'.pc \in {"claim", "idle"}
          /\ UNCHANGED <<row, stale>>
    BY <1>5, SpawnFacts DEF dbVars, histVars
  <2>2. Live' = Live \cup {w} /\ w \notin Live
    BY <2>1 DEF Live, LivePC
  <2>3. Taken(a)' => Taken(a)
    <3> SUFFICES ASSUME NEW v \in Live', task'[v].asset = a
                 PROVE  Taken(a)
      BY <2>1 DEF Taken
    <3>1. CASE v = w
      BY <2>1, <3>1 DEF Taken
    <3>2. CASE v # w
      BY <2>1, <2>2, <3>2 DEF Taken, Live
    <3> QED
      BY <3>1, <3>2
  <2>4. OnlyTheLastWaits(a)'
    BY <2>1, <2>3 DEF NumbersGrow, OnlyTheLastWaits, Rows
  <2>5. OwnerIsLast(a)'
    BY <2>1, <2>2 DEF NumbersGrow, OwnerIsLast, Rows, Begun, Live
  <2> QED
    BY <2>4, <2>5
<1> QED
  BY <1>1, <1>2, <1>3, <1>4, <1>5 DEF PollerStep

\* A worker numbers its attempt above the others, and it is the only one whose
\* attempt can be told to wait.
LEMMA WorkerNumbers ==
    ASSUME Ownership, Books, NumbersGrow, NEW w \in Tasks, WorkerStep(w),
           NEW a \in Assets, a \notin stale'
    PROVE  OnlyTheLastWaits(a)' /\ OwnerIsLast(a)'
<1> USE DEF Ownership, WellTyped
<1> DEFINE b == task[w].asset
<1>1. CASE Load(w)
  <2>1. /\ w \in Live /\ b \in Assets /\ task'[w].asset = b
        /\ task[w].pc = "load" /\ task'[w].pc = "begin"
        /\ Rows(b) = {} \/ \E v \in LatestOf(Rows(b)) : task'[w].number = row[v].number + 1
        /\ \A v \in Tasks \ {w} : task'[v] = task[v]
        /\ UNCHANGED <<row, poller, stale>>
    BY <1>1, LoadFacts DEF dbVars, histVars
  <2>2. Live' = Live
    BY <2>1 DEF Live, LivePC
  <2>3. \A v \in Rows(b) : row[v].number < task'[w].number
    <3>1. \A v \in Rows(b) : row[v].number \in Nat
      BY DEF Rows, TypeOK, Row
    <3> QED
      BY <2>1, <3>1 DEF LatestOf
  <2>4. Taken(a)' => Taken(a)
    BY <2>1, <2>2 DEF Taken, Live
  <2>5. OnlyTheLastWaits(a)'
    BY <2>1, <2>4 DEF NumbersGrow, OnlyTheLastWaits, Rows
  <2>6. OwnerIsLast(a)'
    BY <2>1, <2>2, <2>3 DEF NumbersGrow, OwnerIsLast, Rows, Begun, Live
  <2> QED
    BY <2>5, <2>6
<1>2. CASE BeginAttempt(w)
  <2>1. /\ w \in Live /\ b \in Assets /\ task'[w].asset = b
        /\ task[w].pc = "begin" /\ task'[w].pc = "download"
        /\ row'[w].asset = b /\ row'[w].number = task[w].number /\ row'[w].next = "none"
        /\ \A v \in Tasks \ {w} : row'[v] = row[v] /\ task'[v] = task[v]
        /\ UNCHANGED <<poller, stale>>
    BY <1>2, BeginFacts DEF histVars
  <2>2. Live' = Live
    BY <2>1 DEF Live, LivePC
  <2>3. row[w] = NoRow /\ row[w].asset # a
    BY <2>1, ConstantsAssumption DEF Books, RowsNameTheirTask, NoRow
  <2>4. CASE a = b
    <3>1. \A v \in Rows(a) : row[v].next # "waiting"
      BY <2>1, <2>4 DEF NumbersGrow, OnlyTheLastWaits, Taken
    <3>2. Rows(a)' = Rows(a) \cup {w} /\ w \notin Rows(a) /\ \A v \in Rows(a) : row'[v] = row[v]
      BY <2>1, <2>3, <2>4 DEF Rows
    <3>3. OnlyTheLastWaits(a)'
      BY <2>1, <3>1, <3>2 DEF OnlyTheLastWaits
    <3>4. \A v \in Live : task[v].asset = a => v = w
      BY <2>1, <2>4 DEF OneWorkerPerAsset
    <3>5. OwnerIsLast(a)'
      BY <2>1, <2>2, <2>4, <3>2, <3>4 DEF NumbersGrow, OwnerIsLast, Live
    <3> QED
      BY <3>3, <3>5
  <2>5. CASE a # b
    <3>1. Rows(a)' = Rows(a) /\ \A v \in Rows(a) : row'[v] = row[v]
      BY <2>1, <2>3, <2>5 DEF Rows
    <3>2. Taken(a)' <=> Taken(a)
      BY <2>1, <2>2 DEF Taken, Live
    <3>3. OnlyTheLastWaits(a)'
      BY <2>1, <3>1, <3>2 DEF NumbersGrow, OnlyTheLastWaits
    <3>4. OwnerIsLast(a)'
      BY <2>1, <2>2, <2>5, <3>1 DEF NumbersGrow, OwnerIsLast, Live
    <3> QED
      BY <3>3, <3>4
  <2> QED
    BY <2>4, <2>5
<1>3. CASE Downloaded(w) \/ Processed(w) \/ MoveIntoLibrary(w) \/ ImportAsset(w)
  <2>1. /\ w \in Live /\ task'[w].asset = b
        /\ task[w].pc \in Begun /\ task'[w].pc \in Begun
        /\ \A v \in Tasks \ {w} : task'[v] = task[v]
        /\ UNCHANGED <<row, poller, stale>>
    BY <1>3, AdvanceFacts, ImportFacts DEF Begun, histVars
  <2>2. Live' = Live
    BY <2>1 DEF Live, LivePC, Begun
  <2>3. Taken(a)' => Taken(a)
    BY <2>1, <2>2 DEF Taken, Live
  <2>4. OnlyTheLastWaits(a)'
    BY <2>1, <2>3 DEF NumbersGrow, OnlyTheLastWaits, Rows
  <2>5. OwnerIsLast(a)'
    BY <2>1, <2>2 DEF NumbersGrow, OwnerIsLast, Rows, Live, Begun
  <2> QED
    BY <2>4, <2>5
<1>4. CASE Finish(w) \/ Fail(w)
  <2>1. /\ w \in Live /\ b \in Assets /\ task'[w].pc = "done"
        /\ row'[w].asset = row[w].asset /\ row'[w].number = row[w].number
        /\ row'[w].next = "waiting" => task[w].pc # "finish"
        /\ task[w].pc \in Begun
        /\ \A v \in Tasks \ {w} : task'[v] = task[v] /\ row'[v] = row[v]
        /\ UNCHANGED <<poller, stale>>
    BY <1>4, CloseFacts DEF histVars, Begun
  <2>2. Live' = Live \ {w} /\ row[w].asset = b
    BY <2>1 DEF Live, LivePC, Books, RowsNameTheirTask
  <2>3. Rows(a)' = Rows(a) /\ Rows(a) \subseteq Tasks
    BY <2>1 DEF Rows
  <2>4. OwnerIsLast(a)'
    BY <2>1, <2>2, <2>3 DEF NumbersGrow, OwnerIsLast, Live
  <2>5. Taken(a)' => Taken(a)
    BY <2>1, <2>2 DEF Taken, Live
  <2>6. a = b /\ task[w].pc # "finish" => ~Taken(a)'
    <3> SUFFICES ASSUME a = b, task[w].pc # "finish"
                 PROVE  ~Taken(a)'
      OBVIOUS
    <3>1. \A v \in Live' : task'[v].asset # a
      BY <2>1, <2>2 DEF OneWorkerPerAsset, Live
    <3>2. state[a] \in InFlight
      BY <2>1 DEF StateTellsOwner
    <3>3. ~(poller.pc \in {"commit", "spawn"} /\ poller.pick = a)
      BY <2>1, <3>2, StateGroups DEF PickIsFree
    <3> QED
      BY <2>1, <3>1, <3>3 DEF Taken
  <2>7. OnlyTheLastWaits(a)'
    <3> SUFFICES ASSUME NEW v \in Rows(a), row'[v].next = "waiting"
                 PROVE  ~Taken(a)' /\ \A u \in Rows(a) \ {v} : row'[u].number < row'[v].number
      BY <2>3 DEF OnlyTheLastWaits
    <3>1. \A u \in Tasks : row'[u].number = row[u].number
      BY <2>1
    <3>2. CASE v = w
      <4>1. a = b
        BY <2>2, <3>2 DEF Rows
      <4>2. \A u \in Rows(a) \ {w} : row[u].number < row[w].number
        BY <2>1, <4>1 DEF NumbersGrow, OwnerIsLast
      <4> QED
        BY <2>1, <2>3, <2>6, <3>1, <3>2, <4>1, <4>2
    <3>3. CASE v # w
      BY <2>1, <2>3, <2>5, <3>1, <3>3 DEF NumbersGrow, OnlyTheLastWaits
    <3> QED
      BY <3>2, <3>3
  <2> QED
    BY <2>4, <2>7
<1> QED
  BY <1>1, <1>2, <1>3, <1>4 DEF WorkerStep

\* Requests touch no row and no worker.
LEMMA ClientNumbers ==
    ASSUME NumbersGrow, ClientStep, NEW a \in Assets, a \notin stale'
    PROVE  OnlyTheLastWaits(a)' /\ OwnerIsLast(a)'
<1>1. UNCHANGED <<row, task, poller>> /\ stale \subseteq stale'
  BY DEF ClientStep, HandlerRead, HandlerCommit, SetLimit, dbVars, procVars, histVars
<1> QED
  BY <1>1, NumbersFrame DEF NumbersGrow, Taken, Live

\* A failure or a stop takes workers and the poller's pick away.
LEMMA FaultNumbers ==
    ASSUME Ownership, NumbersGrow, FaultStep, NEW a \in Assets, a \notin stale'
    PROVE  OnlyTheLastWaits(a)' /\ OwnerIsLast(a)'
<1> USE DEF Ownership, WellTyped
<1>1. UNCHANGED <<row, stale>>
  BY DEF FaultStep, ReconcileFails, ClaimFails, WorkerCrashed, Crash, dbVars, histVars
<1>2. \A w \in Live' : w \in Live /\ task'[w] = task[w]
  <2>1. CASE ReconcileFails \/ ClaimFails
    BY <2>1 DEF ReconcileFails, ClaimFails, Live
  <2>2. ASSUME NEW w \in Tasks, WorkerCrashed(w)
        PROVE  \A v \in Live' : v \in Live /\ task'[v] = task[v]
    BY <2>2, RetireFacts DEF WorkerCrashed, Live, LivePC
  <2>3. CASE Crash
    BY <2>3 DEF Crash, Live, LivePC, IdleWorker
  <2> QED
    BY <2>1, <2>2, <2>3 DEF FaultStep
<1>3. UNCHANGED poller \/ poller'.pc \notin {"commit", "spawn"}
  BY DEF FaultStep, ReconcileFails, ClaimFails, WorkerCrashed, Crash, TypeOK, Poller
<1>4. Taken(a)' => Taken(a)
  BY <1>2, <1>3 DEF Taken
<1> QED
  BY <1>1, <1>2, <1>4, NumbersFrame DEF NumbersGrow

\* So the numbers always grow.
LEMMA StepNumbers ==
    ASSUME Ownership, Books, NumbersGrow, [Next]_vars
    PROVE  NumbersGrow'
<1> SUFFICES ASSUME NEW a \in Assets, a \notin stale'
             PROVE  OnlyTheLastWaits(a)' /\ OwnerIsLast(a)'
  BY DEF NumbersGrow
<1>1. CASE PollerStep
  BY <1>1, PollerNumbers
<1>2. ASSUME NEW w \in Tasks, WorkerStep(w)
      PROVE  OnlyTheLastWaits(a)' /\ OwnerIsLast(a)'
  BY <1>2, WorkerNumbers
<1>3. ASSUME NEW w \in Tasks, BackoffElapses(w)
      PROVE  OnlyTheLastWaits(a)' /\ OwnerIsLast(a)'
  <2>1. \A v \in Tasks : /\ row'[v].asset = row[v].asset
                         /\ row'[v].number = row[v].number
                         /\ row'[v].next = "waiting" => row[v].next = "waiting"
    BY <1>3 DEF BackoffElapses, Ownership, WellTyped, TypeOK, Row
  <2>2. UNCHANGED <<task, poller, stale>>
    BY <1>3 DEF BackoffElapses, procVars, histVars
  <2> QED
    BY <2>1, <2>2, NumbersFrame DEF NumbersGrow, Taken, Live
<1>4. CASE ClientStep
  BY <1>4, ClientNumbers
<1>5. CASE FaultStep
  BY <1>5, FaultNumbers
<1>6. CASE UNCHANGED vars
  BY <1>6, NumbersFrame DEF vars, dbVars, procVars, histVars, NumbersGrow, Taken, Live
<1> QED
  BY <1>1, <1>2, <1>3, <1>4, <1>5, <1>6 DEF Next

\* At first there is no row to wait for.
LEMMA InitNumbers == Init => NumbersGrow
<1> SUFFICES ASSUME Init PROVE NumbersGrow
  OBVIOUS
<1>1. Live = {} /\ \A v \in Tasks : row[v] = NoRow
  BY DEF Init, Live, LivePC, IdleWorker
<1>2. \A v \in Tasks : row[v].asset = None
  BY <1>1 DEF NoRow
<1>3. None \notin Assets
  BY ConstantsAssumption
<1>4. \A a \in Assets : Rows(a) = {}
  BY <1>2, <1>3 DEF Rows
<1> QED
  BY <1>1, <1>4 DEF NumbersGrow, OnlyTheLastWaits, OwnerIsLast

\* They therefore grow in every behaviour.
LEMMA NumbersInvariant == Spec => [](Ownership /\ Books /\ NumbersGrow)
<1>1. Ownership /\ Books /\ NumbersGrow /\ [Next]_vars => NumbersGrow'
  BY StepNumbers
<1> QED
  BY <1>1, InitNumbers, BooksInvariant, PTL DEF Spec

\* Only BeginAttempt records an attempt.
LEMMA RowsBegin ==
    ASSUME Ownership, Books, [Next]_vars, NEW w \in Tasks,
           row[w] = NoRow, row'[w] # NoRow
    PROVE  BeginAttempt(w)
<1> USE DEF Ownership, WellTyped
<1>1. row'[w] # row[w]
  OBVIOUS
<1>2. ~PollerStep
  <2>1. CASE ReconcileInterruptedAssets
    <3>1. PICK closed \in SUBSET Tasks :
            /\ \A v \in closed : \E a \in Assets : v \in LatestOf(Running(a))
            /\ row' = [v \in Tasks |-> IF v \in closed
                          THEN [row[v] EXCEPT !.status = "INTERRUPTED"] ELSE row[v]]
      BY <2>1 DEF ReconcileInterruptedAssets
    <3>2. w \in closed
      BY <1>1, <3>1
    <3> QED
      BY <3>1, <3>2 DEF LatestOf, Running, NoRow
  <2> QED
    BY <1>1, <2>1 DEF PollerStep, Start, TickStart, ClaimRead, ClaimNone, ClaimCommit,
                     Spawn, dbVars
<1>3. ASSUME NEW v \in Tasks, WorkerStep(v)
      PROVE  BeginAttempt(w)
  <2>1. CASE Finish(v) \/ Fail(v)
    <3>1. task[v].pc \in Begun /\ \A u \in Tasks \ {v} : row'[u] = row[u]
      BY <2>1, CloseFacts DEF Begun
    <3>2. row[v].status = "RUNNING"
      BY <3>1 DEF Books, RowsNameTheirTask
    <3> QED
      BY <1>1, <3>1, <3>2 DEF NoRow
  <2>2. CASE BeginAttempt(v)
    BY SMTT(60), <1>1, <2>2, BeginFacts
  <2>3. CASE Load(v) \/ Downloaded(v) \/ Processed(v) \/ MoveIntoLibrary(v) \/ ImportAsset(v)
    BY <1>1, <2>3 DEF Load, Downloaded, Processed, MoveIntoLibrary, ImportAsset, dbVars
  <2> QED
    BY <1>3, <2>1, <2>2, <2>3 DEF WorkerStep
<1>4. ASSUME NEW v \in Tasks, BackoffElapses(v)
      PROVE  FALSE
  BY <1>1, <1>4 DEF BackoffElapses, NoRow, TypeOK
<1>5. ~ClientStep /\ ~FaultStep /\ ~UNCHANGED vars
  BY <1>1 DEF ClientStep, HandlerRead, HandlerCommit, SetLimit, FaultStep, ReconcileFails,
             ClaimFails, WorkerCrashed, Crash, vars, dbVars
<1> QED
  BY <1>2, <1>3, <1>4, <1>5 DEF Next

\* No attempt is recorded while the wait an earlier failure of the same asset
\* was told is still running, whatever claims, crashes and requests come between
\* the failure and the attempt.
THEOREM BackoffHolds == Spec => BackoffRespected
<1>1. ASSUME Ownership, Books, NumbersGrow, [Next]_vars, NEW w \in Tasks,
             row[w] = NoRow, row'[w] # NoRow, row'[w].asset \notin stale
      PROVE  \A v \in Rows(row'[w].asset) : row[v].next # "waiting"
  <2>1. BeginAttempt(w)
    BY <1>1, RowsBegin
  <2>2. w \in Live /\ task[w].asset \in Assets /\ row'[w].asset = task[w].asset
    BY <1>1, <2>1, BeginFacts DEF Ownership
  <2> QED
    BY <1>1, <2>2 DEF NumbersGrow, OnlyTheLastWaits, Taken
<1> DEFINE A == \A w \in Tasks :
                  LET a == row'[w].asset
                  IN  row[w] = NoRow /\ row'[w] # NoRow /\ a \notin stale =>
                          \A v \in Rows(a) : row[v].next # "waiting"
<1>2. Ownership /\ Books /\ NumbersGrow /\ [Next]_vars => [A]_vars
  BY <1>1
<1> QED
  BY <1>2, NumbersInvariant, PTL DEF Spec, BackoffRespected

-----------------------------------------------------------------------------
(* The budget. The code counts the attempts of a cycle when a worker loads its *)
(* asset and compares that count when the attempt has failed; what makes the   *)
(* comparison bound the attempts is that the count stays above the number of   *)
(* closed ones in between, and that the cycles of a row never lie ahead.       *)

Closed(a) == {v \in Rows(a) : /\ row[v].cycle = retries[a]
                              /\ row[v].status \in {"FAILED", "SUCCEEDED"}}

Spent(a) == {v \in Rows(a) : row[v].cycle = retries[a] /\ row[v].status # "INTERRUPTED"}

Earlier(a) == {v \in Rows(a) : row[v].cycle < retries[a] /\ row[v].status # "INTERRUPTED"}

\* The worker's count, and that its session will see its change of state.
WorkerCounts(a) ==
    \A w \in Live : task[w].asset = a =>
        /\ task[w].pc \notin {"load", "finish"} => task[w].seen \in InFlight
        /\ task[w].pc \in {"begin", "download", "process", "import"} =>
               Cardinality(Closed(a)) < task[w].inCycle

CountedFor(a) ==
    /\ state[a] \in Claimable \cup InFlight => Cardinality(Closed(a)) < MaxAttempts
    /\ Cardinality(Spent(a)) <= MaxAttempts
    /\ Cardinality(Earlier(a)) <= MaxAttempts * retries[a]
    /\ WorkerCounts(a)

Counted == \A a \in Assets \ stale : CountedFor(a)

\* The sets counted are finite.
LEMMA FiniteCounts ==
    ASSUME NEW a
    PROVE  /\ Closed(a) \subseteq Tasks /\ Spent(a) \subseteq Tasks
           /\ Earlier(a) \subseteq Tasks /\ Rows(a) \subseteq Tasks
BY DEF Closed, Spent, Earlier, Rows

\* A part of a set of tasks is not larger.
LEMMA PartCounts ==
    ASSUME NEW S, NEW T, S \subseteq T, T \subseteq Tasks
    PROVE  /\ Cardinality(S) <= Cardinality(T)
           /\ Cardinality(S) \in Nat /\ Cardinality(T) \in Nat
<1>1. IsFiniteSet(T) /\ S \in SUBSET T
  BY ConstantsAssumption, FS_Subset
<1> QED
  BY <1>1, FS_Subset, FS_CardinalityType

\* One more task counts one more.
LEMMA OneMoreCounts ==
    ASSUME NEW S, S \subseteq Tasks, NEW w \in Tasks, w \notin S
    PROVE  Cardinality(S \cup {w}) = Cardinality(S) + 1 /\ Cardinality(S) \in Nat
<1>1. IsFiniteSet(S)
  BY ConstantsAssumption, FS_Subset
<1> QED
  BY <1>1, FS_AddElement, FS_CardinalityType

\* Two sets of tasks together count at most the sum.
LEMMA TogetherCount ==
    ASSUME NEW S, NEW T, S \subseteq Tasks, T \subseteq Tasks
    PROVE  /\ Cardinality(S \cup T) <= Cardinality(S) + Cardinality(T)
           /\ Cardinality(S) \in Nat /\ Cardinality(T) \in Nat
           /\ Cardinality(S \cup T) \in Nat
<1>1. IsFiniteSet(S) /\ IsFiniteSet(T) /\ S \cap T \in SUBSET S
  BY ConstantsAssumption, FS_Subset
<1>2. IsFiniteSet(S \cap T) /\ IsFiniteSet(S \cup T)
  BY <1>1, FS_Subset, FS_Union
<1>3. Cardinality(S \cup T) = Cardinality(S) + Cardinality(T) - Cardinality(S \cap T)
  BY <1>1, FS_Union
<1>4. /\ Cardinality(S) \in Nat /\ Cardinality(T) \in Nat
      /\ Cardinality(S \cup T) \in Nat /\ Cardinality(S \cap T) \in Nat
  BY <1>1, <1>2, FS_CardinalityType
<1> QED
  BY <1>3, <1>4

\* A step that closes nothing of an asset and opens nothing keeps its counts.
LEMMA CountsFrame ==
    ASSUME NEW a \in Assets, CountedFor(a), retries'[a] = retries[a],
           Closed(a)' = Closed(a), Spent(a)' \subseteq Spent(a),
           Earlier(a)' \subseteq Earlier(a),
           retries \in [Assets -> Nat],
           state'[a] \in Claimable \cup InFlight => state[a] \in Claimable \cup InFlight,
           \A w \in Live' : task'[w].asset = a =>
              \/ task'[w].pc = "load"
              \/ /\ w \in Live /\ task[w].asset = a
                 /\ task[w].pc \notin {"load", "finish"}
                 /\ task'[w].seen = task[w].seen \/ task'[w].seen \in InFlight
                 /\ task'[w].pc \in {"begin", "download", "process", "import"} =>
                       /\ task[w].pc \in {"begin", "download", "process", "import"}
                       /\ task'[w].inCycle = task[w].inCycle
              \/ task'[w].pc = "finish"
    PROVE  CountedFor(a)'
<1>1. /\ Cardinality(Spent(a)') <= Cardinality(Spent(a))
      /\ Cardinality(Spent(a)) \in Nat /\ Cardinality(Spent(a)') \in Nat
  BY FiniteCounts, PartCounts
<1>2. /\ Cardinality(Earlier(a)') <= Cardinality(Earlier(a))
      /\ Cardinality(Earlier(a)) \in Nat /\ Cardinality(Earlier(a)') \in Nat
  BY FiniteCounts, PartCounts
<1>3. MaxAttempts \in Nat /\ MaxAttempts * retries[a] \in Nat
  BY ConstantsAssumption
<1>4. Cardinality(Spent(a)') <= MaxAttempts
  BY <1>1, <1>3 DEF CountedFor
<1>5. Cardinality(Earlier(a)') <= MaxAttempts * retries'[a]
  <2>1. Cardinality(Earlier(a)) <= MaxAttempts * retries[a]
    BY DEF CountedFor
  <2> HIDE DEF Earlier
  <2> DEFINE m == MaxAttempts * retries[a]
  <2>2. Cardinality(Earlier(a)) <= m /\ m \in Nat
    BY <1>3, <2>1
  <2> HIDE DEF m
  <2>3. Cardinality(Earlier(a)') <= m
    BY <1>2, <2>2
  <2> QED
    BY <2>3 DEF m
<1>6. WorkerCounts(a)'
  BY DEF CountedFor, WorkerCounts
<1>7. state'[a] \in Claimable \cup InFlight => Cardinality(Closed(a)') < MaxAttempts
  BY DEF CountedFor
<1> QED
  BY <1>4, <1>5, <1>6, <1>7 DEF CountedFor

\* The counted rows are the same when the rows and the cycle are.
LEMMA SameRows ==
    ASSUME NEW a, retries'[a] = retries[a],
           \A v \in Tasks : /\ row'[v].status = row[v].status
                            /\ row'[v].asset = row[v].asset
                            /\ row'[v].cycle = row[v].cycle
    PROVE  /\ Closed(a)' = Closed(a) /\ Spent(a)' = Spent(a)
           /\ Earlier(a)' = Earlier(a)
BY DEF Closed, Spent, Earlier, Rows

\* Claims move an asset between states that have attempts left, and recovery
\* closes attempts without counting them.
LEMMA PollerCounts ==
    ASSUME Ownership, Books, Counted, PollerStep, NEW a \in Assets, a \notin stale'
    PROVE  CountedFor(a)'
<1> USE DEF Ownership, WellTyped
<1>1. CASE Start \/ TickStart \/ ClaimNone \/ \E b \in Assets : ClaimRead(b)
  <2>1. UNCHANGED <<state, retries, row, task, stale>>
    BY <1>1 DEF Start, TickStart, ClaimNone, ClaimRead, dbVars, histVars
  <2> QED
    BY ZenonT(60), <2>1 DEF Counted, CountedFor, WorkerCounts, Closed, Spent, Earlier, Rows, Live
<1>2. CASE ReconcileInterruptedAssets
  <2>1. PICK closed \in SUBSET Tasks :
          /\ \A v \in closed : \E b \in Assets : v \in LatestOf(Running(b))
          /\ row' = [v \in Tasks |-> IF v \in closed
                        THEN [row[v] EXCEPT !.status = "INTERRUPTED"] ELSE row[v]]
    BY <1>2 DEF ReconcileInterruptedAssets
  <2>2. \A v \in Tasks : /\ row'[v].asset = row[v].asset /\ row'[v].cycle = row[v].cycle
                         /\ v \notin closed => row'[v].status = row[v].status
                         /\ v \in closed => row'[v].status = "INTERRUPTED"
    BY <2>1 DEF TypeOK, Row
  <2>3. \A v \in closed : row[v].status = "RUNNING"
    BY <2>1 DEF LatestOf, Running
  <2>4. UNCHANGED <<retries, task, stale>> /\ poller.pc = "reconcile"
    BY <1>2 DEF ReconcileInterruptedAssets, histVars
  <2>5. Closed(a)' = Closed(a)
    BY <2>2, <2>3, <2>4 DEF Closed, Rows
  <2>6. Spent(a)' \subseteq Spent(a) /\ Earlier(a)' \subseteq Earlier(a)
    BY <2>2, <2>3, <2>4 DEF Spent, Earlier, Rows
  <2>7. Live' = {}
    BY <2>4 DEF NoWorkerBeforeRecovery, Live
  <2>8. state'[a] \in Claimable \cup InFlight => state[a] \in Claimable \cup InFlight
    BY <1>2 DEF ReconcileInterruptedAssets
  <2> QED
    BY <2>4, <2>5, <2>6, <2>7, <2>8, CountsFrame DEF Counted, TypeOK
<1>3. CASE ClaimCommit
  <2>1. /\ poller.pc = "commit" /\ poller.pick \in Assets
        /\ state' = [state EXCEPT ![poller.pick] = "DOWNLOADING"]
        /\ stale' = IF state[poller.pick] \in Claimable THEN stale
                    ELSE stale \cup {poller.pick}
        /\ UNCHANGED <<retries, row, task>>
    BY <1>3 DEF ClaimCommit, HoldsAnAsset
  <2>2. state'[a] \in Claimable \cup InFlight => state[a] \in Claimable \cup InFlight
    BY <2>1 DEF TypeOK
  <2>3. a \notin stale
    BY <2>1
  <2> QED
    BY ZenonT(60), <2>1, <2>2, <2>3
        DEF Counted, CountedFor, WorkerCounts, Closed, Spent, Earlier, Rows, Live
<1>4. CASE Spawn
  <2>1. PICK w \in Tasks :
          /\ task'[w].pc = "load"
          /\ \A v \in Tasks \ {w} : task'[v] = task[v]
          /\ UNCHANGED <<state, retries, row, stale>>
    BY <1>4, SpawnFacts DEF dbVars, histVars
  <2>2. /\ Closed(a)' = Closed(a) /\ Spent(a)' = Spent(a) /\ Earlier(a)' = Earlier(a)
    BY <2>1, SameRows
  <2>3. \A v \in Live' : task'[v].pc = "load" \/ (v \in Live /\ task'[v] = task[v])
    BY <2>1 DEF Live
  <2>4. \A v \in Live' : task'[v].asset = a =>
              \/ task'[v].pc = "load"
              \/ /\ v \in Live /\ task[v].asset = a
                 /\ task[v].pc \notin {"load", "finish"}
                 /\ task'[v].seen = task[v].seen \/ task'[v].seen \in InFlight
                 /\ task'[v].pc \in {"begin", "download", "process", "import"} =>
                       /\ task[v].pc \in {"begin", "download", "process", "import"}
                       /\ task'[v].inCycle = task[v].inCycle
              \/ task'[v].pc = "finish"
    BY <2>3
  <2>5. CountedFor(a) /\ retries \in [Assets -> Nat]
    BY <2>1 DEF Counted, TypeOK
  <2> QED
    BY <2>1, <2>2, <2>4, <2>5, CountsFrame
<1> QED
  BY <1>1, <1>2, <1>3, <1>4 DEF PollerStep

\* A worker's load counts at least the closed attempts, and its own attempt is
\* the only one of its asset that is open.
LEMMA WorkerCountsOn ==
    ASSUME Ownership, Books, Counted, NEW w \in Tasks, WorkerStep(w),
           NEW a \in Assets, a \notin stale'
    PROVE  CountedFor(a)'
<1> USE DEF Ownership, WellTyped
<1> DEFINE b == task[w].asset
<1>0. CountedFor(a) /\ a \notin stale /\ retries'[a] = retries[a] /\ retries \in [Assets -> Nat]
  BY DEF Counted, WorkerStep, Load, BeginAttempt, Downloaded, Processed, MoveIntoLibrary,
         ImportAsset, Finish, Fail, dbVars, histVars, TypeOK
<1>1. CASE Load(w)
  <2>1. /\ w \in Live /\ task'[w].pc = "begin" /\ task'[w].asset = b
        /\ task'[w].seen = state[b]
        /\ task'[w].inCycle = Cardinality({v \in Rows(b) : row[v].cycle >= retries[b]}) + 1
        /\ task[w].pc = "load"
        /\ \A v \in Tasks \ {w} : task'[v] = task[v]
        /\ UNCHANGED <<state, retries, row, stale>>
    BY <1>1, LoadFacts DEF dbVars, histVars
  <2>2. Closed(a)' = Closed(a) /\ Spent(a)' = Spent(a) /\ Earlier(a)' = Earlier(a)
    BY <2>1, SameRows
  <2>3. a = b => Cardinality(Closed(a)) < task'[w].inCycle
    <3> DEFINE counted == {v \in Rows(a) : row[v].cycle >= retries[a]}
    <3>1. Closed(a) \subseteq counted /\ counted \subseteq Tasks
      BY <1>0 DEF Closed, Rows
    <3>2. /\ Cardinality(Closed(a)) <= Cardinality(counted)
          /\ Cardinality(Closed(a)) \in Nat /\ Cardinality(counted) \in Nat
      BY <3>1, PartCounts
    <3> QED
      BY <2>1, <3>2
  <2>4. a = b => task'[w].seen \in InFlight
    BY <1>0, <2>1 DEF StateTellsOwner
  <2>5. Live' = Live
    BY <2>1 DEF Live, LivePC
  <2>6. WorkerCounts(a)'
    BY <1>0, <2>1, <2>2, <2>3, <2>4, <2>5 DEF CountedFor, WorkerCounts, Live
  <2> QED
    BY <1>0, <2>1, <2>2, <2>6 DEF CountedFor
<1>2. CASE BeginAttempt(w)
  <2>1. /\ w \in Live /\ b \in Assets /\ task[w].pc = "begin"
        /\ task'[w].pc = "download" /\ task'[w].asset = b
        /\ task'[w].seen = task[w].seen /\ task'[w].inCycle = task[w].inCycle
        /\ row'[w].status = "RUNNING" /\ row'[w].asset = b /\ row'[w].cycle = retries[b]
        /\ \A v \in Tasks \ {w} : row'[v] = row[v] /\ task'[v] = task[v]
        /\ UNCHANGED <<state, retries, stale>>
    BY <1>2, BeginFacts DEF histVars
  <2>2. row[w] = NoRow /\ row[w].asset # a
    BY <2>1, ConstantsAssumption DEF Books, RowsNameTheirTask, NoRow
  <2>3. Closed(a)' = Closed(a) /\ Earlier(a)' = Earlier(a)
    BY <1>0, <2>1, <2>2 DEF Closed, Earlier, Rows
  <2>4. Live' = Live
    BY <2>1 DEF Live, LivePC
  <2>5. WorkerCounts(a)'
    BY <1>0, <2>1, <2>3, <2>4 DEF CountedFor, WorkerCounts, Live
  <2>6. Cardinality(Spent(a)') <= MaxAttempts
    <3>1. CASE a # b
      <4>1. Spent(a)' = Spent(a)
        BY <1>0, <2>1, <2>2, <3>1 DEF Spent, Rows
      <4> QED
        BY <1>0, <4>1 DEF CountedFor
    <3>2. CASE a = b
      <4>1. \A v \in Running(a) : v = w
        BY <1>0, <2>1, <3>2, WorkerHasTheRow
      <4>2. \A v \in Spent(a) : v \in Closed(a)
        <5> SUFFICES ASSUME NEW v \in Spent(a)
                     PROVE  v \in Closed(a)
          OBVIOUS
        <5>1. v \in Rows(a) /\ v # w /\ row[v].status # "INTERRUPTED" /\ row[v].cycle = retries[a]
          BY <2>2 DEF Spent, Rows
        <5>2. row[v].status # "RUNNING"
          BY <4>1, <5>1 DEF Running
        <5>3. row[v].status # "absent"
          BY <5>1, ConstantsAssumption DEF Books, RowsNameTheirTask, Rows, NoRow
        <5>4. row[v].status \in AttemptStatus \cup {"absent"}
          BY <5>1 DEF Rows, TypeOK, Row
        <5> QED
          BY <5>1, <5>2, <5>3, <5>4 DEF Closed, AttemptStatus
      <4>3. Spent(a)' \subseteq Closed(a) \cup {w}
        BY <1>0, <2>1, <4>2 DEF Spent, Rows
      <4>4. Closed(a) \subseteq Tasks /\ w \notin Closed(a)
        BY <2>2 DEF Closed, Rows
      <4>5. /\ Cardinality(Closed(a) \cup {w}) = Cardinality(Closed(a)) + 1
            /\ Cardinality(Closed(a)) \in Nat
        BY <4>4, OneMoreCounts
      <4>6. Closed(a) \cup {w} \subseteq Tasks
        BY <4>4
      <4>7. /\ Cardinality(Spent(a)') <= Cardinality(Closed(a) \cup {w})
            /\ Cardinality(Spent(a)') \in Nat
        BY <4>3, <4>6, PartCounts
      <4>8. Cardinality(Closed(a)) < MaxAttempts
        BY <1>0, <2>1, <3>2 DEF CountedFor, StateTellsOwner
      <4>9. MaxAttempts \in Nat
        BY ConstantsAssumption
      <4> QED
        BY <4>5, <4>7, <4>8, <4>9
    <3> QED
      BY <3>1, <3>2
  <2> QED
    BY <1>0, <2>1, <2>3, <2>5, <2>6 DEF CountedFor
<1>3. CASE Downloaded(w) \/ Processed(w) \/ MoveIntoLibrary(w)
  <2>1. /\ w \in Live /\ b \in Assets /\ task'[w].asset = b
        /\ task'[w].inCycle = task[w].inCycle
        /\ task[w].pc \in {"download", "process", "import"}
        /\ task'[w].pc \in {"process", "import", "moved"}
        /\ task'[w].seen = task[w].seen \/ task'[w].seen \in InFlight
        /\ \A c \in Assets \ {b} : state'[c] = state[c]
        /\ \A v \in Tasks \ {w} : task'[v] = task[v]
        /\ UNCHANGED <<retries, row, stale>>
    BY <1>3, AdvanceFacts DEF histVars
  <2>2. Closed(a)' = Closed(a) /\ Spent(a)' = Spent(a) /\ Earlier(a)' = Earlier(a)
    BY <2>1, SameRows
  <2>3. state'[a] \in Claimable \cup InFlight => state[a] \in Claimable \cup InFlight
    BY <1>0, <2>1 DEF StateTellsOwner
  <2>4. Live' = Live
    BY <2>1 DEF Live, LivePC
  <2>5. WorkerCounts(a)'
    BY <1>0, <2>1, <2>2, <2>4 DEF CountedFor, WorkerCounts, Live
  <2> QED
    BY <1>0, <2>1, <2>2, <2>3, <2>5 DEF CountedFor
<1>4. CASE ImportAsset(w)
  <2>1. /\ w \in Live /\ task'[w].asset = b /\ task'[w].pc = "finish"
        /\ state'[b] \in Imported /\ b \in Assets
        /\ \A c \in Assets \ {b} : state'[c] = state[c]
        /\ \A v \in Tasks \ {w} : task'[v] = task[v]
        /\ UNCHANGED <<retries, row, stale>>
    BY <1>4, ImportFacts DEF histVars
  <2>2. Closed(a)' = Closed(a) /\ Spent(a)' = Spent(a) /\ Earlier(a)' = Earlier(a)
    BY <2>1, SameRows
  <2>3. state'[a] \in Claimable \cup InFlight => state[a] \in Claimable \cup InFlight
    BY <2>1, StateGroups
  <2>4. \A v \in Live' : v = w \/ (v \in Live /\ task'[v] = task[v])
    BY <2>1 DEF Live
  <2>5. WorkerCounts(a)'
    BY <1>0, <2>1, <2>2, <2>4 DEF CountedFor, WorkerCounts
  <2> QED
    BY <1>0, <2>1, <2>2, <2>3, <2>5 DEF CountedFor
<1>5. CASE Finish(w) \/ Fail(w)
  <2>1. /\ w \in Live /\ b \in Assets /\ task'[w].pc = "done"
        /\ row'[w].asset = row[w].asset /\ row'[w].cycle = row[w].cycle
        /\ row'[w].status \in {"SUCCEEDED", "FAILED"}
        /\ \/ task[w].pc = "finish" /\ UNCHANGED state
           \/ /\ task[w].pc \in {"download", "process", "import"}
              /\ \E new \in {"QUEUED", "DOWNLOAD_FAILED"} :
                    /\ SetState(w, new)
                    /\ new = "QUEUED" => task[w].inCycle < MaxAttempts
        /\ \A c \in Assets \ {b} : state'[c] = state[c]
        /\ \A v \in Tasks \ {w} : task'[v] = task[v] /\ row'[v] = row[v]
        /\ UNCHANGED <<retries, stale>>
    BY <1>5, CloseFacts DEF histVars
  <2>2. row[w].status = "RUNNING" /\ row[w].asset = b
    BY <2>1 DEF Books, RowsNameTheirTask, Begun
  <2>3. Live' = Live \ {w}
    BY <2>1 DEF Live, LivePC
  <2>4. CASE a # b
    <3>1. Closed(a)' = Closed(a) /\ Spent(a)' = Spent(a) /\ Earlier(a)' = Earlier(a)
      BY <1>0, <2>1, <2>2, <2>4 DEF Closed, Spent, Earlier, Rows
    <3>2. WorkerCounts(a)'
      BY <1>0, <2>1, <2>3, <3>1 DEF CountedFor, WorkerCounts, Live
    <3> QED
      BY <1>0, <2>1, <2>4, <3>1, <3>2 DEF CountedFor
  <2>5. CASE a = b
    <3>1. Spent(a)' = Spent(a) /\ Earlier(a)' = Earlier(a)
      BY <1>0, <2>1, <2>2 DEF Spent, Earlier, Rows
    <3>2. WorkerCounts(a)'
      BY <1>0, <2>1, <2>3, <2>5 DEF OneWorkerPerAsset, WorkerCounts, Live
    <3>3. state'[a] \in Claimable \cup InFlight => Cardinality(Closed(a)') < MaxAttempts
      <4> SUFFICES ASSUME state'[a] \in Claimable \cup InFlight
                   PROVE  Cardinality(Closed(a)') < MaxAttempts
        OBVIOUS
      <4>1. task[w].pc # "finish"
        BY <1>0, <2>1, <2>5, StateGroups DEF StateTellsOwner
      <4>2. PICK new \in {"QUEUED", "DOWNLOAD_FAILED"} :
              /\ SetState(w, new)
              /\ new = "QUEUED" => task[w].inCycle < MaxAttempts
        BY <2>1, <4>1
      <4>3. task[w].seen \in InFlight /\ Cardinality(Closed(a)) < task[w].inCycle
        BY <1>0, <2>1, <2>5, <4>1 DEF CountedFor, WorkerCounts
      <4>4. state'[a] = new
        BY <2>1, <2>5, <4>2, <4>3 DEF SetState, InFlight, TypeOK
      <4>5. task[w].inCycle < MaxAttempts
        BY <4>2, <4>4, StateGroups
      <4>6. Closed(a)' \subseteq Closed(a) \cup {w}
        BY <1>0, <2>1 DEF Closed, Rows
      <4>7. Closed(a) \subseteq Tasks /\ w \notin Closed(a)
        BY <2>2 DEF Closed, Rows
      <4>8. /\ Cardinality(Closed(a) \cup {w}) = Cardinality(Closed(a)) + 1
            /\ Cardinality(Closed(a)) \in Nat
        BY <4>7, OneMoreCounts
      <4>9. Closed(a) \cup {w} \subseteq Tasks
        BY <4>7
      <4>10. /\ Cardinality(Closed(a)') <= Cardinality(Closed(a) \cup {w})
             /\ Cardinality(Closed(a)') \in Nat
        BY <4>6, <4>9, PartCounts
      <4>11. MaxAttempts \in Nat /\ task[w].inCycle \in Nat
        BY ConstantsAssumption DEF TypeOK, Worker
      <4> QED
        BY <4>3, <4>5, <4>8, <4>10, <4>11
    <3> QED
      BY <1>0, <3>1, <3>2, <3>3 DEF CountedFor
  <2> QED
    BY <2>4, <2>5
<1> QED
  BY SMTT(60), <1>1, <1>2, <1>3, <1>4, <1>5 DEF WorkerStep

\* A manual Retry closes the cycle: what was spent becomes what was spent
\* earlier, and the new cycle starts empty.
LEMMA ClientCounts ==
    ASSUME Ownership, Books, Counted, ClientStep, NEW a \in Assets, a \notin stale'
    PROVE  CountedFor(a)'
<1> USE DEF Ownership, WellTyped
<1>0. UNCHANGED <<row, task>>
  BY DEF ClientStep, HandlerRead, HandlerCommit, SetLimit, dbVars, procVars
<1>1. CASE UNCHANGED <<state, retries, stale>>
  BY <1>0, <1>1 DEF Counted, CountedFor, WorkerCounts, Closed, Spent, Earlier, Rows, Live
<1>2. ASSUME NEW c \in Clients, HandlerCommit(c)
      PROVE  CountedFor(a)'
  <2> DEFINE b == request[c].asset
  <2>1. PICK h \in Handlers :
          /\ request[c].op = h.op
          /\ state' = [state EXCEPT ![b] = h.to]
          /\ retries' = IF h.op = "retry" THEN [retries EXCEPT ![b] = @ + 1] ELSE retries
          /\ stale' = IF state[b] \in Claimable \cup {h.from} THEN stale
                      ELSE stale \cup {b}
    BY <1>2 DEF HandlerCommit
  <2>2. b \in Assets
    BY <2>1, HandlerTargets DEF HoldsAnAsset
  <2>3. a \notin stale /\ CountedFor(a)
    BY <2>1 DEF Counted
  <2>4. CASE a # b
    <3>1. state'[a] = state[a] /\ retries'[a] = retries[a]
      BY <2>1, <2>4 DEF TypeOK
    <3> QED
      BY <1>0, <2>3, <3>1
      DEF CountedFor, WorkerCounts, Closed, Spent, Earlier, Rows, Live
  <2>5. CASE a = b /\ h.op # "retry"
    <3>1. h.from \in Claimable
      BY <2>5 DEF Handlers, EnqueueForDownload, RetryDownload, CancelQueued, Claimable
    <3>2. state[a] \in Claimable /\ retries' = retries
      BY <2>1, <2>3, <2>5, <3>1
    <3>3. state[a] \in Claimable \cup InFlight
      BY <3>2
    <3> QED
      BY <1>0, <2>3, <3>2, <3>3
      DEF CountedFor, WorkerCounts, Closed, Spent, Earlier, Rows, Live
  <2>6. CASE a = b /\ h.op = "retry"
    <3>1. retries'[a] = retries[a] + 1 /\ retries[a] \in Nat
      BY <2>1, <2>6 DEF TypeOK
    <3>2. \A v \in Rows(a) : row[v].cycle <= retries[a] /\ row[v].cycle \in Nat
      BY ConstantsAssumption DEF Books, RowsNameTheirTask, Rows, NoRow, TypeOK, Row
    <3>3. Closed(a)' = {} /\ Spent(a)' = {}
      BY <1>0, <3>1, <3>2 DEF Closed, Spent, Rows
    <3>4. Earlier(a)' = Earlier(a) \cup Spent(a)
      BY <1>0, <3>1, <3>2 DEF Earlier, Spent, Rows
    <3>5. /\ Cardinality(Earlier(a)') <= Cardinality(Earlier(a)) + Cardinality(Spent(a))
          /\ Cardinality(Earlier(a)) \in Nat /\ Cardinality(Spent(a)) \in Nat
          /\ Cardinality(Earlier(a)') \in Nat
      BY <3>4, FiniteCounts, TogetherCount
    <3>6. MaxAttempts \in Nat \ {0}
      BY ConstantsAssumption
    <3>7. MaxAttempts * retries'[a] = MaxAttempts * retries[a] + MaxAttempts
          /\ MaxAttempts * retries[a] \in Nat
      BY <3>1, <3>6
    <3>8. Cardinality(Earlier(a)') <= MaxAttempts * retries'[a]
      <4>1. /\ Cardinality(Earlier(a)) <= MaxAttempts * retries[a]
            /\ Cardinality(Spent(a)) <= MaxAttempts
        BY <2>3 DEF CountedFor
      <4> DEFINE m == MaxAttempts * retries[a]
                 n == MaxAttempts * retries'[a]
      <4>2. n = m + MaxAttempts /\ m \in Nat /\ Cardinality(Earlier(a)) <= m
        BY <3>7, <4>1
      <4> HIDE DEF m, n
      <4>3. Cardinality(Earlier(a)') <= n
        BY <3>5, <3>6, <4>1, <4>2
      <4> QED
        BY <4>3 DEF n
    <3>9. \A w \in Live : task[w].asset # a
      <4>1. state[a] \notin InFlight \cup Imported
        BY <2>1, <2>3, <2>6, HandlerTargets, StateGroups
      <4> QED
        BY <2>3, <4>1 DEF StateTellsOwner
    <3>10. WorkerCounts(a)'
      BY <1>0, <3>9 DEF WorkerCounts, Live
    <3>11. Cardinality({}) = 0
      BY FS_EmptySet
    <3> QED
      BY <3>3, <3>6, <3>8, <3>10, <3>11 DEF CountedFor
  <2> QED
    BY <2>4, <2>5, <2>6
<1> QED
  BY <1>1, <1>2 DEF ClientStep, HandlerRead, SetLimit, dbVars, procVars, histVars

\* Failures and stops change no row, no state and no cycle.
LEMMA FaultCounts ==
    ASSUME Ownership, Counted, FaultStep, NEW a \in Assets, a \notin stale'
    PROVE  CountedFor(a)'
<1>1. UNCHANGED <<row, state, retries, stale>>
  BY DEF FaultStep, ReconcileFails, ClaimFails, WorkerCrashed, Crash, dbVars, histVars
<1>2. \A w \in Live' : w \in Live /\ task'[w] = task[w]
  <2>1. CASE ReconcileFails \/ ClaimFails
    BY <2>1 DEF ReconcileFails, ClaimFails, Live
  <2>2. ASSUME NEW w \in Tasks, WorkerCrashed(w)
        PROVE  \A v \in Live' : v \in Live /\ task'[v] = task[v]
    BY <2>2, RetireFacts DEF WorkerCrashed, Live, LivePC, Ownership, WellTyped
  <2>3. CASE Crash
    BY <2>3 DEF Crash, Live, LivePC, IdleWorker
  <2> QED
    BY <2>1, <2>2, <2>3 DEF FaultStep
<1>3. Closed(a)' = Closed(a) /\ Spent(a)' = Spent(a) /\ Earlier(a)' = Earlier(a)
  BY <1>1 DEF Closed, Spent, Earlier, Rows
<1>4. CountedFor(a)
  BY <1>1 DEF Counted
<1>5. WorkerCounts(a)'
  BY <1>2, <1>3, <1>4 DEF CountedFor, WorkerCounts
<1> QED
  BY <1>1, <1>3, <1>4, <1>5 DEF CountedFor

\* So what is counted stays within the budget.
LEMMA StepCounts ==
    ASSUME Ownership, Books, Counted, [Next]_vars
    PROVE  Counted'
<1> SUFFICES ASSUME NEW a \in Assets, a \notin stale'
             PROVE  CountedFor(a)'
  BY DEF Counted
<1>1. CASE PollerStep
  BY <1>1, PollerCounts
<1>2. ASSUME NEW w \in Tasks, WorkerStep(w)
      PROVE  CountedFor(a)'
  BY <1>2, WorkerCountsOn
<1>3. ASSUME NEW w \in Tasks, BackoffElapses(w)
      PROVE  CountedFor(a)'
  <2>1. \A v \in Tasks : /\ row'[v].status = row[v].status
                         /\ row'[v].asset = row[v].asset
                         /\ row'[v].cycle = row[v].cycle
    BY <1>3 DEF BackoffElapses, Ownership, WellTyped, TypeOK, Row
  <2>2. UNCHANGED <<state, retries, task, stale>>
    BY <1>3 DEF BackoffElapses, procVars, histVars
  <2>3. Closed(a)' = Closed(a) /\ Spent(a)' = Spent(a) /\ Earlier(a)' = Earlier(a)
    BY <2>1, <2>2, SameRows
  <2> QED
    BY <2>2, <2>3 DEF Counted, CountedFor, WorkerCounts, Live
<1>4. CASE ClientStep
  BY <1>4, ClientCounts
<1>5. CASE FaultStep
  BY <1>5, FaultCounts
<1>6. CASE UNCHANGED vars
  BY ZenonT(60), <1>6 DEF vars, dbVars, procVars, histVars, Counted, CountedFor, WorkerCounts,
              Closed, Spent, Earlier, Rows, Live
<1> QED
  BY <1>1, <1>2, <1>3, <1>4, <1>5, <1>6 DEF Next

\* At first nothing is spent.
LEMMA InitCounts == Init => Counted
<1> SUFFICES ASSUME Init, NEW a \in Assets
             PROVE  CountedFor(a)
  BY DEF Counted
<1>1. Live = {} /\ retries[a] = 0 /\ \A v \in Tasks : row[v].asset = None
  BY DEF Init, Live, LivePC, IdleWorker, NoRow
<1>2. None \notin Assets /\ MaxAttempts \in Nat \ {0}
  BY ConstantsAssumption
<1>3. Rows(a) = {}
  BY <1>1, <1>2 DEF Rows
<1>4. Closed(a) = {} /\ Spent(a) = {} /\ Earlier(a) = {} /\ Cardinality({}) = 0
  BY <1>3, FS_EmptySet DEF Closed, Spent, Earlier
<1> QED
  BY <1>1, <1>2, <1>4 DEF CountedFor, WorkerCounts

\* The counts hold in every behaviour.
LEMMA CountsInvariant == Spec => [](Ownership /\ Books /\ Counted)
<1>1. Ownership /\ Books /\ Counted /\ [Next]_vars => Counted'
  BY StepCounts
<1> QED
  BY <1>1, InitCounts, BooksInvariant, PTL DEF Spec

\* max_download_attempts bounds the attempts of every cycle, and only a manual
\* Retry opens another, however often the process crashed in between: what it
\* interrupted does not count, and nothing else escapes the count.
THEOREM BudgetHolds == Spec => []AttemptBudget
<1>1. Ownership /\ Books /\ Counted => AttemptBudget
  <2> SUFFICES ASSUME Ownership, Books, Counted, NEW a \in Assets, a \notin stale
               PROVE  Cardinality({w \in Rows(a) : row[w].status # "INTERRUPTED"})
                          <= MaxAttempts * (retries[a] + 1)
    BY DEF AttemptBudget
  <2> DEFINE used == {w \in Rows(a) : row[w].status # "INTERRUPTED"}
  <2>1. \A v \in Rows(a) : row[v].cycle <= retries[a] /\ row[v].cycle \in Nat
    BY ConstantsAssumption
    DEF Ownership, WellTyped, Books, RowsNameTheirTask, Rows, NoRow, TypeOK, Row
  <2>2. retries[a] \in Nat /\ MaxAttempts \in Nat
    BY ConstantsAssumption DEF Ownership, WellTyped, TypeOK
  <2>3. used = Earlier(a) \cup Spent(a)
    BY <2>1, <2>2 DEF Earlier, Spent
  <2>4. /\ Cardinality(used) <= Cardinality(Earlier(a)) + Cardinality(Spent(a))
        /\ Cardinality(Earlier(a)) \in Nat /\ Cardinality(Spent(a)) \in Nat
        /\ Cardinality(used) \in Nat
    BY <2>3, FiniteCounts, TogetherCount
  <2>5. /\ Cardinality(Earlier(a)) <= MaxAttempts * retries[a]
        /\ Cardinality(Spent(a)) <= MaxAttempts
    BY DEF Counted, CountedFor
  <2> DEFINE m == MaxAttempts * retries[a]
             n == MaxAttempts * (retries[a] + 1)
  <2>6. n = m + MaxAttempts /\ m \in Nat /\ Cardinality(Earlier(a)) <= m
    BY <2>2, <2>5
  <2> HIDE DEF m, n, used
  <2>7. Cardinality(used) <= n
    BY <2>2, <2>4, <2>5, <2>6
  <2> QED
    BY <2>7 DEF n, used
<1> QED
  BY <1>1, CountsInvariant, PTL

-----------------------------------------------------------------------------
(* The queue implements AssetLifecycle, when Retry is the only request and one *)
(* request is under way at a time. (Of two Retries of one asset, the second    *)
(* one to commit opens a cycle for an asset that is not failed any more.)      *)

Failed(a) == {w \in Rows(a) : row[w].status = "FAILED" /\ row[w].cycle = retries[a]}

\* No commit is stale: a pending Retry is of an asset that is still failed.
RetriesAreFresh ==
    /\ stale = {}
    /\ \A c \in Clients : request[c].op # "idle" =>
          request[c].op = "retry" /\ state[request[c].asset] = "DOWNLOAD_FAILED"

OneRetryAtATime == Ops \subseteq {"retry"} /\ \A c, d \in Clients : c = d

\* Retry is then the only handler.
LEMMA OnlyRetry ==
    ASSUME OneRetryAtATime, NEW h \in Handlers
    PROVE  h = RetryDownload
BY DEF OneRetryAtATime, Handlers, EnqueueForDownload, RetryDownload, CancelQueued

\* Nobody but the pending Retry itself reopens its asset.
LEMMA StepFresh ==
    ASSUME OneRetryAtATime, Ownership, RetriesAreFresh, [Next]_vars
    PROVE  RetriesAreFresh'
<1> USE DEF Ownership, WellTyped
<1>1. ASSUME NEW c \in Clients, HandlerCommit(c)
      PROVE  RetriesAreFresh'
  <2> DEFINE a == request[c].asset
  <2>1. PICK h \in Handlers :
          /\ request[c].op = h.op
          /\ stale' = IF state[a] \in Claimable \cup {h.from} THEN stale
                      ELSE stale \cup {a}
          /\ request' = [request EXCEPT ![c] = NoRequest]
    BY <1>1 DEF HandlerCommit
  <2>2. h = RetryDownload
    BY OnlyRetry
  <2>3. stale' = {}
    BY <2>1, <2>2 DEF RetriesAreFresh, RetryDownload
  <2>4. \A d \in Clients : request'[d].op = "idle"
    BY <2>1 DEF OneRetryAtATime, NoRequest, TypeOK
  <2> QED
    BY <2>3, <2>4 DEF RetriesAreFresh
<1>2. ASSUME NEW c \in Clients, NEW a \in Assets, HandlerRead(c, a)
      PROVE  RetriesAreFresh'
  <2>1. PICK h \in Handlers :
          /\ state[a] = h.from
          /\ request' = [request EXCEPT ![c] = [op |-> h.op, asset |-> a]]
          /\ UNCHANGED <<state, stale>>
    BY <1>2 DEF HandlerRead, dbVars, histVars
  <2>2. h = RetryDownload
    BY OnlyRetry
  <2>3. \A d \in Clients : request'[d].op = "retry" /\ state[request'[d].asset] = "DOWNLOAD_FAILED"
    BY <2>1, <2>2 DEF OneRetryAtATime, RetryDownload, TypeOK
  <2> QED
    BY <2>1, <2>3 DEF RetriesAreFresh
<1>3. CASE Crash
  BY <1>3 DEF Crash, RetriesAreFresh, NoRequest
<1>4. CASE Next /\ UNCHANGED <<request, retries>>
  <2>1. stale' = {}
    <3>1. CASE UNCHANGED stale
      BY <3>1 DEF RetriesAreFresh
    <3>2. CASE ClaimCommit
      <4>1. poller.pc = "commit" /\ poller.pick \notin stale
        BY <3>2 DEF ClaimCommit, RetriesAreFresh
      <4> QED
        BY <3>2, <4>1 DEF ClaimCommit, PickIsFree, RetriesAreFresh
    <3>3. CASE \E c \in Clients : HandlerCommit(c)
      BY <1>1, <3>3 DEF RetriesAreFresh
    <3> QED
      BY <1>4, <3>1, <3>2, <3>3
      DEF Next, PollerStep, Start, ReconcileInterruptedAssets, TickStart, ClaimRead, ClaimNone,
          Spawn, WorkerStep, Load, BeginAttempt, Downloaded, Processed, MoveIntoLibrary,
          ImportAsset, Finish, Fail, BackoffElapses, ClientStep, HandlerRead, SetLimit,
          FaultStep, ReconcileFails, ClaimFails, WorkerCrashed, Crash, histVars
  <2>2. ASSUME NEW c \in Clients, request[c].op # "idle"
        PROVE  state'[request[c].asset] = "DOWNLOAD_FAILED"
    <3>1. request[c].asset \in Assets /\ state[request[c].asset] = "DOWNLOAD_FAILED"
      BY <2>2 DEF RetriesAreFresh, HoldsAnAsset
    <3>2. retries'[request[c].asset] = retries[request[c].asset]
          /\ retries[request[c].asset] \in Nat
      BY <1>4, <3>1 DEF TypeOK
    <3>3. state'[request[c].asset] # state[request[c].asset] =>
             retries'[request[c].asset] = retries[request[c].asset] + 1
      BY <1>4, <2>1, <3>1, StepSettled
    <3> QED
      BY <3>1, <3>2, <3>3
  <2> QED
    BY <1>4, <2>1, <2>2 DEF RetriesAreFresh
<1>5. CASE UNCHANGED vars
  BY SMTT(60), <1>5 DEF vars, dbVars, procVars, histVars, RetriesAreFresh
<1>6. Next => \/ \E c \in Clients : HandlerCommit(c) \/ \E a \in Assets : HandlerRead(c, a)
              \/ Crash
              \/ UNCHANGED <<request, retries>>
  BY DEF Next, PollerStep, Start, ReconcileInterruptedAssets, TickStart, ClaimRead, ClaimNone,
         ClaimCommit, Spawn, WorkerStep, Load, BeginAttempt, Downloaded, Processed,
         MoveIntoLibrary, ImportAsset, Finish, Fail, BackoffElapses, ClientStep, SetLimit,
         FaultStep, ReconcileFails, ClaimFails, WorkerCrashed, dbVars, procVars
<1> QED
  BY <1>1, <1>2, <1>3, <1>4, <1>5, <1>6

\* So no commit is ever stale.
LEMMA FreshInvariant ==
    ASSUME OneRetryAtATime
    PROVE  Spec => [](Ownership /\ Books /\ Counted /\ RetriesAreFresh)
<1>1. Init => RetriesAreFresh
  BY DEF Init, RetriesAreFresh, NoRequest
<1>2. Ownership /\ RetriesAreFresh /\ [Next]_vars => RetriesAreFresh'
  BY StepFresh
<1> QED
  BY <1>1, <1>2, CountsInvariant, PTL DEF Spec

\* What an asset's phase is.
LEMMA PhaseIs ==
    ASSUME NEW a
    PROVE  /\ Phase(a) = "ready" <=> state[a] \in Claimable
           /\ Phase(a) = "active" <=> state[a] \in InFlight
           /\ Phase(a) = "done" <=> state[a] \in Imported
           /\ state[a] = "DOWNLOAD_FAILED" => Phase(a) = "failed"
           /\ Phase(a)' = "ready" <=> state'[a] \in Claimable
           /\ Phase(a)' = "active" <=> state'[a] \in InFlight
           /\ Phase(a)' = "done" <=> state'[a] \in Imported
           /\ state'[a] = "DOWNLOAD_FAILED" => Phase(a)' = "failed"
           /\ state'[a] = state[a] => Phase(a)' = Phase(a)
BY StateGroups DEF Phase

\* A step that changes neither phases nor failed attempts changes nothing in the
\* lifecycle.
LEMMA Stutters ==
    ASSUME \A b \in Assets : Phase(b)' = Phase(b) /\ Failed(b)' = Failed(b)
    PROVE  UNCHANGED Lifecycle!vars
BY DEF Lifecycle!vars, Failed

\* A step that changes the phase of one asset is a move of the lifecycle.
LEMMA Moves ==
    ASSUME NEW a \in Assets, NEW from, NEW to, Phase(a) = from, Phase(a)' = to,
           \A b \in Assets \ {a} : Phase(b)' = Phase(b)
    PROVE  Lifecycle!Move(a, from, to)
BY DEF Lifecycle!Move

\* Recovery is Recover, a claim is Take, and the rest of the poller stutters.
LEMMA PollerMaps ==
    ASSUME Ownership, RetriesAreFresh, PollerStep
    PROVE  [Lifecycle!Next]_(Lifecycle!vars)
<1> USE DEF Ownership, WellTyped
<1>1. CASE Start \/ TickStart \/ ClaimNone \/ Spawn \/ \E b \in Assets : ClaimRead(b)
  <2>1. UNCHANGED <<state, retries, row>>
    BY <1>1 DEF Start, TickStart, ClaimNone, ClaimRead, Spawn, dbVars
  <2> QED
    BY <2>1, Stutters DEF Phase, Failed, Rows
<1>2. CASE ReconcileInterruptedAssets
  <2>1. PICK closed \in SUBSET Tasks :
          /\ \A v \in closed : \E b \in Assets : v \in LatestOf(Running(b))
          /\ row' = [v \in Tasks |-> IF v \in closed
                        THEN [row[v] EXCEPT !.status = "INTERRUPTED"] ELSE row[v]]
    BY <1>2 DEF ReconcileInterruptedAssets
  <2>2. \A v \in Tasks : /\ row'[v].asset = row[v].asset /\ row'[v].cycle = row[v].cycle
                         /\ v \notin closed => row'[v].status = row[v].status
                         /\ v \in closed => row'[v].status = "INTERRUPTED"
    BY <2>1 DEF TypeOK, Row
  <2>3. \A v \in closed : row[v].status = "RUNNING"
    BY <2>1 DEF LatestOf, Running
  <2>4. UNCHANGED retries
    BY <1>2 DEF ReconcileInterruptedAssets
  <2>5. \A b \in Assets : Failed(b)' = Failed(b)
    BY <2>2, <2>3, <2>4 DEF Failed, Rows
  <2>6. \A b \in Assets : Phase(b)' = IF Phase(b) = "active" THEN "ready" ELSE Phase(b)
    <3>1. \A b \in Assets : state'[b] = IF state[b] \in InFlight THEN "QUEUED" ELSE state[b]
      BY <1>2 DEF ReconcileInterruptedAssets
    <3>2. ASSUME NEW b \in Assets, state[b] \in InFlight
          PROVE  Phase(b) = "active" /\ Phase(b)' = "ready"
      BY <3>1, <3>2, PhaseIs DEF Claimable
    <3>3. ASSUME NEW b \in Assets, state[b] \notin InFlight
          PROVE  Phase(b) # "active" /\ Phase(b)' = Phase(b)
      BY <3>1, <3>3, PhaseIs
    <3> QED
      BY <3>2, <3>3
  <2> DEFINE interrupted == {b \in Assets : Phase(b) = "active"}
  <2>7. [a \in Assets |-> Phase(a)]' =
           [a \in Assets |-> IF a \in interrupted THEN "ready" ELSE [b \in Assets |-> Phase(b)][a]]
    BY <2>6
  <2>8. Lifecycle!Recover
    BY <2>5, <2>7 DEF Lifecycle!Recover, Failed
  <2> QED
    BY <2>8 DEF Lifecycle!Next
<1>3. CASE ClaimCommit
  <2>0. PICK a \in Assets : a = poller.pick
    BY <1>3 DEF ClaimCommit, HoldsAnAsset
  <2>1. /\ poller.pc = "commit"
        /\ state' = [state EXCEPT ![a] = "DOWNLOADING"]
        /\ UNCHANGED <<retries, row>>
    BY <1>3, <2>0 DEF ClaimCommit
  <2>2. state[a] \in Claimable /\ state'[a] = "DOWNLOADING"
    BY <2>0, <2>1 DEF PickIsFree, RetriesAreFresh, TypeOK
  <2>3. Phase(a) = "ready" /\ Phase(a)' = "active"
    BY <2>2, PhaseIs DEF InFlight
  <2>4. \A b \in Assets \ {a} : Phase(b)' = Phase(b)
    BY <2>1, PhaseIs
  <2>5. \A b \in Assets : Failed(b)' = Failed(b)
    BY <2>1 DEF Failed, Rows
  <2>6. Lifecycle!Move(a, "ready", "active")
    BY <2>1, <2>3, <2>4, Moves
  <2>7. Lifecycle!Take(a)
    BY <2>5, <2>6 DEF Lifecycle!Take, Failed
  <2> QED
    BY <2>1, <2>7 DEF Lifecycle!Next
<1> QED
  BY <1>1, <1>2, <1>3 DEF PollerStep

\* The import is Succeed, a failure TryAgain or GiveUp; the rest of the
\* pipeline stutters.
LEMMA WorkerMaps ==
    ASSUME Ownership, Books, Counted, RetriesAreFresh, NEW w \in Tasks, WorkerStep(w)
    PROVE  [Lifecycle!Next]_(Lifecycle!vars)
<1> USE DEF Ownership, WellTyped
<1>0. PICK a \in Assets : a = task[w].asset
  <2>1. w \in Live
    BY DEF WorkerStep, Load, BeginAttempt, Downloaded, Processed, MoveIntoLibrary,
           ImportAsset, Finish, Fail, AtPC, Live, LivePC
  <2> QED
    BY <2>1 DEF HoldsAnAsset
<1>1. CASE Load(w)
  <2>1. UNCHANGED <<state, retries, row>>
    BY <1>1 DEF Load, dbVars
  <2> QED
    BY <2>1, Stutters DEF Phase, Failed, Rows
<1>2. CASE BeginAttempt(w)
  <2>1. /\ task[w].pc = "begin" /\ row'[w].status = "RUNNING"
        /\ \A v \in Tasks \ {w} : row'[v] = row[v]
        /\ UNCHANGED <<state, retries>>
    BY <1>2, BeginFacts
  <2>2. row[w] = NoRow
    BY <2>1 DEF Books, RowsNameTheirTask
  <2>3. \A b \in Assets : Failed(b)' = Failed(b)
    BY <2>1, <2>2 DEF Failed, Rows, NoRow
  <2>4. \A b \in Assets : Phase(b)' = Phase(b)
    BY <2>1, PhaseIs
  <2> QED
    BY <2>3, <2>4, Stutters
<1>3. CASE Downloaded(w) \/ Processed(w) \/ MoveIntoLibrary(w)
  <2>1. /\ w \in Live /\ task[w].pc # "finish"
        /\ \A b \in Assets \ {a} : state'[b] = state[b]
        /\ state'[a] \in InFlight \/ state'[a] = state[a]
        /\ UNCHANGED <<retries, row>>
    BY <1>0, <1>3, AdvanceFacts
  <2>2. state[a] \in InFlight
    BY <1>0, <2>1 DEF StateTellsOwner, RetriesAreFresh
  <2>3. \A b \in Assets : Phase(b)' = Phase(b)
    <3>1. \A b \in Assets \ {a} : Phase(b)' = Phase(b)
      BY <2>1, PhaseIs
    <3>2. Phase(a) = "active" /\ Phase(a)' = "active"
      BY <2>1, <2>2, PhaseIs
    <3> QED
      BY <3>1, <3>2
  <2>4. \A b \in Assets : Failed(b)' = Failed(b)
    BY <2>1 DEF Failed, Rows
  <2> QED
    BY <2>3, <2>4, Stutters
<1>4. CASE ImportAsset(w)
  <2>1. /\ w \in Live /\ task[w].pc # "finish" /\ state'[a] \in Imported
        /\ \A b \in Assets \ {a} : state'[b] = state[b]
        /\ UNCHANGED <<retries, row>>
    BY <1>0, <1>4, ImportFacts
  <2>2. state[a] \in InFlight
    BY <1>0, <2>1 DEF StateTellsOwner, RetriesAreFresh
  <2>3. Phase(a) = "active" /\ Phase(a)' = "done"
    BY <2>1, <2>2, PhaseIs
  <2>4. \A b \in Assets \ {a} : Phase(b)' = Phase(b)
    BY <2>1, PhaseIs
  <2>5. \A b \in Assets : Failed(b)' = Failed(b)
    BY <2>1 DEF Failed, Rows
  <2>6. Lifecycle!Move(a, "active", "done")
    BY <2>1, <2>3, <2>4, Moves
  <2>7. Lifecycle!Succeed(a)
    BY <2>5, <2>6 DEF Lifecycle!Succeed, Failed
  <2> QED
    BY <2>1, <2>7 DEF Lifecycle!Next
<1>5. CASE Finish(w)
  <2>1. /\ task[w].pc = "finish" /\ UNCHANGED <<state, retries>>
        /\ row'[w].status = "SUCCEEDED"
        /\ \A v \in Tasks \ {w} : row'[v] = row[v]
    BY ZenonT(60), <1>5, CloseFacts DEF Finish, AtPC
  <2>2. row[w].status = "RUNNING"
    BY <2>1 DEF Books, RowsNameTheirTask, Begun
  <2>3. \A b \in Assets : Failed(b)' = Failed(b)
    BY <2>1, <2>2 DEF Failed, Rows
  <2>4. \A b \in Assets : Phase(b)' = Phase(b)
    BY <2>1, PhaseIs
  <2> QED
    BY <2>3, <2>4, Stutters
<1>6. CASE Fail(w)
  <2>1. /\ w \in Live
        /\ task[w].pc \in {"download", "process", "import"}
        /\ row'[w].asset = row[w].asset /\ row'[w].cycle = row[w].cycle
        /\ row'[w].status = "FAILED"
        /\ \A b \in Assets \ {a} : state'[b] = state[b]
        /\ \A v \in Tasks \ {w} : row'[v] = row[v]
        /\ UNCHANGED retries
    BY <1>0, <1>6, CloseFacts DEF Fail, AtPC
  <2>2. PICK new \in {"QUEUED", "DOWNLOAD_FAILED"} :
          /\ SetState(w, new)
          /\ new = "QUEUED" => task[w].inCycle < MaxAttempts
    BY <1>6, <2>1, CloseFacts
  <2>3. /\ a \notin stale /\ state[a] \in InFlight /\ task[w].seen \in InFlight
        /\ Cardinality(Closed(a)) < task[w].inCycle
    BY <1>0, <2>1 DEF StateTellsOwner, RetriesAreFresh, Counted, CountedFor, WorkerCounts
  <2>4. state'[a] = new
    BY <1>0, <2>1, <2>2, <2>3 DEF SetState, InFlight, TypeOK
  <2>5. row[w].status = "RUNNING" /\ row[w].asset = a /\ w \in Running(a)
    BY <1>0, <2>1 DEF Books, RowsNameTheirTask, Begun, Running, Rows
  <2>6. row[w].cycle = retries[a]
    BY <2>1, <2>3, <2>5 DEF Books, RunningIsCurrent
  <2>7. Failed(a)' = Failed(a) \cup {w} /\ w \notin Failed(a) /\ Failed(a) \subseteq Closed(a)
    BY <2>1, <2>5, <2>6 DEF Failed, Closed, Rows
  <2>8. \A b \in Assets \ {a} : Failed(b)' = Failed(b)
    BY <2>1, <2>5 DEF Failed, Rows
  <2>9. /\ Cardinality(Failed(a)') = Cardinality(Failed(a)) + 1
        /\ Cardinality(Failed(a)) \in Nat
    BY <2>7, FiniteCounts, OneMoreCounts
  <2>10. /\ Cardinality(Failed(a)) <= Cardinality(Closed(a))
         /\ Cardinality(Closed(a)) \in Nat
    BY <2>7, FiniteCounts, PartCounts
  <2> DEFINE tr == [b \in Assets |-> Cardinality(Failed(b))]
  <2>11. tr' = [tr EXCEPT ![a] = @ + 1]
    BY <2>1, <2>8, <2>9
  <2>12. Phase(a) = "active" /\ \A b \in Assets \ {a} : Phase(b)' = Phase(b)
    BY <2>1, <2>3, PhaseIs
  <2>13. CASE new = "QUEUED"
    <3>1. Phase(a)' = "ready"
      BY <2>4, <2>13, PhaseIs DEF Claimable
    <3>2. Lifecycle!Move(a, "active", "ready")
      BY <2>1, <2>12, <3>1, Moves
    <3>3. task[w].inCycle \in Nat /\ MaxAttempts \in Nat
      BY ConstantsAssumption DEF TypeOK, Worker
    <3>4. tr[a] + 1 < MaxAttempts
      BY <2>1, <2>2, <2>3, <2>9, <2>10, <2>13, <3>3
    <3>5. Lifecycle!TryAgain(a)
      BY <2>11, <3>2, <3>4 DEF Lifecycle!TryAgain, Failed
    <3> QED
      BY <2>1, <3>5 DEF Lifecycle!Next
  <2>14. CASE new = "DOWNLOAD_FAILED"
    <3>1. Phase(a)' = "failed"
      BY <2>4, <2>14, PhaseIs
    <3>2. Lifecycle!Move(a, "active", "failed")
      BY <2>1, <2>12, <3>1, Moves
    <3>3. Lifecycle!GiveUp(a)
      BY <2>11, <3>2 DEF Lifecycle!GiveUp, Failed
    <3> QED
      BY <2>1, <3>3 DEF Lifecycle!Next
  <2> QED
    BY <2>13, <2>14
<1> QED
  BY <1>1, <1>2, <1>3, <1>4, <1>5, <1>6 DEF WorkerStep

\* The Retry is Reopen: the rows of the cycles before count no longer.
LEMMA ClientMaps ==
    ASSUME OneRetryAtATime, Ownership, Books, RetriesAreFresh, ClientStep
    PROVE  [Lifecycle!Next]_(Lifecycle!vars)
<1> USE DEF Ownership, WellTyped
<1>1. CASE UNCHANGED <<state, retries, row>>
  BY <1>1, Stutters DEF Phase, Failed, Rows
<1>2. ASSUME NEW c \in Clients, HandlerCommit(c)
      PROVE  [Lifecycle!Next]_(Lifecycle!vars)
  <2>0. PICK a \in Assets : a = request[c].asset
    BY <1>2, HandlerTargets DEF HandlerCommit, HoldsAnAsset
  <2>1. PICK h \in Handlers :
          /\ request[c].op = h.op
          /\ state' = [state EXCEPT ![a] = h.to]
          /\ retries' = IF h.op = "retry" THEN [retries EXCEPT ![a] = @ + 1] ELSE retries
          /\ UNCHANGED row
    BY <1>2, <2>0 DEF HandlerCommit
  <2>2. /\ state[a] = "DOWNLOAD_FAILED"
        /\ state' = [state EXCEPT ![a] = "QUEUED"]
        /\ retries' = [retries EXCEPT ![a] = @ + 1]
    <3>1. h = RetryDownload
      BY OnlyRetry
    <3>2. h.op = "retry" /\ h.to = "QUEUED"
      BY <3>1 DEF RetryDownload
    <3>3. state[request[c].asset] = "DOWNLOAD_FAILED"
      BY <2>1, <3>2 DEF RetriesAreFresh
    <3> QED
      BY <2>0, <2>1, <3>2, <3>3
  <2>3. state'[a] = "QUEUED" /\ retries'[a] = retries[a] + 1 /\ retries[a] \in Nat
    BY <2>2 DEF TypeOK
  <2>4. \A v \in Rows(a) : row[v].cycle <= retries[a] /\ row[v].cycle \in Nat
    BY <2>2, ConstantsAssumption DEF Books, RowsNameTheirTask, Rows, NoRow, TypeOK, Row
  <2>5. Failed(a)' = {}
    BY <2>1, <2>3, <2>4 DEF Failed, Rows
  <2>6. \A b \in Assets \ {a} : Phase(b)' = Phase(b) /\ Failed(b)' = Failed(b)
    BY <2>1, <2>2, PhaseIs DEF Failed, Rows
  <2>7. Phase(a) = "failed" /\ Phase(a)' = "ready"
    BY <2>2, <2>3, PhaseIs DEF Claimable
  <2>8. Lifecycle!Move(a, "failed", "ready")
    BY <2>2, <2>6, <2>7, Moves
  <2> DEFINE tr == [b \in Assets |-> Cardinality(Failed(b))]
  <2>9. Cardinality({}) = 0
    BY FS_EmptySet
  <2>10. tr' = [tr EXCEPT ![a] = 0]
    BY <2>2, <2>5, <2>6, <2>9
  <2>11. Lifecycle!Reopen(a)
    BY <2>8, <2>10 DEF Lifecycle!Reopen, Failed
  <2> QED
    BY <2>2, <2>11 DEF Lifecycle!Next
<1> QED
  BY <1>1, <1>2 DEF ClientStep, HandlerRead, SetLimit, dbVars, procVars, histVars

\* Every step of the queue maps to a step or a stutter of the lifecycle.
LEMMA StepMaps ==
    ASSUME OneRetryAtATime, Ownership, Books, Counted, RetriesAreFresh, [Next]_vars
    PROVE  [Lifecycle!Next]_(Lifecycle!vars)
<1>1. CASE PollerStep
  BY <1>1, PollerMaps
<1>2. ASSUME NEW w \in Tasks, WorkerStep(w)
      PROVE  [Lifecycle!Next]_(Lifecycle!vars)
  BY <1>2, WorkerMaps
<1>3. ASSUME NEW w \in Tasks, BackoffElapses(w)
      PROVE  [Lifecycle!Next]_(Lifecycle!vars)
  <2>1. \A v \in Tasks : /\ row'[v].status = row[v].status
                         /\ row'[v].asset = row[v].asset
                         /\ row'[v].cycle = row[v].cycle
    BY <1>3 DEF BackoffElapses, Ownership, WellTyped, TypeOK, Row
  <2>2. UNCHANGED <<state, retries>>
    BY <1>3 DEF BackoffElapses
  <2> QED
    BY <2>1, <2>2, Stutters DEF Phase, Failed, Rows
<1>4. CASE ClientStep
  BY <1>4, ClientMaps
<1>5. CASE FaultStep
  <2>1. UNCHANGED <<state, retries, row>>
    BY <1>5 DEF FaultStep, ReconcileFails, ClaimFails, WorkerCrashed, Crash, dbVars
  <2> QED
    BY <2>1, Stutters DEF Phase, Failed, Rows
<1>6. CASE UNCHANGED vars
  BY <1>6, Stutters DEF vars, dbVars, Phase, Failed, Rows
<1> QED
  BY <1>1, <1>2, <1>3, <1>4, <1>5, <1>6 DEF Next

\* With Retry as the only request, one at a time, the queue does nothing an
\* asset's lifecycle does not allow: whatever workers, recovery and crashes do,
\* it takes an asset that is ready, ends it once, charges only failed attempts
\* to the budget, and reopens only on Retry.
THEOREM ImplementsTheLifecycle ==
    ASSUME OneRetryAtATime
    PROVE  Spec => ImplementsLifecycle
<1>1. Init => Lifecycle!Init
  <2> SUFFICES ASSUME Init PROVE Lifecycle!Init
    OBVIOUS
  <2>1. \A a \in Assets : Phase(a) = "ready"
    BY PhaseIs DEF Init, Claimable
  <2>2. \A v \in Tasks : row[v].status = "absent"
    BY DEF Init, NoRow
  <2>3. \A a \in Assets : Failed(a) = {}
    BY <2>2 DEF Failed, Rows
  <2>4. Cardinality({}) = 0
    BY FS_EmptySet
  <2> QED
    BY <2>1, <2>3, <2>4 DEF Lifecycle!Init, Failed
<1>2. Ownership /\ Books /\ Counted /\ RetriesAreFresh /\ [Next]_vars =>
         [Lifecycle!Next]_(Lifecycle!vars)
  BY StepMaps
<1> QED
  BY <1>1, <1>2, FreshInvariant, PTL DEF Spec, ImplementsLifecycle, Lifecycle!Spec
=============================================================================
