--------------------------- MODULE DownloadQueue ---------------------------
(***************************************************************************)
(* The download queue: jobs/download_queue.py (one poller task, a worker   *)
(* task per claimed asset), services/acquisition.py (claim, pipeline,      *)
(* attempt bookkeeping, crash recovery) and the three mutating handlers of *)
(* api/queue.py.                                                           *)
(*                                                                         *)
(* Everything runs in one asyncio process over one SQLite file, so a step  *)
(* of the model is the code between two awaits that another task can slip  *)
(* into: a SELECT reads what is committed, a commit is atomic, and what a  *)
(* session has read stays as it was read (expire_on_commit=False).         *)
(*                                                                         *)
(* A worker task makes at most one DownloadAttempt row and moves at most   *)
(* one file into the media folder, so the row and the file are named by    *)
(* the task that makes them.                                               *)
(***************************************************************************)
EXTENDS Naturals, FiniteSets

CONSTANTS
    Assets,         \* MediaAsset ids
    Visualizers,    \* those whose candidate_is_visualizer_only is set
    Tasks,          \* worker tasks over the whole behaviour; a bound
    Clients,        \* HTTP requests that can be under way at once
    Ops,            \* the queue operations the clients use
    Limits,         \* values given to AppSettings.max_concurrent_downloads
    MaxAttempts,    \* AppSettings.max_download_attempts
    Uncaught,       \* whether exceptions other than AcquisitionError happen
    MaxCrashes,     \* bound on the stops of the process, clean or not
    MaxRetries      \* bound on the manual retries of one asset

None == 0

ASSUME ConstantsAssumption ==
    /\ Assets \subseteq Nat \ {None}
    /\ Visualizers \subseteq Assets
    /\ Tasks \subseteq Nat \ {None} /\ IsFiniteSet(Tasks)
    /\ Ops \subseteq {"enqueue", "retry", "cancel"}
    /\ Limits \subseteq Nat \ {0} /\ Limits # {}
    /\ MaxAttempts \in Nat \ {0}
    /\ Uncaught \in BOOLEAN
    /\ MaxCrashes \in Nat /\ MaxRetries \in Nat

VARIABLES
    \* --- the database ---
    state,      \* MediaAsset.state
    path,       \* MediaAsset.local_path, as the task whose file it names
    retries,    \* MediaAsset.retry_requested_at, as the number of the cycle
    row,        \* DownloadAttempt, by the task that inserted it
    limit,      \* AppSettings.max_concurrent_downloads
    \* --- the media folder ---
    disk,       \* the tasks whose file is in it
    \* --- the process ---
    poller,     \* DownloadQueue._run
    task,       \* DownloadQueue._run_one, one per worker
    request,    \* handlers of api/queue.py between their read and commit
    \* --- history ---
    crashes,    \* how often the process has stopped
    stale       \* assets a handler's commit hit after they were started

dbVars   == <<state, path, retries, row, limit>>
procVars == <<poller, task, request>>
histVars == <<crashes, stale>>
vars     == <<dbVars, disk, procVars, histVars>>

-----------------------------------------------------------------------------
Claimable == {"CANDIDATE_SELECTED", "QUEUED"}
InFlight  == {"DOWNLOADING", "PROCESSING", "IMPORTING"}
Imported  == {"AVAILABLE", "INCOMPLETE"}
MediaState == Claimable \cup InFlight \cup Imported \cup {"DOWNLOAD_FAILED"}

\* INTERRUPTED is FAILED with error_class "Interrupted".
AttemptStatus == {"RUNNING", "SUCCEEDED", "FAILED", "INTERRUPTED"}

\* next_retry_at: NULL, in the future, in the past.
NextRetry == {"none", "waiting", "due"}

Row == [status: AttemptStatus \cup {"absent"}, asset: Assets \cup {None},
        number: Nat, cycle: Nat, next: NextRetry]

NoRow == [status |-> "absent", asset |-> None, number |-> 0, cycle |-> 0,
          next |-> "none"]

\* Where a worker stands: what it does next.
LivePC == {"load", "begin", "download", "process", "import", "moved", "finish"}

\* A worker's memory. seen is the state its session last read or wrote;
\* number and inCycle are attempt_number and attempt_in_cycle.
Worker == [pc: LivePC \cup {"unused", "done", "dead"}, asset: Assets \cup {None},
           seen: MediaState, number: Nat, inCycle: Nat]

IdleWorker == [pc |-> "unused", asset |-> None, seen |-> "DOWNLOADING",
               number |-> 0, inCycle |-> 0]

Poller == [pc: {"down", "reconcile", "idle", "claim", "commit", "spawn", "dead"},
           pick: Assets \cup {None}, slots: Nat]

Request == [op: {"enqueue", "retry", "cancel", "idle"}, asset: Assets \cup {None}]

NoRequest == [op |-> "idle", asset |-> None]

TypeOK ==
    /\ state \in [Assets -> MediaState]
    /\ path \in [Assets -> Tasks \cup {None}]
    /\ retries \in [Assets -> Nat]
    /\ row \in [Tasks -> Row]
    /\ limit \in Limits
    /\ disk \subseteq Tasks
    /\ poller \in Poller
    /\ task \in [Tasks -> Worker]
    /\ request \in [Clients -> Request]
    /\ crashes \in Nat
    /\ stale \subseteq Assets

\* Assets as search leaves them: a winner chosen, nothing tried yet.
Init ==
    /\ state = [a \in Assets |-> "CANDIDATE_SELECTED"]
    /\ path = [a \in Assets |-> None]
    /\ retries = [a \in Assets |-> 0]
    /\ row = [w \in Tasks |-> NoRow]
    /\ limit \in Limits
    /\ disk = {}
    /\ poller = [pc |-> "down", pick |-> None, slots |-> 0]
    /\ task = [w \in Tasks |-> IdleWorker]
    /\ request = [c \in Clients |-> NoRequest]
    /\ crashes = 0
    /\ stale = {}

-----------------------------------------------------------------------------
(* Reading the attempts of an asset *)

Rows(a)    == {w \in Tasks : row[w].asset = a}
Running(a) == {w \in Rows(a) : row[w].status = "RUNNING"}

\* ORDER BY attempt_number DESC; two rows with one number come in any order.
LatestOf(S) == {w \in S : \A v \in S : row[v].number <= row[w].number}

\* MUTANT: a CANDIDATE_SELECTED asset is taken for one never attempted.
NoBackoffWhenSelected(a) ==
    \/ state[a] = "CANDIDATE_SELECTED"
    \/ Rows(a) = {}
    \/ \E w \in LatestOf(Rows(a)) : row[w].next # "waiting"

NothingToWaitFor(a) ==
    \/ Rows(a) = {}
    \/ \E w \in LatestOf(Rows(a)) : row[w].next # "waiting"

StillWaiting(a) == \E w \in LatestOf(Rows(a)) : row[w].next = "waiting"

Live == {w \in Tasks : task[w].pc \in LivePC}

Up == poller.pc # "down"

-----------------------------------------------------------------------------
(* The poller: _run, _tick and claim_next_ready_asset *)

\* DownloadQueue.start() from the FastAPI lifespan.
Start ==
    /\ poller.pc = "down"
    /\ poller' = [poller EXCEPT !.pc = "reconcile"]
    /\ UNCHANGED <<dbVars, disk, task, request, histVars>>

\* MUTANT: recovery forgets the assets that were being imported.
ReconcileForgetsImporting ==
    LET stuck == {a \in Assets : state[a] \in {"DOWNLOADING", "PROCESSING"}}
    IN  /\ poller.pc = "reconcile"
        /\ row' = [w \in Tasks |->
                      IF \E a \in stuck : w \in Running(a)
                      THEN [row[w] EXCEPT !.status = "INTERRUPTED"] ELSE row[w]]
        /\ state' = [a \in Assets |-> IF a \in stuck THEN "QUEUED" ELSE state[a]]
        /\ poller' = [poller EXCEPT !.pc = "idle"]
        /\ UNCHANGED <<path, retries, limit, disk, task, request, histVars>>

\* MUTANT: recovery goes by the RUNNING attempts instead of the states.
ReconcileByAttempt ==
    LET stuck == {a \in Assets : Running(a) # {}}
    IN  /\ poller.pc = "reconcile"
        /\ row' = [w \in Tasks |->
                      IF row[w].status = "RUNNING"
                      THEN [row[w] EXCEPT !.status = "INTERRUPTED"] ELSE row[w]]
        /\ state' = [a \in Assets |-> IF a \in stuck THEN "QUEUED" ELSE state[a]]
        /\ poller' = [poller EXCEPT !.pc = "idle"]
        /\ UNCHANGED <<path, retries, limit, disk, task, request, histVars>>

\* MUTANT: recovery requeues but leaves the attempts RUNNING.
ReconcileKeepsAttempts ==
    /\ poller.pc = "reconcile"
    /\ state' = [a \in Assets |-> IF state[a] \in InFlight THEN "QUEUED" ELSE state[a]]
    /\ poller' = [poller EXCEPT !.pc = "idle"]
    /\ UNCHANGED <<path, retries, row, limit, disk, task, request, histVars>>

\* One commit requeues every in-flight asset and closes, for each, the
\* RUNNING attempt with the highest number.
ReconcileInterruptedAssets ==
    LET stuck == {a \in Assets : state[a] \in InFlight}
    IN  /\ poller.pc = "reconcile"
        /\ \E closed \in SUBSET Tasks :
              /\ \A w \in closed : \E a \in stuck : w \in LatestOf(Running(a))
              /\ \A a \in stuck : Running(a) # {} =>
                    \E w \in closed : closed \cap Running(a) = {w}
              /\ row' = [w \in Tasks |->
                            IF w \in closed
                            THEN [row[w] EXCEPT !.status = "INTERRUPTED"]
                            ELSE row[w]]
        /\ state' = [a \in Assets |-> IF a \in stuck THEN "QUEUED" ELSE state[a]]
        /\ poller' = [poller EXCEPT !.pc = "idle"]
        /\ UNCHANGED <<path, retries, limit, disk, task, request, histVars>>

\* The reconciliation runs outside the poller's try: when it raises, the
\* poller task is over until the process restarts.
ReconcileFails ==
    /\ Uncaught
    /\ poller.pc = "reconcile"
    /\ poller' = [poller EXCEPT !.pc = "dead"]
    /\ UNCHANGED <<dbVars, disk, task, request, histVars>>

\* MUTANT: range(slots_free) without max(slots_free, 0).
TickWithoutClamp ==
    /\ poller.pc = "idle"
    /\ poller' = [poller EXCEPT !.pc = "claim", !.slots = limit - Cardinality(Live)]
    /\ UNCHANGED <<dbVars, disk, task, request, histVars>>

\* MUTANT: every tick may start as many workers as the limit.
TickIgnoresRunning ==
    /\ poller.pc = "idle"
    /\ poller' = [poller EXCEPT !.pc = "claim", !.slots = limit]
    /\ UNCHANGED <<dbVars, disk, task, request, histVars>>

\* _tick up to its loop: the limit is read once, done workers drop out.
TickStart ==
    /\ poller.pc = "idle"
    /\ LET running == Cardinality(Live)
       IN  poller' = IF running < limit
                     THEN [poller EXCEPT !.pc = "claim", !.slots = limit - running]
                     ELSE poller
    /\ UNCHANGED <<dbVars, disk, task, request, histVars>>

\* The SELECTs of claim_next_ready_asset: the first ready asset by id that
\* waits for no backoff.
ClaimRead(a) ==
    /\ poller.pc = "claim"
    /\ \E w \in Tasks : task[w].pc = "unused"     \* bound: Tasks
    /\ state[a] \in Claimable
    /\ NothingToWaitFor(a)
    /\ \A b \in Assets : b < a /\ state[b] \in Claimable => StillWaiting(b)
    /\ poller' = [poller EXCEPT !.pc = "commit", !.pick = a]
    /\ UNCHANGED <<dbVars, disk, task, request, histVars>>

\* It returns None and the tick is over.
ClaimNone ==
    /\ poller.pc = "claim"
    /\ \/ \A a \in Assets : state[a] \in Claimable => StillWaiting(a)
       \/ \A w \in Tasks : task[w].pc # "unused"  \* bound: Tasks
    /\ poller' = [poller EXCEPT !.pc = "idle", !.slots = 0]
    /\ UNCHANGED <<dbVars, disk, task, request, histVars>>

\* MUTANT: the claim leaves it to the worker to mark the asset.
ClaimWithoutMark ==
    /\ poller.pc = "commit"
    /\ poller' = [poller EXCEPT !.pc = "spawn"]
    /\ UNCHANGED <<dbVars, disk, task, request, histVars>>

\* UPDATE ... SET state WHERE id: nothing compares the state with what was read.
ClaimCommit ==
    LET a == poller.pick
    IN  /\ poller.pc = "commit"
        /\ state' = [state EXCEPT ![a] = "DOWNLOADING"]
        /\ stale' = IF state[a] \in Claimable THEN stale ELSE stale \cup {a}
        /\ poller' = [poller EXCEPT !.pc = "spawn"]
        /\ UNCHANGED <<path, retries, row, limit, disk, task, request, crashes>>

\* The commit raises ("database is locked"); _run logs it and sleeps.
ClaimFails ==
    /\ Uncaught
    /\ poller.pc = "commit"
    /\ poller' = [pc |-> "idle", pick |-> None, slots |-> 0]
    /\ UNCHANGED <<dbVars, disk, task, request, histVars>>

\* After the pacing delay: create_task(_run_one(asset_id)).
Spawn ==
    /\ poller.pc = "spawn"
    /\ \E w \in Tasks :
          /\ task[w].pc = "unused"
          /\ \A v \in Tasks : task[v].pc = "unused" => w <= v
          /\ task' = [task EXCEPT ![w] = [IdleWorker EXCEPT !.pc = "load",
                                                            !.asset = poller.pick]]
    /\ poller' = [pc |-> IF poller.slots > 1 THEN "claim" ELSE "idle",
                  pick |-> None,
                  slots |-> IF poller.slots > 1 THEN poller.slots - 1 ELSE 0]
    /\ UNCHANGED <<dbVars, disk, request, histVars>>

-----------------------------------------------------------------------------
(* A worker: _run_one, process_media_asset, run_pipeline_core, _import_asset *)

\* SQLAlchemy emits an UPDATE only when the session's own copy changes.
SetState(w, new) ==
    state' = IF new # task[w].seen THEN [state EXCEPT ![task[w].asset] = new]
             ELSE state

AtPC(w, pc) == task[w].pc = pc

Goto(w, pc, seen) ==
    task' = [task EXCEPT ![w] = [@ EXCEPT !.pc = pc, !.seen = seen]]

Retire(w, pc) == task' = [task EXCEPT ![w] = [IdleWorker EXCEPT !.pc = pc]]

\* _run_one loads the asset; process_media_asset reads its attempts and
\* counts those of the current cycle.
Load(w) ==
    LET a == task[w].asset
        thisCycle == {v \in Rows(a) : row[v].cycle >= retries[a]}
    IN  /\ AtPC(w, "load")
        /\ \E n \in {1} \cup {row[v].number + 1 : v \in LatestOf(Rows(a))} :
              /\ n = 1 => Rows(a) = {}
              /\ task' = [task EXCEPT ![w] = [@ EXCEPT
                              !.pc = "begin", !.seen = state[a], !.number = n,
                              !.inCycle = Cardinality(thisCycle) + 1]]
        /\ UNCHANGED <<dbVars, disk, poller, request, histVars>>

\* The RUNNING row is inserted and committed before anything is downloaded.
BeginAttempt(w) ==
    LET a == task[w].asset
    IN  /\ AtPC(w, "begin")
        /\ row' = [row EXCEPT ![w] = [status |-> "RUNNING", asset |-> a,
                                      number |-> task[w].number,
                                      cycle |-> retries[a], next |-> "none"]]
        /\ Goto(w, "download", task[w].seen)
        /\ UNCHANGED <<state, path, retries, limit, disk, poller, request, histVars>>

\* The disk check passes, a candidate exists, yt-dlp returns both streams.
Downloaded(w) ==
    /\ AtPC(w, "download")
    /\ SetState(w, "PROCESSING")
    /\ Goto(w, "process", "PROCESSING")
    /\ UNCHANGED <<path, retries, row, limit, disk, poller, request, histVars>>

\* Muxed, probed, lyrics looked up, tagged, probed again.
Processed(w) ==
    /\ AtPC(w, "process")
    /\ SetState(w, "IMPORTING")
    /\ Goto(w, "import", "IMPORTING")
    /\ UNCHANGED <<path, retries, row, limit, disk, poller, request, histVars>>

\* _import_asset: atomic_move to a name nothing in the folder has ...
MoveIntoLibrary(w) ==
    /\ AtPC(w, "import")
    /\ disk' = disk \cup {w}
    /\ Goto(w, "moved", task[w].seen)
    /\ UNCHANGED <<dbVars, poller, request, histVars>>

\* MUTANT: local_path is left for a later commit.
ImportWithoutPath(w) ==
    LET final == IF task[w].asset \in Visualizers THEN "INCOMPLETE" ELSE "AVAILABLE"
    IN  /\ AtPC(w, "moved")
        /\ SetState(w, final)
        /\ Goto(w, "finish", final)
        /\ UNCHANGED <<path, retries, row, limit, disk, poller, request, histVars>>

\* ... then, in one commit, local_path and the final state.
ImportAsset(w) ==
    LET a     == task[w].asset
        final == IF a \in Visualizers THEN "INCOMPLETE" ELSE "AVAILABLE"
    IN  /\ AtPC(w, "moved")
        /\ SetState(w, final)
        /\ path' = [path EXCEPT ![a] = w]
        /\ Goto(w, "finish", final)
        /\ UNCHANGED <<retries, row, limit, disk, poller, request, histVars>>

\* Sidecar and media servers are best effort; then the attempt is closed.
Finish(w) ==
    /\ AtPC(w, "finish")
    /\ row' = [row EXCEPT ![w] = [@ EXCEPT !.status = "SUCCEEDED", !.next = "none"]]
    /\ Retire(w, "done")
    /\ UNCHANGED <<state, path, retries, limit, disk, poller, request, histVars>>

\* MUTANT: one attempt too many.
FailOffByOne(w) ==
    /\ \E pc \in {"download", "process", "import"} : AtPC(w, pc)
    /\ LET again == task[w].inCycle <= MaxAttempts
       IN  /\ row' = [row EXCEPT ![w] = [@ EXCEPT
                         !.status = "FAILED",
                         !.next = IF again THEN "waiting" ELSE "none"]]
           /\ SetState(w, IF again THEN "QUEUED" ELSE "DOWNLOAD_FAILED")
    /\ Retire(w, "done")
    /\ UNCHANGED <<path, retries, limit, disk, poller, request, histVars>>

\* MUTANT: what goes wrong after the move is a failed attempt too.
FailAfterMove(w) ==
    /\ \E pc \in {"download", "process", "import", "moved"} : AtPC(w, pc)
    /\ LET again == task[w].inCycle < MaxAttempts
       IN  /\ row' = [row EXCEPT ![w] = [@ EXCEPT
                         !.status = "FAILED",
                         !.next = IF again THEN "waiting" ELSE "none"]]
           /\ SetState(w, IF again THEN "QUEUED" ELSE "DOWNLOAD_FAILED")
    /\ Retire(w, "done")
    /\ UNCHANGED <<path, retries, limit, disk, poller, request, histVars>>

\* except AcquisitionError: a NonRetryableDownloadError comes from the
\* missing candidate or from yt-dlp; every other kind is retryable.
Fail(w) ==
    /\ \E pc \in {"download", "process", "import"} : AtPC(w, pc)
    /\ \E retryable \in IF AtPC(w, "download") THEN BOOLEAN ELSE {TRUE} :
          LET again == retryable /\ task[w].inCycle < MaxAttempts
          IN  /\ row' = [row EXCEPT ![w] = [@ EXCEPT
                            !.status = "FAILED",
                            !.next = IF again THEN "waiting" ELSE "none"]]
              /\ SetState(w, IF again THEN "QUEUED" ELSE "DOWNLOAD_FAILED")
    /\ Retire(w, "done")
    /\ UNCHANGED <<path, retries, limit, disk, poller, request, histVars>>

\* Any other exception: _run_one logs download_queue.worker_crashed and the
\* task is over; the session rolls back what was not committed.
WorkerCrashed(w) ==
    /\ Uncaught
    /\ w \in Live
    /\ Retire(w, "dead")
    /\ UNCHANGED <<dbVars, disk, poller, request, histVars>>

\* The clock passes next_retry_at.
BackoffElapses(w) ==
    /\ row[w].next = "waiting"
    /\ row' = [row EXCEPT ![w].next = "due"]
    /\ UNCHANGED <<state, path, retries, limit, disk, procVars, histVars>>

-----------------------------------------------------------------------------
(* The handlers of api/queue.py. Each loads the asset, checks its state and  *)
(* commits an unconditional UPDATE; the await of that commit is the gap. A   *)
(* handler whose check fails answers 422 and changes nothing.                *)

EnqueueForDownload == [op |-> "enqueue", from |-> "CANDIDATE_SELECTED", to |-> "QUEUED"]
RetryDownload      == [op |-> "retry",   from |-> "DOWNLOAD_FAILED",    to |-> "QUEUED"]
CancelQueued       == [op |-> "cancel",  from |-> "QUEUED", to |-> "CANDIDATE_SELECTED"]

Handlers == {h \in {EnqueueForDownload, RetryDownload, CancelQueued} : h.op \in Ops}

\* session.get and the check of the state it returned.
HandlerRead(c, a) ==
    /\ Up
    /\ request[c] = NoRequest
    /\ \E h \in Handlers :
          /\ state[a] = h.from
          /\ h.op = "retry" => retries[a] < MaxRetries     \* bound: MaxRetries
          /\ request' = [request EXCEPT ![c] = [op |-> h.op, asset |-> a]]
    /\ UNCHANGED <<dbVars, disk, poller, task, histVars>>

HandlerCommit(c) ==
    LET a == request[c].asset
    IN  \E h \in Handlers :
          /\ request[c].op = h.op
          /\ state' = [state EXCEPT ![a] = h.to]
          /\ retries' = IF h.op = "retry" THEN [retries EXCEPT ![a] = @ + 1]
                        ELSE retries
          /\ stale' = IF state[a] \in Claimable \cup {h.from} THEN stale
                      ELSE stale \cup {a}
          /\ request' = [request EXCEPT ![c] = NoRequest]
          /\ UNCHANGED <<path, row, limit, disk, poller, task, crashes>>

\* update_acquisition_settings.
SetLimit(n) ==
    /\ Up
    /\ limit' = n
    /\ UNCHANGED <<state, path, retries, row, disk, procVars, histVars>>

-----------------------------------------------------------------------------
\* A kill, or stop(): every task is cancelled, uncommitted work is rolled
\* back, the database and the folder stay.
Crash ==
    /\ Up
    /\ crashes < MaxCrashes     \* bound: MaxCrashes
    /\ crashes' = crashes + 1
    /\ poller' = [pc |-> "down", pick |-> None, slots |-> 0]
    /\ task' = [w \in Tasks |-> IF w \in Live THEN [IdleWorker EXCEPT !.pc = "dead"]
                                ELSE task[w]]
    /\ request' = [c \in Clients |-> NoRequest]
    /\ UNCHANGED <<dbVars, disk, stale>>

PollerStep ==
    \/ Start
    \/ ReconcileInterruptedAssets
    \/ TickStart
    \/ \E a \in Assets : ClaimRead(a)
    \/ ClaimNone
    \/ ClaimCommit
    \/ Spawn

WorkerStep(w) ==
    \/ Load(w) \/ BeginAttempt(w)
    \/ Downloaded(w) \/ Processed(w)
    \/ MoveIntoLibrary(w) \/ ImportAsset(w)
    \/ Finish(w) \/ Fail(w)

ClientStep ==
    \/ \E c \in Clients : HandlerCommit(c) \/ \E a \in Assets : HandlerRead(c, a)
    \/ \E n \in Limits : SetLimit(n)

FaultStep ==
    \/ ReconcileFails
    \/ ClaimFails
    \/ \E w \in Tasks : WorkerCrashed(w)
    \/ Crash

Next ==
    \/ PollerStep
    \/ \E w \in Tasks : WorkerStep(w) \/ BackoffElapses(w)
    \/ ClientStep
    \/ FaultStep

Spec == Init /\ [][Next]_vars

\* The event loop schedules every runnable task, external programs end, the
\* container is restarted and time passes. Clients and faults owe nothing.
FairSpec ==
    /\ Spec
    /\ WF_vars(PollerStep)
    /\ \A w \in Tasks : WF_vars(WorkerStep(w)) /\ WF_vars(BackoffElapses(w))

-----------------------------------------------------------------------------
(* What the queue promises. A handler's commit can hit an asset that was     *)
(* started after the handler read it; such an asset is in stale, and the     *)
(* promises below are about the others. PromisedBySource states them without *)
(* that exemption, as the source's comments do.                              *)

\* download_queue.py bounds its workers by a running-task count, not by a
\* semaphore, while the limit may change at any moment: at no time do more
\* workers run than the largest limit ever set allows.
WorkerBound == \E n \in Limits : Cardinality(Live) <= n

\* claim_next_ready_asset marks the asset in the commit that claims it: no
\* two workers run the pipeline of one asset.
OneWorkerPerAsset ==
    \A v, w \in Live :
        task[v].asset = task[w].asset => v = w \/ task[w].asset \in stale

\* Between restarts no asset is left DOWNLOADING, PROCESSING or IMPORTING
\* without a worker (or the poller about to start one): process_media_asset
\* ends every attempt, and reconcile_interrupted_assets finds the others.
NothingStranded ==
    Up /\ poller.pc # "reconcile" =>
        \A a \in Assets : state[a] \in InFlight =>
            \/ \E w \in Live : task[w].asset = a
            \/ poller.pc = "spawn" /\ poller.pick = a

\* max_download_attempts bounds the attempts of a cycle, and only a manual
\* Retry opens another: attempts the process did not interrupt never exceed
\* that budget, however often it crashed in between.
AttemptBudget ==
    \A a \in Assets \ stale :
        Cardinality({w \in Rows(a) : row[w].status # "INTERRUPTED"})
            <= MaxAttempts * (retries[a] + 1)

\* An attempt left RUNNING by a dead worker is one that the next
\* reconciliation closes, or the import it was about had been committed.
DeadAttemptIsRecoverable ==
    \A w \in Tasks :
        row[w].status = "RUNNING" /\ task[w].pc = "dead" =>
            \/ state[row[w].asset] \in InFlight
            \/ path[row[w].asset] = w
            \/ row[w].asset \in stale

\* Work in flight always has somebody to finish it: a worker, or the recovery
\* of the next start (_run_one, reconcile_interrupted_assets).
NothingIsLost == NothingStranded /\ DeadAttemptIsRecoverable

\* _import_asset: an asset has a file exactly when its state says so, and the
\* file is in the media folder and came from an attempt of that asset.
LibraryConsistent ==
    \A a \in Assets \ stale :
        /\ state[a] \in Imported <=> path[a] # None
        /\ path[a] # None => path[a] \in disk \cap Rows(a)

\* Every file in the media folder is its asset's local_path, unless its worker
\* is (or died) between the move and the commit of _import_asset.
FilesAccountedFor ==
    \A w \in disk :
        \/ path[row[w].asset] = w
        \/ task[w].pc \in {"moved", "dead"}
        \/ row[w].asset \in stale

\* The rows and the media folder tell the same, in both directions.
LibraryMatchesDisk == LibraryConsistent /\ FilesAccountedFor

\* No attempt is recorded while the wait set by an earlier failure of the same
\* asset is still running (BACKOFF_SCHEDULE_SECONDS, next_retry_at).
BackoffRespected ==
    [][\A w \in Tasks :
          LET a == row'[w].asset
          IN  row[w] = NoRow /\ row'[w] # NoRow /\ a \notin stale =>
                  \A v \in Rows(a) : row[v].next # "waiting"]_vars

\* An imported asset is never reopened by the queue, and a failed one only by
\* retry_download: polls, crashes and recovery leave both alone.
SettledStaysSettled ==
    [][\A a \in Assets \ stale' :
          /\ state[a] \in Imported => state'[a] = state[a]
          /\ state[a] = "DOWNLOAD_FAILED" /\ state'[a] # state[a] =>
                retries'[a] = retries[a] + 1]_vars

\* Every asset that is ready to be downloaded ends imported or failed.
Settled(a) == state[a] \in Imported \cup {"DOWNLOAD_FAILED"}
EventuallySettled ==
    \A a \in Assets : state[a] \in Claimable ~> Settled(a)

-----------------------------------------------------------------------------
(* The queue implements AssetLifecycle. *)

Phase(a) ==
    CASE state[a] \in Claimable -> "ready"
      [] state[a] \in InFlight  -> "active"
      [] state[a] \in Imported  -> "done"
      [] OTHER                  -> "failed"

Lifecycle == INSTANCE AssetLifecycle WITH
    Budget <- MaxAttempts,
    phase  <- [a \in Assets |-> Phase(a)],
    tries  <- [a \in Assets |-> Cardinality({w \in Rows(a) :
                  row[w].status = "FAILED" /\ row[w].cycle = retries[a]})]

\* With one request at a time and Retry the only operation, every step of the
\* poller, of a worker, of recovery and of a handler is a step of the
\* lifecycle or changes nothing in it.
ImplementsLifecycle == Lifecycle!Spec

-----------------------------------------------------------------------------
(* PromisedBySource: what comments of the code say, and the code does not do *)

\* claim_next_ready_asset: "can never claim it twice".
NeverClaimedTwice ==
    \A v, w \in Live : task[v].asset = task[w].asset => v = w

\* process_media_asset: "Always leaves the asset in a terminal-for-this-attempt
\* state". While the process stays up, no attempt is over with its asset still
\* in flight.
EveryAttemptConcludes ==
    \A w \in Tasks \ Live :
        row[w].status = "RUNNING" => state[row[w].asset] \notin InFlight

\* README and architecture.md: the import is crash-safe, a crash anywhere
\* from mux onward is recovered on restart. Once recovery has run, every file
\* in the media folder belongs to an asset.
CrashSafeImport ==
    poller.pc = "idle" =>
        \A w \in disk : path[row[w].asset] = w \/ w \in Live
=============================================================================
