-------------------------- MODULE StockQueue_proofs --------------------------
(***************************************************************************)
(* Proofs about StockQueue for every number of tickers, documents, request *)
(* threads, crashes and clock ticks, and every mix of requests.            *)
(***************************************************************************)
EXTENDS StockQueue, TLAPS

USE DEF JobId, Mode

\* Facts about one thread's control state: where EndTicker and Start may take
\* it, and that they touch no other thread.
ReqOK == req \in [Req -> {Idle} \cup Busy]

LEMMA BusyAtStep ==
    ASSUME ReqOK, NEW r \in Req, req[r].pc \in Step
    PROVE  req[r] \in Busy
  BY DEF ReqOK, Idle, Step

LEMMA StartLands ==
    ASSUME ReqOK, NEW r \in Req, NEW op \in Ops, NEW ts \in SUBSET Ticker,
           NEW m \in Mode, Start(r, op, ts, m)
    PROVE  /\ ReqOK'
           /\ req'[r].pc \in {"lookup", "register", "unregister"}
           /\ \A q \in Req \ {r} : req'[q] = req[q]
<1>1. PICK t \in ts :
        req' = [req EXCEPT ![r] = [op |-> op, pc |-> FirstStep(op), ticker |-> t,
                                   todo |-> ts \ {t}, mode |-> m, job |-> 0]]
  BY DEF Start
<1>2. FirstStep(op) \in {"lookup", "register", "unregister"}
  BY DEF FirstStep
<1>3. [op |-> op, pc |-> FirstStep(op), ticker |-> t,
       todo |-> ts \ {t}, mode |-> m, job |-> 0] \in Busy
  BY <1>2 DEF Busy, Step
<1>4. QED
  BY <1>1, <1>2, <1>3 DEF ReqOK

LEMMA EndTickerLands ==
    ASSUME ReqOK, NEW r \in Req, req[r].pc \in Step, EndTicker(r)
    PROVE  /\ ReqOK'
           /\ req'[r].pc \in {"idle", "lookup", "register", "unregister"}
           /\ \A q \in Req \ {r} : req'[q] = req[q]
<1>1. req[r] \in Busy
  BY BusyAtStep
<1>2. CASE req[r].todo = {}
  BY <1>2 DEF EndTicker, ReqOK, Idle
<1>3. CASE req[r].todo # {}
  <2>1. req[r].op \in Ops /\ req[r].todo \in SUBSET Ticker /\ req[r].mode \in Mode
    BY <1>1 DEF Busy
  <2>2. Start(r, req[r].op, req[r].todo, req[r].mode)
    BY <1>3 DEF EndTicker
  <2>3. QED
    BY <2>1, <2>2, StartLands
<1>4. QED
  BY <1>2, <1>3

LEMMA GotoLands ==
    ASSUME ReqOK, NEW r \in Req, req[r].pc \in Step, NEW pc \in Step, Goto(r, pc)
    PROVE  /\ ReqOK'
           /\ req'[r].pc = pc
           /\ \A q \in Req \ {r} : req'[q] = req[q]
<1>1. req[r] \in Busy
  BY BusyAtStep
<1>2. [req[r] EXCEPT !.pc = pc] \in Busy /\ [req[r] EXCEPT !.pc = pc].pc = pc
  BY <1>1 DEF Busy
<1>3. QED
  BY <1>2 DEF Goto, ReqOK

-----------------------------------------------------------------------------
(* The strengthening.  Beyond the types it says which documents have been  *)
(* inserted, that a thread about to upgrade has seen one of them, and what *)
(* the worker holds.                                                       *)

Inserted == \A j \in JobId : jobs[j].status = "none" <=> j >= nextJob

SeenJobs == \A r \in Req : req[r].pc = "upgrade" => req[r].job \in 1..(nextJob - 1)

HeldOrFree == IF Executing THEN HeldJobIsRunning ELSE runner.job = 0

\* A promised job is in mode full unless it was deleted before the upgrade
\* that promised it was applied.
PromiseRecorded ==
    \A j \in told : j < nextJob /\ (jobs[j].status # "gone" => jobs[j].mode = "full")

IInv ==
    /\ TypeOK
    /\ Inserted
    /\ SeenJobs
    /\ HeldOrFree
    /\ PromiseRecorded

LEMMA InitIInv == Init => IInv
<1> SUFFICES ASSUME Init PROVE IInv
  OBVIOUS
<1> USE MaxJobAssumption, WorkerAssumption
<1>1. DataTypeOK
  <2>1. PICK t \in Ticker : jobs = [j \in JobId |-> [ticker |-> t, status |-> "none",
                                            mode |-> "delta", started |-> 0]]
    BY DEF Init, DataInit
  <2>2. jobs \in [JobId -> Job]
    BY <2>1 DEF Job, JobStatus
  <2>3. QED
    BY <2>2 DEF Init, DataInit, DataTypeOK, RegistryStatus, Pins
<1>2. ApiTypeOK
  BY DEF Init, ApiInit, ApiTypeOK
<1>3. WorkerTypeOK
  BY DEF Init, WorkerInit, WorkerTypeOK, Resting, RunnerStep
<1>4. Inserted
  <2>1. PICK t \in Ticker : jobs = [j \in JobId |-> [ticker |-> t, status |-> "none",
                                            mode |-> "delta", started |-> 0]]
    BY DEF Init, DataInit
  <2>2. QED
    BY <2>1 DEF Init, DataInit, Inserted
<1>5. SeenJobs /\ PromiseRecorded
  BY DEF Init, ApiInit, SeenJobs, PromiseRecorded, Idle
<1>6. HeldOrFree
  BY DEF Init, WorkerInit, HeldOrFree, Executing, Resting
<1>7. QED
  BY <1>1, <1>2, <1>3, <1>4, <1>5, <1>6 DEF IInv, TypeOK

-----------------------------------------------------------------------------
\* The steps of the backend.  A step of a thread that only moves the thread
\* and the collections the invariant is not about:

LEMMA ThreadMoves ==
    ASSUME IInv, NEW r \in Req, UNCHANGED <<jobs, nextJob, told, workerVars>>,
           ReqOK', req'[r].pc # "upgrade",
           \A q \in Req \ {r} : req'[q] = req[q],
           registry' \in [Ticker -> RegistryStatus],
           analysis' \in [Ticker -> JobId \cup {0}],
           watch' \in [Ticker -> Pins]
    PROVE  IInv'
<1> USE DEF IInv, TypeOK, workerVars
<1>1. DataTypeOK' /\ ApiTypeOK' /\ WorkerTypeOK'
  BY DEF DataTypeOK, ApiTypeOK, WorkerTypeOK, ReqOK
<1>2. Inserted' /\ PromiseRecorded'
  BY DEF Inserted, PromiseRecorded
<1>3. SeenJobs'
  BY DEF SeenJobs
<1>4. HeldOrFree'
  BY DEF HeldOrFree, Executing, HeldJobIsRunning
<1>5. QED
  BY <1>1, <1>2, <1>3, <1>4

LEMMA PinTypes ==
    ASSUME DataTypeOK, NEW t \in Ticker
    PROVE  /\ DropPin(t) => watch' \in [Ticker -> Pins]
           /\ FlagPin(t) => watch' \in [Ticker -> Pins]
<1>1. watch[t].active \in Nat /\ watch[t].removed \in Nat
  BY DEF DataTypeOK, Pins
<1>2. DropPin(t) => watch' \in [Ticker -> Pins]
  <2>1. CASE UNCHANGED watch
    BY <2>1 DEF DataTypeOK
  <2>2. CASE watch[t].active > 0 /\ watch' = [watch EXCEPT ![t].active = @ - 1]
    BY <1>1, <2>2 DEF DataTypeOK, Pins
  <2>3. CASE watch[t].removed > 0 /\ watch' = [watch EXCEPT ![t].removed = @ - 1]
    BY <1>1, <2>3 DEF DataTypeOK, Pins
  <2>4. QED
    BY <2>1, <2>2, <2>3 DEF DropPin
<1>3. FlagPin(t) => watch' \in [Ticker -> Pins]
  <2>1. CASE UNCHANGED watch
    BY <2>1 DEF DataTypeOK
  <2>2. CASE /\ watch[t].active > 0
             /\ watch' = [watch EXCEPT ![t].active = @ - 1, ![t].removed = @ + 1]
    BY <1>1, <2>2 DEF DataTypeOK, Pins
  <2>3. QED
    BY <2>1, <2>2 DEF FlagPin
<1>4. QED
  BY <1>2, <1>3

LEMMA StatusTypes ==
    ASSUME DataTypeOK, NEW t \in Ticker, NEW s \in RegistryStatus
    PROVE  /\ SetStatus(t, s) => registry' \in [Ticker -> RegistryStatus]
           /\ Register(t) => registry' \in [Ticker -> RegistryStatus]
  BY DEF DataTypeOK, SetStatus, Register, RegistryStatus
\* Arrivals and the two one-step requests.
LEMMA ArriveIInv ==
    ASSUME IInv, NEW r \in Req, Arrive(r), UNCHANGED workerVars
    PROVE  IInv'
<1>1. ReqOK /\ DataTypeOK
  BY DEF IInv, TypeOK, ApiTypeOK, ReqOK
<1>2. \E op \in Ops, ts \in SUBSET Ticker, m \in Mode : Start(r, op, ts, m)
  <2>1. CASE PostQueue(r)
    BY <2>1 DEF PostQueue
  <2>2. CASE PostQueueAll(r)
    BY <2>2 DEF PostQueueAll, ActiveUniverse
  <2>3. CASE PostAnalyze(r)
    BY <2>3 DEF PostAnalyze
  <2>4. CASE PostBulk(r)
    BY <2>4 DEF PostBulk
  <2>5. CASE PostOne(r)
    BY <2>5 DEF PostOne
  <2>6. QED
    BY <2>1, <2>2, <2>3, <2>4, <2>5 DEF Arrive
<1>3. /\ ReqOK'
      /\ req'[r].pc # "upgrade"
      /\ \A q \in Req \ {r} : req'[q] = req[q]
  BY <1>1, <1>2, StartLands
<1>4. UNCHANGED <<dataVars, told>>
  BY DEF Arrive, PostQueue, PostQueueAll, PostAnalyze, PostBulk, PostOne
<1>5. QED
  BY <1>1, <1>3, <1>4, ThreadMoves DEF dataVars, DataTypeOK

LEMMA OneStepIInv ==
    ASSUME IInv, PatchTicker \/ Unpin, UNCHANGED workerVars
    PROVE  IInv'
<1> USE DEF apiVars
<1>1. /\ DataTypeOK
      /\ UNCHANGED <<jobs, nextJob, analysis, req, told, runner, now, crashes>>
  BY DEF IInv, TypeOK, PatchTicker, Unpin, workerVars
<1>2. registry' \in [Ticker -> RegistryStatus] /\ watch' \in [Ticker -> Pins]
  <2>1. CASE PatchTicker
    <3>1. PICK t \in Ticker, s \in {"active", "disabled"} : SetStatus(t, s)
      BY <2>1 DEF PatchTicker
    <3>2. registry' \in [Ticker -> RegistryStatus]
      BY <1>1, <3>1, StatusTypes DEF RegistryStatus
    <3>3. QED
      BY <1>1, <2>1, <3>2 DEF PatchTicker, DataTypeOK
  <2>2. CASE Unpin
    <3>1. PICK t \in Ticker : DropPin(t)
      BY <2>2 DEF Unpin
    <3>2. watch' \in [Ticker -> Pins]
      BY <1>1, <3>1, PinTypes
    <3>3. QED
      BY <1>1, <2>2, <3>2 DEF Unpin, DataTypeOK
  <2>3. QED
    BY <2>1, <2>2
<1>3. DataTypeOK' /\ ApiTypeOK' /\ WorkerTypeOK'
  BY <1>1, <1>2 DEF IInv, TypeOK, DataTypeOK, ApiTypeOK, WorkerTypeOK
<1>4. Inserted' /\ PromiseRecorded' /\ SeenJobs'
  BY <1>1 DEF IInv, Inserted, PromiseRecorded, SeenJobs
<1>5. HeldOrFree'
  BY <1>1 DEF IInv, HeldOrFree, Executing, HeldJobIsRunning
<1>6. QED
  BY <1>3, <1>4, <1>5 DEF IInv, TypeOK

\* The steps of a request that leave work_queue alone.
LEMMA ServeElsewhereIInv ==
    ASSUME IInv, NEW r \in Req, UNCHANGED workerVars,
           \/ Lookup(r) \/ Reactivate(r) \/ RegisterTicker(r) \/ InsertPin(r)
           \/ Unregister(r) \/ DeleteAnalyses(r) \/ DeletePin(r)
    PROVE  IInv'
<1> DEFINE Others == \A q \in Req \ {r} : req'[q] = req[q]
<1>1. ReqOK /\ DataTypeOK
  BY DEF IInv, TypeOK, ApiTypeOK, ReqOK
<1>2. req[r].pc \in Step
  BY DEF Lookup, Reactivate, RegisterTicker, InsertPin, Unregister,
         DeleteAnalyses, DeletePin, At, Step
<1>3. req[r] \in Busy /\ req[r].ticker \in Ticker
  BY <1>1, <1>2, BusyAtStep DEF Busy
<1>4. /\ ReqOK'
      /\ req'[r].pc # "upgrade"
      /\ Others
  <2>1. \/ EndTicker(r)
        \/ \E pc \in Step \ {"upgrade"} : Goto(r, pc)
    BY DEF Lookup, Reactivate, RegisterTicker, InsertPin, Unregister,
           DeleteAnalyses, DeletePin, Step
  <2>2. QED
    BY <1>1, <1>2, <2>1, EndTickerLands, GotoLands
<1>5. UNCHANGED <<jobs, nextJob, told>>
  BY DEF Lookup, Reactivate, RegisterTicker, InsertPin, Unregister,
         DeleteAnalyses, DeletePin, dataVars
<1>6. registry' \in [Ticker -> RegistryStatus]
  <2>1. CASE Reactivate(r)
    BY <1>1, <1>3, <2>1, StatusTypes DEF Reactivate, RegistryStatus
  <2>2. CASE RegisterTicker(r)
    BY <1>1, <1>3, <2>2, StatusTypes DEF RegisterTicker, RegistryStatus
  <2>3. CASE Unregister(r)
    BY <1>1, <1>3, <2>3 DEF Unregister, DataTypeOK, RegistryStatus
  <2>4. CASE UNCHANGED registry
    BY <1>1, <2>4 DEF DataTypeOK
  <2>5. QED
    BY <2>1, <2>2, <2>3, <2>4
       DEF Lookup, InsertPin, DeleteAnalyses, DeletePin, dataVars
<1>7. analysis' \in [Ticker -> JobId \cup {0}]
  <2>1. CASE DeleteAnalyses(r)
    BY <1>1, <1>3, <2>1 DEF DeleteAnalyses, DataTypeOK
  <2>2. CASE UNCHANGED analysis
    BY <1>1, <2>2 DEF DataTypeOK
  <2>3. QED
    BY <2>1, <2>2
       DEF Lookup, Reactivate, RegisterTicker, InsertPin, Unregister, DeletePin, dataVars
<1>8. watch' \in [Ticker -> Pins]
  <2>1. CASE DeletePin(r)
    BY <1>1, <1>3, <2>1, PinTypes DEF DeletePin
  <2>2. CASE InsertPin(r)
    <3>1. watch[req[r].ticker].active \in Nat /\ watch[req[r].ticker].removed \in Nat
      BY <1>1, <1>3 DEF DataTypeOK, Pins
    <3>2. watch' = [watch EXCEPT ![req[r].ticker].active = @ + 1]
      BY <2>2 DEF InsertPin
    <3>3. QED
      BY <1>1, <1>3, <3>1, <3>2 DEF DataTypeOK, Pins
  <2>3. CASE UNCHANGED watch
    BY <1>1, <2>3 DEF DataTypeOK
  <2>4. QED
    BY <2>1, <2>2, <2>3
       DEF Lookup, Reactivate, RegisterTicker, Unregister, DeleteAnalyses, dataVars
<1>9. QED
  BY <1>4, <1>5, <1>6, <1>7, <1>8, ThreadMoves DEF IInv
\* The steps of a request that read or write work_queue.
LEMMA FindExistingIInv ==
    ASSUME IInv, NEW r \in Req, FindExisting(r), UNCHANGED workerVars
    PROVE  IInv'
<1>1. ReqOK /\ req[r].pc \in Step /\ DataTypeOK /\ told \subseteq JobId
  BY DEF IInv, TypeOK, ApiTypeOK, ReqOK, FindExisting, At, Step
<1>2. req[r] \in Busy
  BY <1>1, BusyAtStep
<1>3. UNCHANGED dataVars
  BY DEF FindExisting
<1>4. \A j \in JobId : jobs[j].status \in {"pending", "running"} => j \in 1..(nextJob - 1)
  BY MaxJobAssumption, <1>1 DEF IInv, Inserted, DataTypeOK
<1>5. CASE Goto(r, "insert") /\ UNCHANGED told
  <2>1. ReqOK' /\ req'[r].pc = "insert" /\ \A q \in Req \ {r} : req'[q] = req[q]
    BY <1>1, <1>5, GotoLands DEF Step
  <2>2. QED
    BY <1>1, <1>3, <1>5, <2>1, ThreadMoves DEF dataVars, DataTypeOK
<1>6. ASSUME NEW j \in ActiveJobs(req[r].ticker), MayUpgrade(r, j), UNCHANGED told,
             req' = [req EXCEPT ![r].pc = "upgrade", ![r].job = j]
      PROVE  IInv'
  <2>1. j \in JobId /\ j \in 1..(nextJob - 1)
    BY <1>4 DEF ActiveJobs, IsActive
  <2>2. ReqOK' /\ req'[r].job = j /\ \A q \in Req \ {r} : req'[q] = req[q]
    <3>1. [req[r] EXCEPT !.pc = "upgrade", !.job = j] \in Busy
      BY <1>2, <2>1 DEF Busy, Step
    <3>2. [req[r] EXCEPT !.pc = "upgrade", !.job = j].job = j
      BY <1>2 DEF Busy
    <3>3. QED
      BY <1>1, <1>6, <3>1, <3>2 DEF ReqOK
  <2>3. SeenJobs'
    BY <1>3, <2>1, <2>2 DEF SeenJobs, IInv, dataVars
  <2>4. TypeOK'
    BY <1>3, <1>6, <2>2
       DEF IInv, TypeOK, DataTypeOK, ApiTypeOK, WorkerTypeOK, ReqOK, dataVars, workerVars
  <2>5. Inserted' /\ PromiseRecorded' /\ HeldOrFree'
    BY <1>3, <1>6 DEF IInv, Inserted, PromiseRecorded, HeldOrFree, Executing,
                      HeldJobIsRunning, dataVars, workerVars
  <2>6. QED
    BY <2>3, <2>4, <2>5 DEF IInv
<1>7. ASSUME NEW j \in ActiveJobs(req[r].ticker), EndTicker(r),
             told' = IF jobs[j].mode = "full" /\ req[r].op = "enqueue"
                     THEN told \cup {j} ELSE told
      PROVE  IInv'
  <2>1. j \in JobId /\ j \in 1..(nextJob - 1)
    BY <1>4 DEF ActiveJobs, IsActive
  <2>2. ReqOK' /\ req'[r].pc # "upgrade" /\ \A q \in Req \ {r} : req'[q] = req[q]
    BY <1>1, <1>7, EndTickerLands
  <2>3. SeenJobs'
    BY <1>3, <2>2 DEF SeenJobs, IInv, dataVars
  <2>4. TypeOK'
    BY <1>1, <1>3, <1>7, <2>1, <2>2
       DEF IInv, TypeOK, DataTypeOK, ApiTypeOK, WorkerTypeOK, ReqOK, dataVars, workerVars
  <2>5. Inserted' /\ HeldOrFree'
    BY <1>3 DEF IInv, Inserted, HeldOrFree, Executing, HeldJobIsRunning,
                dataVars, workerVars
  <2>6. PromiseRecorded'
    BY <1>1, <1>3, <1>7, <2>1 DEF IInv, PromiseRecorded, dataVars, DataTypeOK
  <2>7. QED
    BY <2>3, <2>4, <2>5, <2>6 DEF IInv
<1>8. QED
  BY <1>5, <1>6, <1>7 DEF FindExisting

LEMMA UpgradeIInv ==
    ASSUME IInv, NEW r \in Req, Upgrade(r), UNCHANGED workerVars
    PROVE  IInv'
<1> DEFINE s == req[r].job
<1>1. ReqOK /\ req[r].pc \in Step /\ DataTypeOK
  BY DEF IInv, TypeOK, ApiTypeOK, ReqOK, Upgrade, At, Step
<1>2. s \in JobId /\ s < nextJob
  BY <1>1, MaxJobAssumption DEF IInv, SeenJobs, Upgrade, At, DataTypeOK
<1>3. ReqOK' /\ req'[r].pc # "upgrade" /\ \A q \in Req \ {r} : req'[q] = req[q]
  BY <1>1, EndTickerLands DEF Upgrade
<1>4. jobs' = [jobs EXCEPT ![s].mode = IF Exists(s) THEN "full" ELSE @]
  BY DEF Upgrade
<1>5. UNCHANGED <<nextJob, registry, analysis, watch>> /\ told' = told \cup {s}
  BY DEF Upgrade
<1>6. \A j \in JobId :
        /\ jobs'[j].status = jobs[j].status
        /\ jobs[j].mode = "full" => jobs'[j].mode = "full"
  BY <1>1, <1>2, <1>4 DEF DataTypeOK, Job
<1>7. jobs[s].status # "gone" => jobs'[s].mode = "full"
  BY <1>1, <1>2, <1>4 DEF IInv, Inserted, Exists, DataTypeOK, Job
<1>8. TypeOK'
  <2>1. jobs' \in [JobId -> Job]
    BY <1>1, <1>2, <1>4 DEF DataTypeOK, Job
  <2>2. QED
    BY <1>2, <1>3, <1>5, <2>1
       DEF IInv, TypeOK, DataTypeOK, ApiTypeOK, WorkerTypeOK, ReqOK, workerVars
<1>9. Inserted' /\ HeldOrFree'
  BY <1>5, <1>6 DEF IInv, Inserted, HeldOrFree, Executing, HeldJobIsRunning, workerVars
<1>10. SeenJobs'
  BY <1>3, <1>5 DEF IInv, SeenJobs
<1>11. PromiseRecorded'
  <2> SUFFICES ASSUME NEW j \in told'
               PROVE  j < nextJob' /\ (jobs'[j].status # "gone" => jobs'[j].mode = "full")
    BY DEF PromiseRecorded
  <2>1. CASE j = s
    BY <1>2, <1>5, <1>6, <1>7, <2>1
  <2>2. CASE j \in told
    <3>1. j \in JobId
      BY <2>2 DEF IInv, TypeOK, ApiTypeOK
    <3>2. QED
      BY <1>5, <1>6, <2>2, <3>1 DEF IInv, PromiseRecorded
  <2>3. QED
    BY <1>5, <2>1, <2>2
<1>12. QED
  BY <1>8, <1>9, <1>10, <1>11 DEF IInv

LEMMA InsertIInv ==
    ASSUME IInv, NEW r \in Req, Insert(r), UNCHANGED workerVars
    PROVE  IInv'
<1> USE MaxJobAssumption
<1> DEFINE new == [ticker |-> req[r].ticker, status |-> "pending",
                   mode |-> req[r].mode, started |-> 0]
<1>1. ReqOK /\ req[r].pc \in Step /\ DataTypeOK
  BY DEF IInv, TypeOK, ApiTypeOK, ReqOK, Insert, At, Step
<1>2. req[r] \in Busy /\ new \in Job
  BY <1>1, BusyAtStep DEF Busy, Job, JobStatus
<1>3. ReqOK' /\ req'[r].pc # "upgrade" /\ \A q \in Req \ {r} : req'[q] = req[q]
  BY <1>1, EndTickerLands DEF Insert
<1>4. /\ nextJob \in JobId /\ nextJob' = nextJob + 1
      /\ jobs' = [jobs EXCEPT ![nextJob] = new]
      /\ told' = IF req[r].mode = "full" THEN told \cup {nextJob} ELSE told
      /\ UNCHANGED <<registry, analysis, watch>>
  BY DEF Insert, InsertJob
<1>5. TypeOK'
  <2>1. jobs' \in [JobId -> Job]
    BY <1>1, <1>2, <1>4 DEF DataTypeOK
  <2>2. told' \subseteq JobId
    BY <1>4 DEF IInv, TypeOK, ApiTypeOK
  <2>3. nextJob' \in 1..(MaxJob + 1)
    BY <1>1, <1>4
  <2>4. QED
    BY <1>3, <1>4, <2>1, <2>2, <2>3
       DEF IInv, TypeOK, DataTypeOK, ApiTypeOK, WorkerTypeOK, ReqOK, workerVars
<1>6. Inserted'
  BY <1>1, <1>4 DEF IInv, Inserted, DataTypeOK
<1>7. SeenJobs'
  BY <1>1, <1>3, <1>4 DEF IInv, SeenJobs, DataTypeOK
<1>8. HeldOrFree'
  BY <1>1, <1>4 DEF IInv, Inserted, HeldOrFree, Executing, HeldJobIsRunning,
                    workerVars, DataTypeOK
<1>9. PromiseRecorded'
  <2> SUFFICES ASSUME NEW j \in told'
               PROVE  j < nextJob' /\ (jobs'[j].status # "gone" => jobs'[j].mode = "full")
    BY DEF PromiseRecorded
  <2>1. CASE j \in told
    <3>1. j \in JobId /\ j < nextJob /\ (jobs[j].status # "gone" => jobs[j].mode = "full")
      BY <2>1 DEF IInv, PromiseRecorded, TypeOK, ApiTypeOK
    <3>2. QED
      BY <1>1, <1>4, <3>1 DEF DataTypeOK
  <2>2. CASE j = nextJob /\ req[r].mode = "full"
    BY <1>1, <1>4, <2>2 DEF DataTypeOK
  <2>3. QED
    BY <1>4, <2>1, <2>2
<1>10. QED
  BY <1>5, <1>6, <1>7, <1>8, <1>9 DEF IInv

LEMMA DeleteJobsIInv ==
    ASSUME IInv, NEW r \in Req, DeleteJobs(r), UNCHANGED workerVars
    PROVE  IInv'
<1>1. ReqOK /\ req[r].pc \in Step /\ DataTypeOK
  BY DEF IInv, TypeOK, ApiTypeOK, ReqOK, DeleteJobs, At, Step
<1>2. ReqOK' /\ req'[r].pc # "upgrade" /\ \A q \in Req \ {r} : req'[q] = req[q]
  BY <1>1, EndTickerLands DEF DeleteJobs
<1>3. UNCHANGED <<nextJob, registry, analysis, watch, told>>
  BY DEF DeleteJobs
<1>4. jobs' = [j \in JobId |->
                   IF j \in ActiveJobs(req[r].ticker)
                   THEN [jobs[j] EXCEPT !.status = "gone"]
                   ELSE jobs[j]]
  BY DEF DeleteJobs
<1>5. \A j \in JobId :
        /\ jobs'[j] \in Job
        /\ jobs'[j].mode = jobs[j].mode
        /\ \/ jobs'[j].status = jobs[j].status
           \/ jobs[j].status \in {"pending", "running"} /\ jobs'[j].status = "gone"
  BY <1>1, <1>4 DEF ActiveJobs, IsActive, DataTypeOK, Job, JobStatus
<1>6. TypeOK'
  BY <1>2, <1>3, <1>4, <1>5
     DEF IInv, TypeOK, DataTypeOK, ApiTypeOK, WorkerTypeOK, ReqOK, workerVars
<1>7. Inserted' /\ SeenJobs' /\ HeldOrFree'
  BY <1>2, <1>3, <1>5 DEF IInv, Inserted, SeenJobs, HeldOrFree, Executing,
                          HeldJobIsRunning, workerVars
<1>8. PromiseRecorded'
  BY <1>3, <1>5 DEF IInv, TypeOK, ApiTypeOK, PromiseRecorded
<1>9. QED
  BY <1>6, <1>7, <1>8 DEF IInv
-----------------------------------------------------------------------------
\* The steps of the worker.

\* A worker's step that leaves the queue's documents and what it holds alone.
LEMMA WorkerMoves ==
    ASSUME IInv, UNCHANGED <<jobs, nextJob, apiVars>>,
           WorkerTypeOK', HeldOrFree',
           registry' \in [Ticker -> RegistryStatus],
           analysis' \in [Ticker -> JobId \cup {0}],
           watch' \in [Ticker -> Pins]
    PROVE  IInv'
<1>1. TypeOK'
  BY DEF IInv, TypeOK, DataTypeOK, ApiTypeOK, apiVars
<1>2. Inserted' /\ SeenJobs' /\ PromiseRecorded'
  BY DEF IInv, Inserted, SeenJobs, PromiseRecorded, apiVars
<1>3. QED
  BY <1>1, <1>2 DEF IInv

LEMMA StartupIInv ==
    ASSUME IInv, Startup, UNCHANGED apiVars
    PROVE  IInv'
<1>1. DataTypeOK
  BY DEF IInv, TypeOK
<1>2. \A j \in JobId :
        /\ jobs'[j] \in Job
        /\ jobs'[j].mode = jobs[j].mode
        /\ \/ jobs'[j].status = jobs[j].status
           \/ jobs[j].status = "running" /\ jobs'[j].status = "pending"
  BY <1>1 DEF Startup, Stale, DataTypeOK, Job, JobStatus
<1>3. jobs' \in [JobId -> Job]
  BY <1>2 DEF Startup
<1>4. UNCHANGED <<nextJob, registry, analysis, watch, now, crashes, req, told>>
  BY DEF Startup, apiVars
<1>5. runner' = [pc |-> "idle", job |-> 0, mode |-> "delta"]
  BY DEF Startup, Resting
<1>6. TypeOK'
  BY <1>3, <1>4, <1>5
     DEF IInv, TypeOK, DataTypeOK, ApiTypeOK, WorkerTypeOK, RunnerStep
<1>7. Inserted' /\ SeenJobs'
  BY <1>2, <1>4 DEF IInv, Inserted, SeenJobs
<1>8. HeldOrFree'
  BY <1>5 DEF HeldOrFree, Executing
<1>9. PromiseRecorded'
  BY <1>2, <1>4 DEF IInv, TypeOK, ApiTypeOK, PromiseRecorded
<1>10. QED
  BY <1>6, <1>7, <1>8, <1>9 DEF IInv

LEMMA ClaimIInv ==
    ASSUME IInv, Claim, UNCHANGED apiVars
    PROVE  IInv'
<1>1. DataTypeOK /\ now \in 0..MaxNow
  BY DEF IInv, TypeOK, WorkerTypeOK
<1>2. PICK k \in JobId :
        /\ jobs[k].status = "pending"
        /\ jobs' = [jobs EXCEPT ![k].status = "running", ![k].started = now]
        /\ runner' = [pc |-> "crew", job |-> k, mode |-> jobs[k].mode]
  BY DEF Claim, Pending
<1>3. UNCHANGED <<nextJob, registry, analysis, watch, now, crashes, req, told>>
  BY DEF Claim, apiVars
<1>4. \A j \in JobId :
        /\ jobs'[j] \in Job
        /\ jobs'[j].mode = jobs[j].mode
        /\ j # k => jobs'[j].status = jobs[j].status
  <2>1. [jobs[k] EXCEPT !.status = "running", !.started = now] \in Job
    <3>1. jobs[k] \in Job /\ now \in Nat
      BY <1>1, WorkerAssumption DEF DataTypeOK
    <3>2. QED
      BY <3>1 DEF Job, JobStatus
  <2>2. [jobs[k] EXCEPT !.status = "running", !.started = now].mode = jobs[k].mode
    BY <1>1 DEF DataTypeOK, Job
  <2>3. jobs' = [jobs EXCEPT ![k] = [jobs[k] EXCEPT !.status = "running", !.started = now]]
    BY <1>1, <1>2 DEF DataTypeOK
  <2>4. QED
    BY <1>1, <2>1, <2>2, <2>3 DEF DataTypeOK
<1>5. jobs'[k].status = "running" /\ jobs[k].mode \in Mode
  BY <1>1, <1>2 DEF DataTypeOK, Job
<1>6. TypeOK'
  <2>1. jobs' \in [JobId -> Job]
    BY <1>1, <1>2, <1>4 DEF DataTypeOK
  <2>2. QED
    BY <1>2, <1>3, <1>5, <2>1
       DEF IInv, TypeOK, DataTypeOK, ApiTypeOK, WorkerTypeOK, RunnerStep
<1>7. Inserted' /\ SeenJobs'
  BY <1>2, <1>3, <1>4, <1>5 DEF IInv, Inserted, SeenJobs
<1>8. HeldOrFree'
  BY <1>2, <1>5 DEF HeldOrFree, Executing, HeldJobIsRunning
<1>9. PromiseRecorded'
  BY <1>2, <1>3, <1>4 DEF IInv, TypeOK, ApiTypeOK, PromiseRecorded
<1>10. QED
  BY <1>6, <1>7, <1>8, <1>9 DEF IInv

\* MarkDone, MarkFailed and MarkDelisted differ in the outcome only.
LEMMA CloseJobIInv ==
    ASSUME IInv, NEW s \in {"done", "failed", "delisted"}, Executing, CloseJob(s),
           UNCHANGED apiVars
    PROVE  IInv'
<1> DEFINE k == runner.job
<1>1. DataTypeOK /\ k \in JobId /\ jobs[k].status \in {"running", "gone"}
  BY DEF IInv, TypeOK, HeldOrFree, HeldJobIsRunning
<1>2. /\ jobs' = [jobs EXCEPT ![k].status = IF Exists(k) THEN s ELSE @]
      /\ runner' = [pc |-> "idle", job |-> 0, mode |-> "delta"]
      /\ UNCHANGED <<nextJob, registry, analysis, watch, now, crashes, req, told>>
  BY DEF CloseJob, Resting, apiVars
<1>3. \A j \in JobId :
        /\ jobs'[j] \in Job
        /\ jobs'[j].mode = jobs[j].mode
        /\ \/ jobs'[j].status = jobs[j].status
           \/ jobs[j].status = "running" /\ jobs'[j].status = s
  BY <1>1, <1>2 DEF Exists, DataTypeOK, Job, JobStatus
<1>4. TypeOK'
  <2>1. jobs' \in [JobId -> Job]
    BY <1>1, <1>2, <1>3 DEF DataTypeOK
  <2>2. QED
    BY <1>2, <2>1
       DEF IInv, TypeOK, DataTypeOK, ApiTypeOK, WorkerTypeOK, RunnerStep
<1>5. Inserted' /\ SeenJobs'
  BY <1>2, <1>3 DEF IInv, Inserted, SeenJobs
<1>6. HeldOrFree'
  BY <1>2 DEF HeldOrFree, Executing
<1>7. PromiseRecorded'
  BY <1>2, <1>3 DEF IInv, TypeOK, ApiTypeOK, PromiseRecorded
<1>8. QED
  BY <1>4, <1>5, <1>6, <1>7 DEF IInv

\* The steps inside a job that write other collections.
LEMMA WriteElsewhereIInv ==
    ASSUME IInv, WriteAnalysis \/ Delist \/ DelistPin, UNCHANGED apiVars
    PROVE  IInv'
<1> DEFINE k == runner.job
<1>1. Executing /\ DataTypeOK /\ WorkerTypeOK
  BY DEF IInv, TypeOK, WriteAnalysis, Delist, DelistPin, Executing
<1>2. k \in JobId /\ jobs[k].status \in {"running", "gone"} /\ jobs[k].ticker \in Ticker
  BY <1>1 DEF IInv, HeldOrFree, HeldJobIsRunning, DataTypeOK, Job
<1>3. UNCHANGED <<jobs, nextJob, now, crashes>>
  BY DEF WriteAnalysis, Delist, DelistPin
<1>4. PICK pc \in {"saved", "flag", "close"} : runner' = [runner EXCEPT !.pc = pc]
  BY DEF WriteAnalysis, Delist, DelistPin
<1>5. WorkerTypeOK' /\ HeldOrFree'
  BY <1>1, <1>2, <1>3, <1>4
     DEF WorkerTypeOK, RunnerStep, HeldOrFree, Executing, HeldJobIsRunning
<1>6. /\ registry' \in [Ticker -> RegistryStatus]
      /\ analysis' \in [Ticker -> JobId \cup {0}]
      /\ watch' \in [Ticker -> Pins]
  <2>1. CASE WriteAnalysis
    BY <1>1, <1>2, <2>1 DEF WriteAnalysis, DataTypeOK
  <2>2. CASE Delist
    <3>1. SetStatus(jobs[k].ticker, "removed_from_market")
      BY <2>2 DEF Delist
    <3>2. registry' \in [Ticker -> RegistryStatus]
      BY <1>1, <1>2, <3>1, StatusTypes DEF RegistryStatus
    <3>3. QED
      BY <1>1, <2>2, <3>2 DEF Delist, DataTypeOK
  <2>3. CASE DelistPin
    <3>1. watch' \in [Ticker -> Pins]
      BY <1>1, <1>2, <2>3, PinTypes DEF DelistPin
    <3>2. QED
      BY <1>1, <2>3, <3>1 DEF DelistPin, DataTypeOK
  <2>4. QED
    BY <2>1, <2>2, <2>3
<1>7. QED
  BY <1>3, <1>5, <1>6, WorkerMoves

LEMMA CrashOrTickIInv ==
    ASSUME IInv, Crash \/ Tick, UNCHANGED apiVars
    PROVE  IInv'
<1>1. DataTypeOK /\ WorkerTypeOK
  BY DEF IInv, TypeOK
<1>2. UNCHANGED <<jobs, nextJob, registry, analysis, watch>>
  BY DEF Crash, Tick, dataVars
<1>3. WorkerTypeOK' /\ HeldOrFree'
  BY <1>1, <1>2, WorkerAssumption
     DEF Crash, Tick, WorkerTypeOK, Resting, RunnerStep, IInv, HeldOrFree, Executing,
         HeldJobIsRunning
<1>4. QED
  BY <1>1, <1>2, <1>3, WorkerMoves DEF DataTypeOK

-----------------------------------------------------------------------------

LEMMA NextIInv == IInv /\ [Next]_vars => IInv'
<1> SUFFICES ASSUME IInv, [Next]_vars PROVE IInv'
  OBVIOUS
<1>1. CASE ApiNext /\ UNCHANGED workerVars
  <2>1. CASE PatchTicker \/ Unpin
    BY <1>1, <2>1, OneStepIInv
  <2>2. ASSUME NEW r \in Req, Arrive(r)
        PROVE  IInv'
    BY <1>1, <2>2, ArriveIInv
  <2>3. ASSUME NEW r \in Req, Serve(r)
        PROVE  IInv'
    BY <1>1, <2>3, ServeElsewhereIInv, FindExistingIInv, UpgradeIInv, InsertIInv,
       DeleteJobsIInv DEF Serve
  <2>4. QED
    BY <1>1, <2>1, <2>2, <2>3 DEF ApiNext
<1>2. CASE WorkerNext /\ UNCHANGED apiVars
  <2>1. CASE Startup
    BY <1>2, <2>1, StartupIInv
  <2>2. CASE Claim
    BY <1>2, <2>2, ClaimIInv
  <2>3. CASE WriteAnalysis \/ Delist \/ DelistPin
    BY <1>2, <2>3, WriteElsewhereIInv
  <2>4. CASE MarkDone
    BY <1>2, <2>4, CloseJobIInv DEF MarkDone, Executing
  <2>5. CASE MarkFailed
    BY <1>2, <2>5, CloseJobIInv DEF MarkFailed, Executing
  <2>6. CASE MarkDelisted
    BY <1>2, <2>6, CloseJobIInv DEF MarkDelisted, Executing
  <2>7. CASE Crash \/ Tick
    BY <1>2, <2>7, CrashOrTickIInv
  <2>8. QED
    BY <1>2, <2>1, <2>2, <2>3, <2>4, <2>5, <2>6, <2>7 DEF WorkerNext, Work
<1>3. CASE UNCHANGED vars
  BY <1>3 DEF vars, dataVars, apiVars, workerVars, IInv, TypeOK, DataTypeOK,
              ApiTypeOK, WorkerTypeOK, Inserted, SeenJobs, HeldOrFree, Executing,
              HeldJobIsRunning, PromiseRecorded
<1>4. QED
  BY <1>1, <1>2, <1>3 DEF Next

LEMMA InvariantHolds == Spec => []IInv
<1>1. QED
  BY InitIInv, NextIInv, PTL DEF Spec

\* The documents, the threads and the worker keep their types.
THEOREM TypeCorrect == Spec => []TypeOK
<1>1. IInv => TypeOK
  BY DEF IInv
<1>2. QED
  BY <1>1, InvariantHolds, PTL

\* Whatever clients send and whenever the process dies, the job the worker
\* executes is never claimable: no upgrade, recovery or delete makes it pending.
THEOREM HeldJobIsNeverReclaimed == Spec => []HeldJobIsRunning
<1>1. IInv => HeldJobIsRunning
  BY DEF IInv, HeldOrFree, HeldJobIsRunning
<1>2. QED
  BY <1>1, InvariantHolds, PTL

\* A job whose client was told "full" is full whenever it waits for a run, even
\* when the upgrade raced the claim and the job came back after a crash.
THEOREM PromiseIsKeptWhilePending == Spec => []PromiseKeptWhilePending
<1>1. IInv => PromiseKeptWhilePending
  BY DEF IInv, PromiseRecorded, PromiseKeptWhilePending
<1>2. QED
  BY <1>1, InvariantHolds, PTL
-----------------------------------------------------------------------------
(* The composition implements the abstract board, step by step.            *)

USE DEF Board!boardVars

LEMMA InitRefines == Init => Board!Init
<1> SUFFICES ASSUME Init PROVE Board!Init
  OBVIOUS
<1>1. PICK t \in Ticker : jobs = [j \in JobId |-> [ticker |-> t, status |-> "none",
                                          mode |-> "delta", started |-> 0]]
  BY DEF Init, DataInit
<1>2. HeldJob = 0
  BY DEF Init, WorkerInit, Resting, HeldJob, Executing
<1>3. QED
  BY <1>1, <1>2 DEF Board!Init

\* The steps that change neither a status, nor a mode, nor the job held.
LEMMA Stutters ==
    ASSUME UNCHANGED <<jobs, HeldJob>>
    PROVE  UNCHANGED Board!boardVars
  OBVIOUS

LEMMA UpgradeRefines ==
    ASSUME IInv, NEW r \in Req, Upgrade(r), UNCHANGED workerVars
    PROVE  [Board!Next]_(Board!boardVars)
<1> DEFINE s == req[r].job
<1>1. DataTypeOK /\ s \in JobId /\ s < nextJob
  BY MaxJobAssumption DEF IInv, TypeOK, SeenJobs, Upgrade, At, DataTypeOK
<1>2. jobs' = [jobs EXCEPT ![s].mode = IF Exists(s) THEN "full" ELSE @]
  BY DEF Upgrade
<1>3. UNCHANGED HeldJob
  BY DEF HeldJob, Executing, workerVars
<1>4. CASE Exists(s)
  <2>1. [j \in JobId |-> jobs'[j].status] = [j \in JobId |-> jobs[j].status]
    BY <1>1, <1>2 DEF DataTypeOK, Job
  <2>2. [j \in JobId |-> jobs'[j].mode] =
           [[j \in JobId |-> jobs[j].mode] EXCEPT ![s] = "full"]
    BY <1>1, <1>2, <1>4 DEF DataTypeOK, Job
  <2>3. PICK k \in JobId : k = s
    BY <1>1
  <2>4. Board!Raise(k)
    BY <1>1, <1>3, <1>4, <2>1, <2>2, <2>3 DEF Board!Raise, Exists
  <2>5. QED
    BY <2>4 DEF Board!Next
<1>5. CASE ~Exists(s)
  <2>1. UNCHANGED jobs
    BY <1>1, <1>2, <1>5 DEF DataTypeOK, Job
  <2>2. QED
    BY <1>3, <2>1, Stutters
<1>6. QED
  BY <1>4, <1>5

LEMMA InsertRefines ==
    ASSUME IInv, NEW r \in Req, Insert(r), UNCHANGED workerVars
    PROVE  [Board!Next]_(Board!boardVars)
<1> USE MaxJobAssumption
<1>1. DataTypeOK /\ ReqOK /\ req[r].pc \in Step
  BY DEF IInv, TypeOK, ApiTypeOK, ReqOK, Insert, At, Step
<1>2. req[r].mode \in Mode
  BY <1>1, BusyAtStep DEF Busy
<1>3. /\ nextJob \in JobId
      /\ jobs' = [jobs EXCEPT ![nextJob] =
                     [ticker |-> req[r].ticker, status |-> "pending",
                      mode |-> req[r].mode, started |-> 0]]
  BY DEF Insert, InsertJob
<1>4. jobs[nextJob].status = "none"
  BY <1>1, <1>3 DEF IInv, Inserted, DataTypeOK
<1>5. UNCHANGED HeldJob
  BY DEF HeldJob, Executing, workerVars
<1>6. [j \in JobId |-> jobs'[j].status] =
         [[j \in JobId |-> jobs[j].status] EXCEPT ![nextJob] = "pending"]
  BY <1>1, <1>3 DEF DataTypeOK
<1>7. [j \in JobId |-> jobs'[j].mode] =
         [[j \in JobId |-> jobs[j].mode] EXCEPT ![nextJob] = req[r].mode]
  BY <1>1, <1>3 DEF DataTypeOK
<1>8. PICK k \in JobId, m \in Mode : k = nextJob /\ m = req[r].mode
  BY <1>2, <1>3
<1>9. Board!Post(k, m)
  BY <1>3, <1>4, <1>5, <1>6, <1>7, <1>8 DEF Board!Post
<1>10. QED
  BY <1>9 DEF Board!Next

LEMMA DeleteJobsRefines ==
    ASSUME IInv, NEW r \in Req, DeleteJobs(r), UNCHANGED workerVars
    PROVE  [Board!Next]_(Board!boardVars)
<1> DEFINE S == ActiveJobs(req[r].ticker)
<1>1. DataTypeOK
  BY DEF IInv, TypeOK
<1>2. jobs' = [j \in JobId |->
                 IF j \in S THEN [jobs[j] EXCEPT !.status = "gone"] ELSE jobs[j]]
  BY DEF DeleteJobs
<1>3. [j \in JobId |-> jobs'[j].status] =
         [j \in JobId |-> IF j \in S THEN "gone"
                           ELSE [k \in JobId |-> jobs[k].status][j]]
  BY <1>1, <1>2 DEF DataTypeOK, Job
<1>4. [j \in JobId |-> jobs'[j].mode] = [j \in JobId |-> jobs[j].mode]
  BY <1>1, <1>2 DEF DataTypeOK, Job
<1>5. S \in SUBSET {j \in JobId :
                      [k \in JobId |-> jobs[k].status][j] \in {"pending", "running"}}
  BY DEF ActiveJobs, IsActive
<1>6. UNCHANGED HeldJob
  BY DEF HeldJob, Executing, workerVars
<1>7. Board!Withdraw
  BY <1>3, <1>4, <1>5, <1>6 DEF Board!Withdraw
<1>8. QED
  BY <1>7 DEF Board!Next

LEMMA StartupRefines ==
    ASSUME IInv, Startup
    PROVE  [Board!Next]_(Board!boardVars)
<1> DEFINE S == {j \in JobId : Stale(j)}
<1>1. DataTypeOK
  BY DEF IInv, TypeOK
<1>2. jobs' = [j \in JobId |->
                 IF j \in S THEN [jobs[j] EXCEPT !.status = "pending"] ELSE jobs[j]]
  BY DEF Startup
<1>3. HeldJob = 0 /\ HeldJob' = 0
  BY DEF Startup, Resting, HeldJob, Executing
<1>4. [j \in JobId |-> jobs'[j].status] =
         [j \in JobId |-> IF j \in S THEN "pending"
                           ELSE [k \in JobId |-> jobs[k].status][j]]
  BY <1>1, <1>2 DEF DataTypeOK, Job
<1>5. [j \in JobId |-> jobs'[j].mode] = [j \in JobId |-> jobs[j].mode]
  BY <1>1, <1>2 DEF DataTypeOK, Job
<1>6. S \in SUBSET {j \in JobId :
                      [k \in JobId |-> jobs[k].status][j] = "running" /\ j # HeldJob}
  BY <1>3 DEF Stale
<1>7. Board!Requeue
  BY <1>3, <1>4, <1>5, <1>6 DEF Board!Requeue
<1>8. QED
  BY <1>7 DEF Board!Next

LEMMA ClaimRefines ==
    ASSUME IInv, Claim
    PROVE  [Board!Next]_(Board!boardVars)
<1>1. DataTypeOK
  BY DEF IInv, TypeOK
<1>2. PICK k \in JobId :
        /\ jobs[k].status = "pending"
        /\ jobs' = [jobs EXCEPT ![k].status = "running", ![k].started = now]
        /\ runner' = [pc |-> "crew", job |-> k, mode |-> jobs[k].mode]
  BY DEF Claim, Pending
<1>3. HeldJob = 0 /\ HeldJob' = k
  BY <1>2 DEF Claim, HeldJob, Executing
<1>4. [j \in JobId |-> jobs'[j].status] =
         [[j \in JobId |-> jobs[j].status] EXCEPT ![k] = "running"]
  BY <1>1, <1>2 DEF DataTypeOK, Job
<1>5. [j \in JobId |-> jobs'[j].mode] = [j \in JobId |-> jobs[j].mode]
  BY <1>1, <1>2 DEF DataTypeOK, Job
<1>6. Board!Take(k)
  BY <1>2, <1>3, <1>4, <1>5 DEF Board!Take
<1>7. QED
  BY <1>6 DEF Board!Next

LEMMA CloseJobRefines ==
    ASSUME IInv, NEW s \in {"done", "failed", "delisted"}, Executing, CloseJob(s)
    PROVE  [Board!Next]_(Board!boardVars)
<1> DEFINE k == runner.job
           status == [j \in JobId |-> jobs[j].status]
<1>1. DataTypeOK /\ k \in JobId /\ jobs[k].status \in {"running", "gone"}
  BY DEF IInv, TypeOK, HeldOrFree, HeldJobIsRunning
<1>2. jobs' = [jobs EXCEPT ![k].status = IF Exists(k) THEN s ELSE @]
  BY DEF CloseJob
<1>3. HeldJob = k /\ HeldJob' = 0 /\ k # 0
  BY <1>1, MaxJobAssumption DEF CloseJob, Resting, HeldJob, Executing
<1>4. [j \in JobId |-> jobs'[j].mode] = [j \in JobId |-> jobs[j].mode]
  BY <1>1, <1>2 DEF DataTypeOK, Job
<1>5. CASE jobs[k].status = "running"
  <2>1. [j \in JobId |-> jobs'[j].status] = [status EXCEPT ![k] = s]
    BY <1>1, <1>2, <1>5 DEF DataTypeOK, Job, Exists
  <2>2. Board!Finish
    BY <1>1, <1>3, <1>4, <1>5, <2>1 DEF Board!Finish
  <2>3. QED
    BY <2>2 DEF Board!Next
<1>6. CASE jobs[k].status = "gone"
  <2>1. [j \in JobId |-> jobs'[j].status] = status
    BY <1>1, <1>2, <1>6 DEF DataTypeOK, Job, Exists
  <2>2. Board!Finish
    BY <1>1, <1>3, <1>4, <1>6, <2>1 DEF Board!Finish
  <2>3. QED
    BY <2>2 DEF Board!Next
<1>7. QED
  BY <1>1, <1>5, <1>6

LEMMA CrashRefines ==
    ASSUME IInv, Crash
    PROVE  [Board!Next]_(Board!boardVars)
<1>1. UNCHANGED jobs /\ HeldJob' = 0
  BY DEF Crash, dataVars, Resting, HeldJob, Executing
<1>2. CASE HeldJob = 0
  BY <1>1, <1>2, Stutters
<1>3. CASE HeldJob # 0
  <2>1. Board!Abandon
    BY <1>1, <1>3 DEF Board!Abandon
  <2>2. QED
    BY <2>1 DEF Board!Next
<1>4. QED
  BY <1>2, <1>3

LEMMA NextRefines == IInv /\ [Next]_vars => [Board!Next]_(Board!boardVars)
<1> SUFFICES ASSUME IInv, [Next]_vars PROVE [Board!Next]_(Board!boardVars)
  OBVIOUS
<1>1. CASE ApiNext /\ UNCHANGED workerVars
  <2>1. UNCHANGED HeldJob
    BY <1>1 DEF HeldJob, Executing, workerVars
  <2>2. CASE UNCHANGED jobs
    BY <2>1, <2>2, Stutters
  <2>3. CASE \E r \in Req : Upgrade(r) \/ Insert(r) \/ DeleteJobs(r)
    BY <1>1, <2>3, UpgradeRefines, InsertRefines, DeleteJobsRefines
  <2>4. QED
    BY <1>1, <2>2, <2>3
       DEF ApiNext, PatchTicker, Unpin, Arrive, PostQueue, PostQueueAll, PostAnalyze,
           PostBulk, PostOne, Serve, Lookup, Reactivate, RegisterTicker, FindExisting,
           InsertPin, Unregister, DeleteAnalyses, DeletePin, dataVars
<1>2. CASE WorkerNext /\ UNCHANGED apiVars
  <2>1. CASE Startup
    BY <2>1, StartupRefines
  <2>2. CASE Claim
    BY <2>2, ClaimRefines
  <2>3. CASE WriteAnalysis \/ Delist \/ DelistPin
    <3>1. Executing /\ Executing' /\ UNCHANGED jobs /\ runner'.job = runner.job
      BY <2>3 DEF IInv, TypeOK, WorkerTypeOK, WriteAnalysis, Delist, DelistPin, Executing
    <3>2. QED
      BY <3>1, Stutters DEF HeldJob
  <2>4. CASE MarkDone
    BY <2>4, CloseJobRefines DEF MarkDone, Executing
  <2>5. CASE MarkFailed
    BY <2>5, CloseJobRefines DEF MarkFailed, Executing
  <2>6. CASE MarkDelisted
    BY <2>6, CloseJobRefines DEF MarkDelisted, Executing
  <2>7. CASE Crash
    BY <2>7, CrashRefines
  <2>8. CASE Tick
    BY <2>8, Stutters DEF Tick, dataVars, HeldJob, Executing
  <2>9. QED
    BY <1>2, <2>1, <2>2, <2>3, <2>4, <2>5, <2>6, <2>7, <2>8 DEF WorkerNext, Work
<1>3. CASE UNCHANGED vars
  BY <1>3, Stutters DEF vars, dataVars, apiVars, workerVars, HeldJob, Executing
<1>4. QED
  BY <1>1, <1>2, <1>3 DEF Next

\* The handlers and the worker together keep the board's promise: jobs are
\* posted once, executed one at a time, handed back only while nobody executes
\* them, finished only by their executor, final once finished, and raised to
\* "full" but never lowered.
THEOREM ImplementsBoard == Spec => BoardSpec
<1>1. Init => Board!Init
  BY InitRefines
<1>2. QED
  BY <1>1, NextRefines, InvariantHolds, PTL DEF Spec, BoardSpec, Board!Spec
-----------------------------------------------------------------------------
(* When requests are served one at a time, the check-then-insert of the    *)
(* handlers is enough: the serial theorems assume a single thread.         *)

\* Nothing comes between the check that found no active job and the insert.
CheckStillHolds ==
    \A r \in Req : req[r].pc = "insert" => ActiveJobs(req[r].ticker) = {}

SerialInv == OneActivePerTicker /\ CheckStillHolds

LEMMA InitSerial == Init => SerialInv
<1> SUFFICES ASSUME Init PROVE SerialInv
  OBVIOUS
<1>1. \A j \in JobId : jobs[j].status = "none"
  <2>1. PICK t \in Ticker : jobs = [j \in JobId |-> [ticker |-> t, status |-> "none",
                                            mode |-> "delta", started |-> 0]]
    BY DEF Init, DataInit
  <2>2. QED
    BY <2>1
<1>2. \A t \in Ticker : ActiveJobs(t) = {}
  BY <1>1 DEF ActiveJobs, IsActive
<1>3. \A r \in Req : req[r].pc # "insert"
  BY DEF Init, ApiInit, Idle
<1>4. QED
  BY <1>2, <1>3 DEF SerialInv, OneActivePerTicker, CheckStillHolds

\* The steps after which no ticker has an active job it did not have before.
LEMMA NoNewActiveJob ==
    ASSUME IInv, SerialInv,
           \A j \in JobId : /\ jobs'[j].ticker = jobs[j].ticker
                            /\ IsActive(j)' => IsActive(j),
           \A r \in Req : req'[r].pc = "insert" =>
                              ActiveJobs(req'[r].ticker) = {}
    PROVE  SerialInv'
<1>1. \A t : ActiveJobs(t)' \subseteq ActiveJobs(t)
  BY DEF ActiveJobs
<1>2. OneActivePerTicker'
  BY <1>1 DEF SerialInv, OneActivePerTicker
<1>3. CheckStillHolds'
  <2> SUFFICES ASSUME NEW r \in Req, req'[r].pc = "insert"
               PROVE  ActiveJobs(req[r].ticker)' = {}
    BY DEF CheckStillHolds
  <2>1. PICK t : t = req'[r].ticker
    OBVIOUS
  <2>2. ActiveJobs(t) = {}
    BY <2>1
  <2>3. ActiveJobs(t)' = {}
    BY <1>1, <2>2
  <2>4. QED
    BY <2>1, <2>3 DEF ActiveJobs
<1>4. QED
  BY <1>2, <1>3 DEF SerialInv

LEMMA InsertSerial ==
    ASSUME IInv, SerialInv, NEW r0, Req = {r0}, Insert(r0)
    PROVE  SerialInv'
<1> USE MaxJobAssumption
<1> DEFINE u == req[r0].ticker
<1>1. DataTypeOK /\ ReqOK /\ req[r0].pc = "insert" /\ req[r0].pc \in Step
  BY DEF IInv, TypeOK, ApiTypeOK, ReqOK, Insert, At, Step
<1>2. ActiveJobs(u) = {}
  BY <1>1 DEF SerialInv, CheckStillHolds
<1>3. req'[r0].pc # "insert"
  BY <1>1, EndTickerLands DEF Insert
<1>4. /\ nextJob \in JobId
      /\ jobs' = [jobs EXCEPT ![nextJob] =
                     [ticker |-> u, status |-> "pending",
                      mode |-> req[r0].mode, started |-> 0]]
  BY DEF Insert, InsertJob
<1>5. \A j \in JobId \ {nextJob} : jobs'[j] = jobs[j]
  BY <1>1, <1>4 DEF DataTypeOK
<1>6. jobs'[nextJob].ticker = u
  BY <1>1, <1>4 DEF DataTypeOK
<1>7. OneActivePerTicker'
  <2> SUFFICES ASSUME NEW t \in Ticker, NEW j \in ActiveJobs(t)', NEW k \in ActiveJobs(t)'
               PROVE  j = k
    BY DEF OneActivePerTicker
  <2>1. j \in JobId /\ k \in JobId
    BY DEF ActiveJobs
  <2>2. ASSUME NEW i \in ActiveJobs(t)', i # nextJob
        PROVE  i \in ActiveJobs(t)
    BY <1>5, <2>2 DEF ActiveJobs, IsActive
  <2>3. ASSUME NEW i \in ActiveJobs(t)', i # nextJob
        PROVE  t # u
    BY <1>2, <2>2, <2>3
  <2>4. CASE j = nextJob \/ k = nextJob
    <3>1. t = u
      BY <1>6, <2>4 DEF ActiveJobs
    <3>2. QED
      BY <2>3, <3>1
  <2>5. CASE j # nextJob /\ k # nextJob
    BY <2>2, <2>5 DEF SerialInv, OneActivePerTicker
  <2>6. QED
    BY <2>4, <2>5
<1>8. CheckStillHolds'
  BY <1>3 DEF CheckStillHolds
<1>9. QED
  BY <1>7, <1>8 DEF SerialInv

LEMMA NextSerial ==
    ASSUME NEW r0, Req = {r0}, IInv, SerialInv, [Next]_vars
    PROVE  SerialInv'
<1>1. DataTypeOK /\ ReqOK
  BY DEF IInv, TypeOK, ApiTypeOK, ReqOK
<1> DEFINE SameTickers == \A j \in JobId : /\ jobs'[j].ticker = jobs[j].ticker
                                           /\ IsActive(j)' => IsActive(j)
           Checked == \A r \in Req : req'[r].pc = "insert" =>
                                         ActiveJobs(req'[r].ticker) = {}
<1>2. ASSUME UNCHANGED jobs PROVE SameTickers
  BY <1>2 DEF IsActive
<1>3. ASSUME UNCHANGED req PROVE Checked
  BY <1>3 DEF SerialInv, CheckStillHolds
<1>4. ASSUME req'[r0].pc # "insert" PROVE Checked
  BY <1>4
<1>5. CASE ApiNext /\ UNCHANGED workerVars
  <2>1. CASE PatchTicker \/ Unpin
    BY <1>2, <1>3, <2>1, NoNewActiveJob DEF PatchTicker, Unpin, apiVars
  <2>2. CASE Arrive(r0)
    <3>1. PICK op \in Ops, ts \in SUBSET Ticker, m \in Mode : Start(r0, op, ts, m)
      BY <2>2 DEF Arrive, PostQueue, PostQueueAll, PostAnalyze, PostBulk, PostOne,
                  ActiveUniverse
    <3>2. req'[r0].pc # "insert"
      BY <1>1, <3>1, StartLands
    <3>3. UNCHANGED jobs
      BY <2>2 DEF Arrive, PostQueue, PostQueueAll, PostAnalyze, PostBulk, PostOne, dataVars
    <3>4. QED
      BY <1>2, <1>4, <3>2, <3>3, NoNewActiveJob
  <2>3. CASE /\ req[r0].pc \in Step
             /\ EndTicker(r0) \/ \E pc \in Step \ {"insert"} : Goto(r0, pc)
             /\ SameTickers
    <3>1. req'[r0].pc # "insert"
      BY <1>1, <2>3, EndTickerLands, GotoLands
    <3>2. QED
      BY <1>4, <2>3, <3>1, NoNewActiveJob
  <2>4. CASE \/ Lookup(r0) \/ Reactivate(r0) \/ RegisterTicker(r0) \/ InsertPin(r0)
             \/ Unregister(r0) \/ DeleteAnalyses(r0) \/ DeletePin(r0)
    <3>1. UNCHANGED jobs
      BY <2>4 DEF Lookup, Reactivate, RegisterTicker, InsertPin, Unregister,
                  DeleteAnalyses, DeletePin, dataVars
    <3>2. req[r0].pc \in Step
      BY <2>4 DEF Lookup, Reactivate, RegisterTicker, InsertPin, Unregister,
                  DeleteAnalyses, DeletePin, At, Step
    <3>3. EndTicker(r0) \/ \E pc \in Step \ {"insert"} : Goto(r0, pc)
      BY <2>4 DEF Lookup, Reactivate, RegisterTicker, InsertPin, Unregister,
                  DeleteAnalyses, DeletePin, Step
    <3>4. QED
      BY <1>2, <2>3, <3>1, <3>2, <3>3
  <2>5. CASE FindExisting(r0)
    <3>1. UNCHANGED jobs /\ req[r0].pc \in Step
      BY <2>5 DEF FindExisting, dataVars, At, Step
    <3>2. req[r0] \in Busy
      BY <1>1, <3>1, BusyAtStep
    <3>3. CASE ActiveJobs(req[r0].ticker) = {} /\ Goto(r0, "insert")
      <4>1. req'[r0].ticker = req[r0].ticker
        BY <1>1, <3>2, <3>3 DEF Goto, ReqOK, Busy
      <4>2. Checked
        BY <3>3, <4>1
      <4>3. QED
        BY <1>2, <3>1, <4>2, NoNewActiveJob
    <3>4. CASE EndTicker(r0)
      BY <1>2, <2>3, <3>1, <3>4
    <3>5. CASE \E j : req' = [req EXCEPT ![r0].pc = "upgrade", ![r0].job = j]
      <4>1. req'[r0].pc # "insert"
        BY <1>1, <3>2, <3>5 DEF ReqOK, Busy
      <4>2. QED
        BY <1>2, <1>4, <3>1, <4>1, NoNewActiveJob
    <3>6. QED
      BY <2>5, <3>3, <3>4, <3>5 DEF FindExisting
  <2>6. CASE Upgrade(r0)
    <3>1. SameTickers
      <4>1. req[r0].job \in JobId
        BY <1>1, <2>6, MaxJobAssumption DEF IInv, SeenJobs, Upgrade, At, DataTypeOK
      <4>2. QED
        BY <1>1, <2>6, <4>1 DEF Upgrade, DataTypeOK, Job, IsActive
    <3>2. QED
      BY <2>3, <2>6, <3>1 DEF Upgrade, At, Step
  <2>7. CASE Insert(r0)
    BY <2>7, InsertSerial
  <2>8. CASE DeleteJobs(r0)
    <3>1. SameTickers
      BY <1>1, <2>8 DEF DeleteJobs, DataTypeOK, Job, IsActive
    <3>2. QED
      BY <2>3, <2>8, <3>1 DEF DeleteJobs, At, Step
  <2>9. QED
    BY <1>5, <2>1, <2>2, <2>4, <2>5, <2>6, <2>7, <2>8 DEF ApiNext, Serve
<1>6. CASE WorkerNext /\ UNCHANGED apiVars
  <2>1. SameTickers
    <3>1. CASE Startup
      BY <1>1, <3>1 DEF Startup, Stale, DataTypeOK, Job, IsActive
    <3>2. CASE Claim
      <4>1. PICK k \in JobId :
              /\ jobs[k].status = "pending"
              /\ jobs' = [jobs EXCEPT ![k].status = "running", ![k].started = now]
        BY <3>2 DEF Claim, Pending
      <4>2. QED
        BY <1>1, <4>1 DEF DataTypeOK, Job, IsActive
    <3>3. ASSUME NEW s \in {"done", "failed", "delisted"}, CloseJob(s), Executing
          PROVE  SameTickers
      <4>1. runner.job \in JobId
        BY <3>3 DEF IInv, HeldOrFree, HeldJobIsRunning
      <4>2. QED
        BY <1>1, <3>3, <4>1 DEF CloseJob, DataTypeOK, Job, IsActive
    <3>4. CASE MarkDone \/ MarkFailed \/ MarkDelisted
      BY <3>3, <3>4 DEF MarkDone, MarkFailed, MarkDelisted, Executing
    <3>5. CASE UNCHANGED jobs
      BY <1>2, <3>5
    <3>6. QED
      BY <1>6, <3>1, <3>2, <3>4, <3>5
         DEF WorkerNext, Work, WriteAnalysis, Delist, DelistPin, Crash, Tick, dataVars
  <2>2. QED
    BY <1>3, <1>6, <2>1, NoNewActiveJob DEF apiVars
<1>7. CASE UNCHANGED vars
  BY <1>2, <1>3, <1>7, NoNewActiveJob DEF vars, dataVars, apiVars
<1>8. QED
  BY <1>5, <1>6, <1>7 DEF Next

LEMMA SerialHolds ==
    ASSUME NEW r0, Req = {r0}
    PROVE  Spec => []SerialInv
<1>1. IInv /\ SerialInv /\ [Next]_vars => SerialInv'
  BY NextSerial
<1>2. QED
  BY <1>1, InitSerial, InvariantHolds, PTL DEF Spec

\* Served one request at a time, POST /queue is idempotent: a ticker never has
\* two active jobs, however often the worker dies and hands its job back.
THEOREM SerialRequestsNeverDuplicate ==
    ASSUME NEW r0, Req = {r0}
    PROVE  Spec => []OneActivePerTicker
<1>1. SerialInv => OneActivePerTicker
  BY DEF SerialInv
<1>2. QED
  BY <1>1, SerialHolds, PTL

-----------------------------------------------------------------------------
(* What a deleted ticker leaves behind, requests being served one at a     *)
(* time: a ticker out of the registry has neither work nor pin, but while  *)
(* the request that took it out is still clearing them.                    *)

PinCount(t) == watch[t].active + watch[t].removed
Clean(t) == ActiveJobs(t) = {} /\ ~HasPin(t)
Clearing == {"analyses", "unpin", "dequeue"}

\* What a thread knows at each of its steps.
Knows(r) ==
    /\ req[r].pc \in {"find", "upgrade", "insert", "pin"} => registry[req[r].ticker] # "absent"
    /\ req[r].pc \in {"dequeue", "pin"} => ~HasPin(req[r].ticker)
    /\ req[r].pc = "register" /\ req[r].op = "pin" => ~HasPin(req[r].ticker)
    /\ req[r].pc = "reactivate" => req[r].op # "pin"

Cleared(r, t) ==
    registry[t] = "absent" => Clean(t) \/ (req[r].pc \in Clearing /\ req[r].ticker = t)

TrackedInv ==
    /\ \A r \in Req : Knows(r) /\ \A t \in Ticker : Cleared(r, t)
    /\ \A t \in Ticker : PinCount(t) <= 1

\* A thread that starts on a ticker knows nothing of it yet.
Fresh(q) == q.pc \in {"idle", "lookup", "unregister"} \/ (q.pc = "register" /\ q.op # "pin")

LEMMA StartIsFresh ==
    ASSUME ReqOK, NEW r \in Req, NEW op \in Ops, NEW ts \in SUBSET Ticker,
           NEW m \in Mode, Start(r, op, ts, m)
    PROVE  Fresh(req'[r])
<1>1. PICK t \in ts :
        req' = [req EXCEPT ![r] = [op |-> op, pc |-> FirstStep(op), ticker |-> t,
                                   todo |-> ts \ {t}, mode |-> m, job |-> 0]]
  BY DEF Start
<1>2. req'[r].pc = FirstStep(op) /\ req'[r].op = op
  BY <1>1 DEF ReqOK
<1> QED  BY <1>2 DEF Fresh, FirstStep

LEMMA EndTickerIsFresh ==
    ASSUME ReqOK, NEW r \in Req, req[r].pc \in Step, EndTicker(r)
    PROVE  Fresh(req'[r])
<1>1. CASE req[r].todo = {}
  BY <1>1 DEF EndTicker, ReqOK, Idle, Fresh
<1>2. CASE req[r].todo # {}
  <2>1. req[r] \in Busy
    BY BusyAtStep
  <2>2. req[r].op \in Ops /\ req[r].todo \in SUBSET Ticker /\ req[r].mode \in Mode
    BY <2>1 DEF Busy
  <2>3. Start(r, req[r].op, req[r].todo, req[r].mode)
    BY <1>2 DEF EndTicker
  <2> QED  BY <2>2, <2>3, StartIsFresh
<1> QED  BY <1>1, <1>2

\* Only a handler's insert gives a ticker work.
LEMMA OnlyInsertAddsWork ==
    ASSUME IInv, [Next]_vars, \A r \in Req : ~Insert(r)
    PROVE  \A t \in Ticker : ActiveJobs(t)' \subseteq ActiveJobs(t)
<1>1. DataTypeOK /\ ReqOK
  BY DEF IInv, TypeOK, ApiTypeOK, ReqOK
<1> DEFINE NoMore == \A j \in JobId : /\ jobs'[j].ticker = jobs[j].ticker
                                      /\ IsActive(j)' => IsActive(j)
<1>2. NoMore => \A t \in Ticker : ActiveJobs(t)' \subseteq ActiveJobs(t)
  BY DEF ActiveJobs
<1>3. CASE UNCHANGED jobs
  BY <1>2, <1>3 DEF IsActive
<1>4. CASE \E r \in Req : Upgrade(r)
  <2>1. PICK r \in Req : Upgrade(r)
    BY <1>4
  <2>2. req[r].job \in JobId
    BY <1>1, <2>1, MaxJobAssumption DEF IInv, SeenJobs, Upgrade, At, DataTypeOK
  <2>3. NoMore
    BY <1>1, <2>1, <2>2 DEF Upgrade, DataTypeOK, Job, IsActive
  <2> QED  BY <1>2, <2>3
<1>5. CASE \E r \in Req : DeleteJobs(r)
  <2>1. NoMore
    BY <1>1, <1>5 DEF DeleteJobs, DataTypeOK, Job, IsActive
  <2> QED  BY <1>2, <2>1
<1>6. CASE Startup
  <2>1. NoMore
    BY <1>1, <1>6 DEF Startup, Stale, DataTypeOK, Job, IsActive
  <2> QED  BY <1>2, <2>1
<1>7. CASE Claim
  <2>1. PICK k \in JobId :
          /\ jobs[k].status = "pending"
          /\ jobs' = [jobs EXCEPT ![k].status = "running", ![k].started = now]
    BY <1>7 DEF Claim, Pending
  <2>2. NoMore
    BY <1>1, <2>1 DEF DataTypeOK, Job, IsActive
  <2> QED  BY <1>2, <2>2
<1>8. CASE MarkDone \/ MarkFailed \/ MarkDelisted
  <2>1. PICK s \in {"done", "failed", "delisted"} : CloseJob(s) /\ Executing
    BY <1>8 DEF MarkDone, MarkFailed, MarkDelisted, Executing
  <2>2. runner.job \in JobId
    BY <2>1 DEF IInv, HeldOrFree, HeldJobIsRunning
  <2>3. NoMore
    BY <1>1, <2>1, <2>2 DEF CloseJob, DataTypeOK, Job, IsActive
  <2> QED  BY <1>2, <2>3
<1>9. CASE ApiNext /\ UNCHANGED workerVars
  <2>1. \/ UNCHANGED jobs
        \/ \E r \in Req : Upgrade(r) \/ DeleteJobs(r)
    BY <1>9 DEF ApiNext, PatchTicker, Unpin, Arrive, PostQueue, PostQueueAll, PostAnalyze,
           PostBulk, PostOne, Serve, Lookup, Reactivate, RegisterTicker, FindExisting,
           InsertPin, Unregister, DeleteAnalyses, DeletePin, dataVars
  <2> QED  BY <1>3, <1>4, <1>5, <2>1
<1>10. CASE WorkerNext /\ UNCHANGED apiVars
  BY <1>3, <1>6, <1>7, <1>8, <1>10
     DEF WorkerNext, Work, WriteAnalysis, Delist, DelistPin, Crash, Tick, dataVars
<1> QED  BY <1>3, <1>9, <1>10 DEF Next, vars, dataVars

\* No pin comes but from the handler that adds one.
LEMMA PinsOnlyGo ==
    ASSUME DataTypeOK, NEW t \in Ticker, DropPin(t) \/ FlagPin(t) \/ UNCHANGED watch
    PROVE  \A u \in Ticker : PinCount(u)' <= PinCount(u)
<1>1. \A u \in Ticker : watch[u].active \in Nat /\ watch[u].removed \in Nat
  BY DEF DataTypeOK, Pins
<1>2. CASE UNCHANGED watch
  BY <1>1, <1>2 DEF PinCount
<1>3. CASE watch[t].active > 0 /\ watch' = [watch EXCEPT ![t].active = @ - 1]
  BY <1>1, <1>3 DEF PinCount, DataTypeOK, Pins
<1>4. CASE watch[t].removed > 0 /\ watch' = [watch EXCEPT ![t].removed = @ - 1]
  BY <1>1, <1>4 DEF PinCount, DataTypeOK, Pins
<1>5. CASE /\ watch[t].active > 0
           /\ watch' = [watch EXCEPT ![t].active = @ - 1, ![t].removed = @ + 1]
  BY <1>1, <1>5 DEF PinCount, DataTypeOK, Pins
<1> QED  BY <1>2, <1>3, <1>4, <1>5 DEF DropPin, FlagPin

LEMMA DropOfOneLeavesNone ==
    ASSUME DataTypeOK, NEW t \in Ticker, PinCount(t) <= 1, DropPin(t)
    PROVE  PinCount(t)' = 0
<1>1. watch[t].active \in Nat /\ watch[t].removed \in Nat
  BY DEF DataTypeOK, Pins
<1>2. CASE ~HasPin(t) /\ UNCHANGED watch
  BY <1>1, <1>2 DEF PinCount, HasPin
<1>3. CASE watch[t].active > 0 /\ watch' = [watch EXCEPT ![t].active = @ - 1]
  <2>1. watch[t].active = 1 /\ watch[t].removed = 0
    BY <1>1, <1>3 DEF PinCount
  <2> QED  BY <1>3, <2>1 DEF PinCount, DataTypeOK, Pins
<1>4. CASE watch[t].removed > 0 /\ watch' = [watch EXCEPT ![t].removed = @ - 1]
  <2>1. watch[t].active = 0 /\ watch[t].removed = 1
    BY <1>1, <1>4 DEF PinCount
  <2> QED  BY <1>4, <2>1 DEF PinCount, DataTypeOK, Pins
<1> QED  BY <1>2, <1>3, <1>4 DEF DropPin

LEMMA InitTracked == Init => TrackedInv
<1> SUFFICES ASSUME Init PROVE TrackedInv
  OBVIOUS
<1>1. \A r \in Req : req[r] = Idle
  BY DEF Init, ApiInit
<1>2. \A t \in Ticker : watch[t] = [active |-> 0, removed |-> 0]
  BY DEF Init, DataInit
<1>3. \A t \in Ticker : PinCount(t) = 0 /\ ~HasPin(t)
  BY <1>2 DEF PinCount, HasPin
<1>4. \A j \in JobId : jobs[j].status = "none"
  <2>1. PICK t \in Ticker : jobs = [j \in JobId |-> [ticker |-> t, status |-> "none",
                                            mode |-> "delta", started |-> 0]]
    BY DEF Init, DataInit
  <2> QED  BY <2>1
<1>5. \A t \in Ticker : ActiveJobs(t) = {}
  BY <1>4 DEF ActiveJobs, IsActive
<1>6. \A r \in Req : Knows(r)
  BY <1>1 DEF Knows, Idle
<1> QED  BY <1>3, <1>5, <1>6 DEF TrackedInv, Cleared, Clean

LEMMA PinsAreCounted ==
    ASSUME DataTypeOK
    PROVE  \A t \in Ticker : PinCount(t) \in Nat /\ (HasPin(t) <=> PinCount(t) > 0)
  BY DEF DataTypeOK, Pins, PinCount, HasPin

\* A step that adds nothing to a ticker that is out of the registry.
LEMMA NothingAdded ==
    ASSUME IInv, IInv', TrackedInv, NEW r \in Req, NEW t \in Ticker,
           registry'[t] = "absent" =>
              /\ registry[t] = "absent"
              /\ PinCount(t)' <= PinCount(t) /\ ActiveJobs(t)' \subseteq ActiveJobs(t),
           req[r].pc \in Clearing /\ req[r].ticker = t =>
              req'[r].pc \in Clearing /\ req'[r].ticker = t
    PROVE  Cleared(r, t)'
<1> SUFFICES ASSUME registry'[t] = "absent" PROVE Clean(t)' \/ (req'[r].pc \in Clearing /\ req'[r].ticker = t)
  BY DEF Cleared
<1>1. Clean(t) \/ (req[r].pc \in Clearing /\ req[r].ticker = t)
  BY DEF TrackedInv, Cleared
<1>2. CASE Clean(t)
  <2>1. DataTypeOK /\ DataTypeOK'
    BY DEF IInv, TypeOK
  <2>2. /\ PinCount(t) \in Nat /\ (HasPin(t) <=> PinCount(t) > 0)
        /\ PinCount(t)' \in Nat /\ (HasPin(t)' <=> PinCount(t)' > 0)
    BY <2>1 DEF DataTypeOK, Pins, PinCount, HasPin
  <2>3. ~HasPin(t)'
    BY <1>2, <2>2 DEF Clean
  <2> QED  BY <1>2, <2>3 DEF Clean
<1> QED  BY <1>1, <1>2

\* A step that moves no thread and takes nothing out of the registry.
LEMMA WorldKeepsTracked ==
    ASSUME IInv, IInv', TrackedInv, UNCHANGED req,
           \A t \in Ticker : /\ PinCount(t)' <= PinCount(t)
                             /\ registry'[t] = "absent" <=> registry[t] = "absent"
                             /\ ActiveJobs(t)' \subseteq ActiveJobs(t)
    PROVE  TrackedInv'
<1>1. DataTypeOK /\ DataTypeOK' /\ ReqOK
  BY DEF IInv, TypeOK, ApiTypeOK, ReqOK
<1>2. \A r \in Req, t \in Ticker : Cleared(r, t)'
  BY NothingAdded
<1>3. \A t \in Ticker : PinCount(t)' <= 1
  <2> TAKE t \in Ticker
  <2>1. PinCount(t) <= 1 /\ PinCount(t)' <= PinCount(t)
    BY DEF TrackedInv
  <2>2. PinCount(t) \in Nat /\ PinCount(t)' \in Nat
    BY <1>1 DEF DataTypeOK, Pins, PinCount
  <2> QED  BY <2>1, <2>2
<1>4. \A t \in Ticker : ~HasPin(t) => ~HasPin(t)'
  <2> TAKE t \in Ticker
  <2>1. /\ PinCount(t) \in Nat /\ (HasPin(t) <=> PinCount(t) > 0)
        /\ PinCount(t)' \in Nat /\ (HasPin(t)' <=> PinCount(t)' > 0)
        /\ PinCount(t)' <= PinCount(t)
    BY <1>1 DEF DataTypeOK, Pins, PinCount, HasPin
  <2> QED  BY <2>1
<1>5. \A r \in Req : Knows(r)'
  <2> TAKE r \in Req
  <2>1. req[r] = Idle \/ (req[r] \in Busy /\ req[r].ticker \in Ticker)
    BY <1>1 DEF ReqOK, Busy
  <2> QED  BY <1>4, <2>1 DEF TrackedInv, Knows, Idle
<1> QED  BY <1>2, <1>3, <1>5 DEF TrackedInv

LEMMA FreshKnows == ASSUME NEW r, Fresh(req'[r]) PROVE Knows(r)'
  BY DEF Fresh, Knows

LEMMA ArriveTracked ==
    ASSUME NEW r0, Req = {r0}, IInv, IInv', TrackedInv, Arrive(r0)
    PROVE  TrackedInv'
<1>1. ReqOK /\ req[r0] = Idle /\ UNCHANGED dataVars
  BY DEF IInv, TypeOK, ApiTypeOK, ReqOK, Arrive, PostQueue, PostQueueAll, PostAnalyze, PostBulk, PostOne
<1>2. PICK op \in Ops, ts \in SUBSET Ticker, m \in Mode : Start(r0, op, ts, m)
  BY DEF Arrive, PostQueue, PostQueueAll, PostAnalyze, PostBulk, PostOne, ActiveUniverse
<1>3. Fresh(req'[r0])
  BY <1>1, <1>2, StartIsFresh
<1>4. UNCHANGED <<jobs, registry, watch>>
  BY <1>1 DEF dataVars
<1>5. \A t \in Ticker : PinCount(t)' = PinCount(t) /\ ActiveJobs(t)' = ActiveJobs(t)
  BY <1>4 DEF PinCount, ActiveJobs, IsActive
<1>6. \A t \in Ticker : PinCount(t) \in Nat
  BY PinsAreCounted DEF IInv, TypeOK
<1>7. \A t \in Ticker : Cleared(r0, t)'
  BY <1>1, <1>4, <1>5, <1>6, NothingAdded DEF Clearing, Idle
<1> QED  BY <1>3, <1>5, <1>7, FreshKnows DEF TrackedInv

LEMMA ServeTracked ==
    ASSUME NEW r0, Req = {r0}, IInv, IInv', TrackedInv, Serve(r0), UNCHANGED workerVars
    PROVE  TrackedInv'
<1>1. ReqOK /\ DataTypeOK /\ DataTypeOK'
  BY DEF IInv, TypeOK, ApiTypeOK, ReqOK
<1>2. req[r0].pc \in Step
  BY DEF Serve, Lookup, Reactivate, RegisterTicker, FindExisting, Upgrade, Insert, InsertPin, Unregister,
         DeleteAnalyses, DeletePin, DeleteJobs, At, Step
<1>3. PICK u \in Ticker : req[r0] \in Busy /\ u = req[r0].ticker
  <2>1. req[r0] \in Busy /\ req[r0].ticker \in Ticker
    BY <1>1, <1>2, BusyAtStep DEF Busy
  <2> QED  BY <2>1
<1>4. EndTicker(r0) => Fresh(req'[r0]) /\ Knows(r0)'
  BY <1>1, <1>2, EndTickerIsFresh, FreshKnows
<1>5. \A pc : Goto(r0, pc) => req'[r0].pc = pc /\ req'[r0].ticker = u /\ req'[r0].op = req[r0].op
  BY <1>1, <1>3 DEF Goto, ReqOK, Busy
<1>6. \A t \in Ticker : PinCount(t) \in Nat /\ (HasPin(t) <=> PinCount(t) > 0)
  BY <1>1, PinsAreCounted
<1>7. \A t \in Ticker : PinCount(t)' \in Nat /\ (HasPin(t)' <=> PinCount(t)' > 0)
  BY <1>1 DEF DataTypeOK, Pins, PinCount, HasPin
<1>8. Knows(r0) /\ \A t \in Ticker : PinCount(t) <= 1 /\ Cleared(r0, t)
  BY DEF TrackedInv
<1>9. ASSUME Knows(r0)', \A t \in Ticker : PinCount(t)' <= 1 /\ Cleared(r0, t)'
      PROVE  TrackedInv'
  BY <1>9 DEF TrackedInv
<1>10. (\A r \in Req : ~Insert(r)) => \A t \in Ticker : ActiveJobs(t)' \subseteq ActiveJobs(t)
  BY OnlyInsertAddsWork DEF Next, ApiNext
<1>11. UNCHANGED watch => \A t \in Ticker : PinCount(t)' = PinCount(t) /\ (HasPin(t)' <=> HasPin(t))
  BY DEF PinCount, HasPin
<1>12. CASE Lookup(r0)
  <2>1. req[r0].pc = "lookup" /\ UNCHANGED <<registry, watch>> /\ \A r \in Req : ~Insert(r)
    BY <1>12 DEF Lookup, At, dataVars, Insert
  <2>2. \/ EndTicker(r0)
        \/ Goto(r0, "register") /\ (req[r0].op = "pin" => ~HasPin(u))
        \/ Goto(r0, "reactivate") /\ req[r0].op # "pin"
    BY <1>3, <1>12 DEF Lookup, NeedsReactivation
  <2>3. Knows(r0)'
    BY <1>4, <1>5, <1>11, <2>1, <2>2, <1>3 DEF Knows
  <2>4. \A t \in Ticker : Cleared(r0, t)'
    BY <1>6, <1>10, <1>11, <2>1, NothingAdded DEF Clearing
  <2> QED  BY <1>8, <1>9, <1>11, <2>1, <2>3, <2>4
<1>13. CASE Reactivate(r0)
  <2>1. req[r0].pc = "reactivate" /\ UNCHANGED watch /\ \A r \in Req : ~Insert(r)
    BY <1>13 DEF Reactivate, At, Insert
  <2>2. SetStatus(u, "active") /\ Goto(r0, "register")
    BY <1>3, <1>13 DEF Reactivate
  <2>3. \A t \in Ticker : registry'[t] = "absent" => registry[t] = "absent"
    BY <1>1, <1>3, <2>2 DEF SetStatus, DataTypeOK
  <2>4. Knows(r0)'
    BY <1>5, <1>8, <2>1, <2>2 DEF Knows
  <2>5. \A t \in Ticker : Cleared(r0, t)'
    BY <1>6, <1>10, <1>11, <2>1, <2>3, NothingAdded DEF Clearing
  <2> QED  BY <1>8, <1>9, <1>11, <2>1, <2>4, <2>5
<1>14. CASE RegisterTicker(r0)
  <2>1. req[r0].pc = "register" /\ UNCHANGED watch /\ \A r \in Req : ~Insert(r)
    BY <1>14 DEF RegisterTicker, At, Insert
  <2>2. Register(u)
    BY <1>3, <1>14 DEF RegisterTicker
  <2>3. registry'[u] # "absent" /\ \A t \in Ticker : registry'[t] = "absent" => registry[t] = "absent"
    BY <1>1, <1>3, <2>2 DEF Register, DataTypeOK
  <2>4. EndTicker(r0) \/ (Goto(r0, "pin") /\ req[r0].op = "pin") \/ Goto(r0, "find")
    BY <1>14 DEF RegisterTicker
  <2>5. Knows(r0)'
    BY <1>3, <1>4, <1>5, <1>8, <1>11, <2>1, <2>3, <2>4 DEF Knows
  <2>6. \A t \in Ticker : Cleared(r0, t)'
    BY <1>6, <1>10, <1>11, <2>1, <2>3, NothingAdded DEF Clearing
  <2> QED  BY <1>8, <1>9, <1>11, <2>1, <2>5, <2>6
<1>15. CASE FindExisting(r0)
  <2>1. req[r0].pc = "find" /\ UNCHANGED <<registry, watch>> /\ \A r \in Req : ~Insert(r)
    BY <1>15 DEF FindExisting, At, dataVars, Insert
  <2>2. \/ EndTicker(r0) \/ Goto(r0, "insert")
        \/ \E j \in JobId : req' = [req EXCEPT ![r0].pc = "upgrade", ![r0].job = j]
    BY <1>15 DEF FindExisting, ActiveJobs
  <2>3. Knows(r0)'
    <3>1. CASE EndTicker(r0)
      BY <1>4, <3>1
    <3>2. CASE Goto(r0, "insert")
      BY <1>3, <1>5, <1>8, <2>1, <3>2 DEF Knows
    <3>3. ASSUME NEW j \in JobId, req' = [req EXCEPT ![r0].pc = "upgrade", ![r0].job = j] PROVE Knows(r0)'
      <4>1. req'[r0].pc = "upgrade" /\ req'[r0].ticker = u
        BY <1>1, <1>3, <3>3 DEF ReqOK, Busy
      <4> QED  BY <1>3, <1>8, <2>1, <4>1 DEF Knows
    <3> QED  BY <2>2, <3>1, <3>2, <3>3
  <2>4. \A t \in Ticker : Cleared(r0, t)'
    BY <1>6, <1>10, <1>11, <2>1, NothingAdded DEF Clearing
  <2> QED  BY <1>8, <1>9, <1>11, <2>1, <2>3, <2>4
<1>16. CASE Upgrade(r0)
  <2>1. req[r0].pc = "upgrade" /\ UNCHANGED <<registry, watch>> /\ EndTicker(r0) /\ \A r \in Req : ~Insert(r)
    BY <1>16 DEF Upgrade, At, Insert
  <2>2. \A t \in Ticker : Cleared(r0, t)'
    BY <1>6, <1>10, <1>11, <2>1, NothingAdded DEF Clearing
  <2> QED  BY <1>4, <1>8, <1>9, <1>11, <2>1, <2>2
<1>17. CASE Insert(r0)
  <2>1. req[r0].pc = "insert" /\ UNCHANGED <<registry, watch>> /\ EndTicker(r0)
    BY <1>17 DEF Insert, At
  <2>2. /\ nextJob \in JobId
        /\ jobs' = [jobs EXCEPT ![nextJob] = [ticker |-> u, status |-> "pending",
                                              mode |-> req[r0].mode, started |-> 0]]
    BY <1>3, <1>17 DEF Insert, InsertJob
  <2>3. \A t \in Ticker \ {u} : ActiveJobs(t)' \subseteq ActiveJobs(t)
    BY <1>1, <2>2 DEF ActiveJobs, IsActive, DataTypeOK
  <2>4. registry[u] # "absent"
    BY <1>3, <1>8, <2>1 DEF Knows
  <2>5. \A t \in Ticker : Cleared(r0, t)'
    BY <1>6, <1>11, <2>1, <2>3, <2>4, NothingAdded DEF Clearing
  <2> QED  BY <1>4, <1>8, <1>9, <1>11, <2>1, <2>5
<1>18. CASE InsertPin(r0)
  <2>1. /\ req[r0].pc = "pin" /\ UNCHANGED registry /\ EndTicker(r0) /\ \A r \in Req : ~Insert(r)
        /\ watch' = [watch EXCEPT ![u].active = @ + 1]
    BY <1>3, <1>18 DEF InsertPin, At, Insert
  <2>2. ~HasPin(u) /\ registry[u] # "absent"
    BY <1>3, <1>8, <2>1 DEF Knows
  <2>3. \A t \in Ticker \ {u} : PinCount(t)' = PinCount(t)
    BY <1>1, <2>1 DEF PinCount, DataTypeOK
  <2>4. PinCount(u)' <= 1
    <3>1. watch[u].active \in Nat /\ watch[u].removed \in Nat
      BY <1>1, <1>3 DEF DataTypeOK, Pins
    <3>2. watch[u].active = 0 /\ watch[u].removed = 0
      BY <2>2, <3>1 DEF HasPin
    <3> QED  BY <1>1, <1>3, <2>1, <3>2 DEF PinCount, DataTypeOK, Pins
  <2>5. \A t \in Ticker : Cleared(r0, t)'
    BY <1>6, <1>10, <2>1, <2>2, <2>3, NothingAdded DEF Clearing
  <2> QED  BY <1>4, <1>8, <1>9, <2>1, <2>3, <2>4, <2>5
<1>19. CASE Unregister(r0)
  <2>1. req[r0].pc = "unregister" /\ UNCHANGED watch /\ \A r \in Req : ~Insert(r)
    BY <1>19 DEF Unregister, At, Insert
  <2>2. CASE EndTicker(r0) /\ UNCHANGED registry
    <3>1. \A t \in Ticker : Cleared(r0, t)'
      BY <1>6, <1>10, <1>11, <2>1, <2>2, NothingAdded DEF Clearing
    <3> QED  BY <1>4, <1>8, <1>9, <1>11, <2>1, <2>2, <3>1
  <2>3. CASE registry' = [registry EXCEPT ![u] = "absent"] /\ Goto(r0, "analyses")
    <3>1. req'[r0].pc = "analyses" /\ req'[r0].ticker = u
      BY <1>5, <2>3
    <3>2. \A t \in Ticker \ {u} : registry'[t] = registry[t]
      BY <1>1, <2>3 DEF DataTypeOK
    <3>3. \A t \in Ticker \ {u} : Cleared(r0, t)'
      BY <1>6, <1>10, <1>11, <2>1, <3>2, NothingAdded DEF Clearing
    <3>4. Cleared(r0, u)'
      BY <3>1 DEF Cleared, Clearing
    <3>5. Knows(r0)'
      BY <3>1 DEF Knows
    <3> QED  BY <1>8, <1>9, <1>11, <2>1, <3>3, <3>4, <3>5
  <2> QED  BY <1>3, <1>19, <2>2, <2>3 DEF Unregister
<1>20. CASE DeleteAnalyses(r0) \/ DeletePin(r0)
  <2>1. /\ UNCHANGED registry /\ (DropPin(u) \/ UNCHANGED watch)
        /\ \A r \in Req : ~Insert(r)
    BY <1>3, <1>20 DEF DeleteAnalyses, DeletePin, At, Insert
  <2>2. \A t \in Ticker : PinCount(t)' <= PinCount(t)
    BY <1>1, <1>3, <2>1, PinsOnlyGo
  <2>3. req'[r0].pc \in Clearing /\ req'[r0].ticker = u
    BY <1>5, <1>20 DEF DeleteAnalyses, DeletePin, Clearing
  <2>4. \A t \in Ticker : Cleared(r0, t)'
    BY <1>3, <1>10, <2>1, <2>2, <2>3, NothingAdded
  <2>5. \A t \in Ticker : PinCount(t)' <= 1
    BY <1>6, <1>7, <1>8, <2>2
  <2>6. Knows(r0)'
    <3>1. CASE DeleteAnalyses(r0)
      BY <1>5, <3>1 DEF DeleteAnalyses, Knows
    <3>2. CASE DeletePin(r0)
      <4>1. DropPin(u) /\ req'[r0].pc = "dequeue"
        BY <1>3, <1>5, <3>2 DEF DeletePin
      <4>2. PinCount(u)' = 0
        BY <1>1, <1>3, <1>8, <4>1, DropOfOneLeavesNone
      <4>3. ~HasPin(u)'
        BY <1>3, <1>7, <4>2
      <4> QED  BY <2>3, <4>1, <4>3 DEF Knows, HasPin
    <3> QED  BY <1>20, <3>1, <3>2
  <2> QED  BY <1>9, <2>4, <2>5, <2>6
<1>21. CASE DeleteJobs(r0)
  <2>1. req[r0].pc = "dequeue" /\ UNCHANGED <<registry, watch>> /\ EndTicker(r0) /\ \A r \in Req : ~Insert(r)
    BY <1>21 DEF DeleteJobs, At, Insert
  <2>2. ActiveJobs(u)' = {}
    BY <1>3, <1>1, <1>21 DEF DeleteJobs, ActiveJobs, IsActive, DataTypeOK, Job
  <2>3. ~HasPin(u)
    BY <1>3, <1>8, <2>1 DEF Knows
  <2>4. Cleared(r0, u)'
    BY <1>3, <1>11, <2>1, <2>2, <2>3 DEF Cleared, Clean
  <2>5. \A t \in Ticker \ {u} : Cleared(r0, t)'
    BY <1>3, <1>6, <1>10, <1>11, <2>1, NothingAdded
  <2> QED  BY <1>4, <1>8, <1>9, <1>11, <2>1, <2>4, <2>5
<1> QED
  BY <1>12, <1>13, <1>14, <1>15, <1>16, <1>17, <1>18, <1>19, <1>20, <1>21 DEF Serve

LEMMA NextTracked ==
    ASSUME NEW r0, Req = {r0}, IInv, TrackedInv, [Next]_vars
    PROVE  TrackedInv'
<1>1. IInv'
  BY NextIInv
<1>2. DataTypeOK /\ \A t \in Ticker : PinCount(t) \in Nat
  BY PinsAreCounted DEF IInv, TypeOK
<1>0. \A r \in Req : Insert(r) => nextJob' # nextJob
  BY <1>2 DEF Insert, InsertJob, DataTypeOK
<1>3. ASSUME UNCHANGED req, \A r \in Req : ~Insert(r),
             \E t \in Ticker : DropPin(t) \/ FlagPin(t) \/ UNCHANGED watch,
             \A t \in Ticker : registry'[t] = "absent" <=> registry[t] = "absent"
      PROVE  TrackedInv'
  <2>1. \A t \in Ticker : ActiveJobs(t)' \subseteq ActiveJobs(t)
    BY <1>3, OnlyInsertAddsWork
  <2>2. \A t \in Ticker : PinCount(t)' <= PinCount(t)
    BY <1>2, <1>3, PinsOnlyGo
  <2> QED  BY <1>1, <1>3, <2>1, <2>2, WorldKeepsTracked
<1>4. \A t \in Ticker, s \in {"active", "disabled", "removed_from_market"} : SetStatus(t, s) =>
         \A q \in Ticker : registry'[q] = "absent" <=> registry[q] = "absent"
  BY <1>2 DEF SetStatus, DataTypeOK
<1>5. CASE ApiNext /\ UNCHANGED workerVars
  <2>1. CASE PatchTicker
    <3>1. PICK q \in Ticker, s \in {"active", "disabled"} : SetStatus(q, s)
      BY <2>1 DEF PatchTicker
    <3>2. UNCHANGED <<nextJob, watch, req>>
      BY <2>1 DEF PatchTicker, apiVars
    <3>3. \A t \in Ticker : registry'[t] = "absent" <=> registry[t] = "absent"
      BY <1>4, <3>1
    <3> QED  BY <1>0, <1>3, <3>1, <3>2, <3>3
  <2>2. CASE Unpin
    <3>1. UNCHANGED <<nextJob, registry, req>> /\ \E t \in Ticker : DropPin(t)
      BY <2>2 DEF Unpin, apiVars
    <3> QED  BY <1>0, <1>3, <3>1
  <2>3. CASE Arrive(r0)
    BY <1>1, <2>3, ArriveTracked
  <2>4. CASE Serve(r0)
    BY <1>1, <1>5, <2>4, ServeTracked
  <2> QED  BY <1>5, <2>1, <2>2, <2>3, <2>4 DEF ApiNext
<1>6. CASE WorkerNext /\ UNCHANGED apiVars
  <2>1. UNCHANGED req /\ UNCHANGED nextJob
    BY <1>6 DEF apiVars, WorkerNext, Work, Startup, Claim, WriteAnalysis, MarkDone, MarkFailed, CloseJob,
                Delist, DelistPin, MarkDelisted, Crash, Tick, dataVars
  <2>2. CASE Delist
    <3>1. Executing /\ runner.job \in JobId
      BY <2>2 DEF Delist, Executing, IInv, HeldOrFree, HeldJobIsRunning
    <3>2. jobs[runner.job].ticker \in Ticker
      BY <1>2, <3>1 DEF DataTypeOK, Job
    <3>3. \A t \in Ticker : registry'[t] = "absent" <=> registry[t] = "absent"
      BY <1>4, <2>2, <3>2 DEF Delist
    <3>4. UNCHANGED watch
      BY <2>2 DEF Delist
    <3> QED  BY <1>0, <1>3, <2>1, <3>2, <3>3, <3>4
  <2>3. CASE DelistPin
    <3>1. Executing /\ runner.job \in JobId
      BY <2>3 DEF DelistPin, Executing, IInv, HeldOrFree, HeldJobIsRunning
    <3>2. jobs[runner.job].ticker \in Ticker /\ FlagPin(jobs[runner.job].ticker) /\ UNCHANGED registry
      BY <1>2, <2>3, <3>1 DEF DelistPin, DataTypeOK, Job
    <3> QED  BY <1>0, <1>3, <2>1, <3>2
  <2>4. CASE UNCHANGED <<registry, watch>>
    <3>1. \A t \in Ticker : ActiveJobs(t)' \subseteq ActiveJobs(t)
      BY <1>0, <2>1, OnlyInsertAddsWork
    <3>2. \A t \in Ticker : PinCount(t)' <= PinCount(t)
      BY <1>2, <2>4 DEF PinCount
    <3> QED  BY <1>1, <2>1, <2>4, <3>1, <3>2, WorldKeepsTracked
  <2> QED  BY <1>6, <2>2, <2>3, <2>4
           DEF WorkerNext, Work, Startup, Claim, WriteAnalysis, MarkDone, MarkFailed, CloseJob,
               MarkDelisted, Crash, Tick, dataVars
<1>7. CASE UNCHANGED vars
  <2>1. UNCHANGED <<jobs, nextJob, registry, watch, req>>
    BY <1>7 DEF vars, dataVars, apiVars
  <2>2. \A t \in Ticker : PinCount(t)' <= PinCount(t) /\ ActiveJobs(t)' = ActiveJobs(t)
    BY <1>2, <2>1 DEF PinCount, ActiveJobs, IsActive
  <2> QED  BY <1>1, <2>1, <2>2, WorldKeepsTracked
<1> QED  BY <1>5, <1>6, <1>7 DEF Next

\* Served one request at a time, deleting a ticker leaves no work for it in the
\* queue and no pin on the watchlist, whatever the worker does meanwhile and
\* however often it dies (stocks.delete_ticker).
THEOREM SerialDeleteLeavesNothing ==
    ASSUME NEW r0, Req = {r0}
    PROVE  Spec => []UntrackedLeavesNoWork
<1>1. IInv /\ TrackedInv /\ [Next]_vars => TrackedInv'
  BY NextTracked
<1>2. IInv /\ TrackedInv => UntrackedLeavesNoWork
  <2> SUFFICES ASSUME IInv, TrackedInv, NEW t \in Ticker, registry[t] = "absent", Serving(t) = {}
               PROVE  Clean(t)
    BY DEF UntrackedLeavesNoWork, Clean
  <2>1. Clean(t) \/ (req[r0].pc \in Clearing /\ req[r0].ticker = t)
    BY DEF TrackedInv, Cleared
  <2>2. req[r0].pc \in Clearing => req[r0] # Idle
    BY DEF Clearing, Idle
  <2> QED  BY <2>1, <2>2 DEF Serving
<1> QED  BY <1>1, <1>2, InitTracked, InvariantHolds, PTL DEF Spec
=============================================================================
