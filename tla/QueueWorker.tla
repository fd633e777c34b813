---------------------------- MODULE QueueWorker ----------------------------
(***************************************************************************)
(* The agent-runner's side of the queue (queue_worker.py): one process,    *)
(* one loop, one job at a time.  The container restarts it after a crash.  *)
(***************************************************************************)
EXTENDS QueueData

CONSTANTS
    StaleAfter,     \* STALE_RUNNING_MINUTES, in ticks of the clock
    MaxNow,         \* bound: the last tick
    MaxCrash        \* bound: how many times the process dies

ASSUME WorkerAssumption == StaleAfter \in Nat /\ MaxNow \in Nat /\ MaxCrash \in Nat

VARIABLES
    runner,         \* the worker: program counter, job held, mode read at the claim
    now,            \* the wall clock
    crashes         \* how many times the process has died

workerVars == <<runner, now, crashes>>

RunnerStep == {"down", "idle", "crew", "saved", "flag", "close"}
Executing == runner.pc \notin {"down", "idle"}

WorkerTypeOK ==
    /\ runner \in [pc : RunnerStep, job : JobId \cup {0}, mode : Mode]
    /\ now \in 0..MaxNow
    /\ crashes \in 0..MaxCrash

Resting(pc) == [pc |-> pc, job |-> 0, mode |-> "delta"]

WorkerInit ==
    /\ runner = Resting("down")
    /\ now = 0
    /\ crashes = 0

\* Mutant: recovery does not look at the status.
StaleWhateverStatus(j) == Exists(j) /\ jobs[j].started + StaleAfter < now

\* started_at < now - STALE_RUNNING_MINUTES
Stale(j) == jobs[j].status = "running" /\ jobs[j].started + StaleAfter < now

\* _startup: recover_stale_jobs runs once per process, before the first claim.
Startup ==
    /\ runner.pc = "down"
    /\ runner' = Resting("idle")
    /\ jobs' = [j \in JobId |->
                   IF Stale(j) THEN [jobs[j] EXCEPT !.status = "pending"] ELSE jobs[j]]
    /\ UNCHANGED <<nextJob, registry, analysis, watch, now, crashes>>

\* Mutant: the oldest document, claimed before or not.
OldestOfAll(j) == \A k \in JobId : Exists(k) => j <= k

Oldest(j) == \A k \in Pending : j <= k

\* find_one_and_update({"status": "pending"}, sort by created_at): one atomic
\* operation.  The mode of the run is the one on the document it returns.
Claim ==
    /\ runner.pc = "idle"
    /\ \E j \in Pending :
         /\ Oldest(j)
         /\ jobs' = [jobs EXCEPT ![j].status = "running", ![j].started = now]
         /\ runner' = [pc |-> "crew", job |-> j, mode |-> jobs[j].mode]
    /\ UNCHANGED <<nextJob, registry, analysis, watch, now, crashes>>

\* crew.run returned: the analyses document of the ticker is replaced.
WriteAnalysis ==
    /\ runner.pc = "crew"
    /\ analysis' = [analysis EXCEPT ![jobs[runner.job].ticker] = runner.job]
    /\ runner' = [runner EXCEPT !.pc = "saved"]
    /\ UNCHANGED <<jobs, nextJob, registry, watch, now, crashes>>

\* Mutant: the update inserts the document again when it was deleted.
CloseJobUpsert(s) ==
    /\ jobs' = [jobs EXCEPT ![runner.job].status = s]
    /\ runner' = Resting("idle")
    /\ UNCHANGED <<nextJob, registry, analysis, watch, now, crashes>>

\* update_one({"_id": job}, {"$set": {"status": s}})
CloseJob(s) ==
    /\ jobs' = [jobs EXCEPT ![runner.job].status =
                    IF Exists(runner.job) THEN s ELSE @]
    /\ runner' = Resting("idle")
    /\ UNCHANGED <<nextJob, registry, analysis, watch, now, crashes>>

MarkDone == runner.pc = "saved" /\ CloseJob("done")

\* Mutant: the exception is logged and the job left as it is.
FailUnmarked ==
    /\ runner.pc = "crew"
    /\ runner' = Resting("idle")
    /\ UNCHANGED <<dataVars, now, crashes>>

\* crew.run, or the write of its result, raised.
MarkFailed == runner.pc = "crew" /\ CloseJob("failed")

\* TickerDelistedError: mark_ticker_removed flags the registry, then the
\* watchlist, and only then is the job closed.
Delist ==
    /\ runner.pc = "crew"
    /\ SetStatus(jobs[runner.job].ticker, "removed_from_market")
    /\ runner' = [runner EXCEPT !.pc = "flag"]
    /\ UNCHANGED <<jobs, nextJob, analysis, watch, now, crashes>>

DelistPin ==
    /\ runner.pc = "flag"
    /\ FlagPin(jobs[runner.job].ticker)
    /\ runner' = [runner EXCEPT !.pc = "close"]
    /\ UNCHANGED <<jobs, nextJob, registry, analysis, now, crashes>>

MarkDelisted == runner.pc = "close" /\ CloseJob("delisted")

\* The process dies between any two of the steps above.
Crash ==
    /\ runner.pc # "down" /\ crashes < MaxCrash
    /\ runner' = Resting("down")
    /\ crashes' = crashes + 1
    /\ UNCHANGED <<dataVars, now>>

Tick == now < MaxNow /\ now' = now + 1 /\ UNCHANGED <<dataVars, runner, crashes>>

Work ==
    \/ Startup
    \/ Claim
    \/ WriteAnalysis
    \/ MarkDone
    \/ MarkFailed
    \/ Delist
    \/ DelistPin
    \/ MarkDelisted

WorkerNext == Work \/ Crash \/ Tick
=============================================================================
