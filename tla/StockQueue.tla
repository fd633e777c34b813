----------------------------- MODULE StockQueue -----------------------------
(***************************************************************************)
(* The backend's handlers and the agent-runner's worker, composed over the *)
(* collections they share, and what the composition guarantees.            *)
(***************************************************************************)
EXTENDS QueueApi, QueueWorker

vars == <<dataVars, apiVars, workerVars>>

Init == DataInit /\ ApiInit /\ WorkerInit

Next ==
    \/ ApiNext /\ UNCHANGED workerVars
    \/ WorkerNext /\ UNCHANGED apiVars

Spec == Init /\ [][Next]_vars

\* The worker's loop and its container are kept running (restart policy
\* unless-stopped) and every accepted request is served; clients owe nothing,
\* and neither crashes nor delistings have to happen.
Fairness ==
    /\ WF_vars(Startup /\ UNCHANGED apiVars)
    /\ WF_vars(Claim /\ UNCHANGED apiVars)
    /\ WF_vars((WriteAnalysis \/ MarkFailed \/ Delist) /\ UNCHANGED apiVars)
    /\ WF_vars((MarkDone \/ DelistPin \/ MarkDelisted) /\ UNCHANGED apiVars)
    /\ \A r \in Req : WF_vars(Serve(r) /\ UNCHANGED workerVars)

FairSpec == Spec /\ Fairness

TypeOK == DataTypeOK /\ ApiTypeOK /\ WorkerTypeOK

-----------------------------------------------------------------------------
\* Safety of the queue.

HeldJob == IF Executing THEN runner.job ELSE 0

\* While the worker executes a job, the job's document says "running" or has
\* been deleted: no recovery or upgrade ever makes it claimable a second time
\* (recover_stale_jobs runs only before the first claim of a process).
HeldJobIsRunning ==
    Executing => runner.job \in JobId /\ jobs[runner.job].status \in {"running", "gone"}

\* A pending job whose client was answered "full" is in mode full, so its
\* next run is a full refresh even after a crash and a recovery.
PromiseKeptWhilePending ==
    \A j \in told : jobs[j].status = "pending" => jobs[j].mode = "full"

\* With one request at a time a ticker never has two active jobs, whatever
\* the worker does meanwhile (crashes and recovery included).
OneActivePerTicker ==
    \A t \in Ticker : \A j, k \in ActiveJobs(t) : j = k

\* With one request at a time, a ticker that was deleted and is not being
\* served has no work left in the queue and no pin left on the watchlist.
UntrackedLeavesNoWork ==
    \A t \in Ticker :
        registry[t] = "absent" /\ Serving(t) = {} =>
            ActiveJobs(t) = {} /\ ~HasPin(t)

\* The worker and the handlers together implement the abstract board.
Board == INSTANCE JobBoard WITH
    NoJob <- 0,
    status <- [j \in JobId |-> jobs[j].status],
    mode <- [j \in JobId |-> jobs[j].mode],
    executing <- HeldJob

BoardSpec == Board!Spec

-----------------------------------------------------------------------------
\* Liveness.

\* A pending job is eventually claimed or withdrawn, even when the worker dies
\* (finitely often): FIFO order and the restart leave nobody starved.
PendingIsClaimed ==
    \A j \in JobId : jobs[j].status = "pending" ~> jobs[j].status # "pending"

\* A job that a dead process left running.
Interrupted(j) == crashes > 0 /\ jobs[j].status = "running" /\ j # HeldJob

\* Every posted job gets an outcome, unless the worker dies while executing it:
\* recovery passes over a job that had not been running for long enough.
EveryJobSettles ==
    \A j \in JobId : IsActive(j) ~> ~IsActive(j) \/ Interrupted(j)

=============================================================================
