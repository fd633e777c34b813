----------------------------- MODULE QueueData -----------------------------
(***************************************************************************)
(* The MongoDB collections that the FastAPI backend and the agent-runner   *)
(* share, and the single-document updates both services make on them:      *)
(* work_queue, ticker_index (the registry), analyses and watchlist.  The   *)
(* two services have no other channel between them.                        *)
(***************************************************************************)
EXTENDS Naturals, FiniteSets

CONSTANTS
    Ticker,         \* ticker symbols
    MaxJob          \* bound: how many work_queue documents are ever inserted

ASSUME MaxJobAssumption == MaxJob \in Nat

VARIABLES
    jobs,           \* work_queue, by insertion order (the order of created_at)
    nextJob,        \* the next document to insert
    registry,       \* ticker_index: the status of each ticker, or "absent"
    analysis,       \* analyses: the job that wrote each ticker's document, or 0
    watch           \* watchlist: the bag of statuses of each ticker's pins

dataVars == <<jobs, nextJob, registry, analysis, watch>>

JobId == 1..MaxJob
Mode == {"delta", "full"}

\* "none" is a document not inserted yet, "gone" one removed by a delete;
\* "delisted" is status "failed" with the flag delisted: True.
JobStatus == {"none", "pending", "running", "done", "failed", "delisted", "gone"}
RegistryStatus == {"absent", "active", "disabled", "removed_from_market"}

Job == [ticker : Ticker, status : JobStatus, mode : Mode, started : Nat]
Pins == [active : Nat, removed : Nat]

DataTypeOK ==
    /\ jobs \in [JobId -> Job]
    /\ nextJob \in 1..(MaxJob + 1)
    /\ registry \in [Ticker -> RegistryStatus]
    /\ analysis \in [Ticker -> JobId \cup {0}]
    /\ watch \in [Ticker -> Pins]

DataInit ==
    /\ \E t \in Ticker :
          jobs = [j \in JobId |-> [ticker |-> t, status |-> "none",
                                   mode |-> "delta", started |-> 0]]
    /\ nextJob = 1
    /\ registry \in [Ticker -> {"absent", "active"}]
    /\ analysis = [t \in Ticker |-> 0]
    /\ watch = [t \in Ticker |-> [active |-> 0, removed |-> 0]]

-----------------------------------------------------------------------------

IsActive(j) == jobs[j].status \in {"pending", "running"}
ActiveJobs(t) == {j \in JobId : jobs[j].ticker = t /\ IsActive(j)}
Pending == {j \in JobId : jobs[j].status = "pending"}

\* update_one({"_id": j}, {"$set": ...}) matches nothing once j is deleted.
Exists(j) == jobs[j].status \notin {"none", "gone"}

\* insert_one: a new pending document, last in created_at order.
InsertJob(t, m) ==
    /\ nextJob \in JobId
    /\ jobs' = [jobs EXCEPT ![nextJob] = [ticker |-> t, status |-> "pending",
                                          mode |-> m, started |-> 0]]
    /\ nextJob' = nextJob + 1

\* register_ticker's upsert: status is written only when it inserts.
Register(t) ==
    registry' = [registry EXCEPT ![t] = IF @ = "absent" THEN "active" ELSE @]

\* update_one without upsert: a ticker that is not there stays absent.
SetStatus(t, s) ==
    registry' = [registry EXCEPT ![t] = IF @ = "absent" THEN @ ELSE s]

HasPin(t) == watch[t].active + watch[t].removed > 0

\* delete_one removes one matching pin, whichever it finds.
DropPin(t) ==
    \/ ~HasPin(t) /\ UNCHANGED watch
    \/ watch[t].active > 0 /\ watch' = [watch EXCEPT ![t].active = @ - 1]
    \/ watch[t].removed > 0 /\ watch' = [watch EXCEPT ![t].removed = @ - 1]

\* update_one on the watchlist flags one matching pin, whichever it finds.
FlagPin(t) ==
    \/ watch[t].active = 0 /\ UNCHANGED watch
    \/ watch[t].removed > 0 /\ UNCHANGED watch
    \/ /\ watch[t].active > 0
       /\ watch' = [watch EXCEPT ![t].active = @ - 1, ![t].removed = @ + 1]
=============================================================================
