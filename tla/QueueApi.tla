------------------------------ MODULE QueueApi ------------------------------
(***************************************************************************)
(* The backend's request handlers that touch the queue and the registry    *)
(* (routers/queue.py, stocks.py, earnings.py, watchlist.py).  FastAPI runs *)
(* them in a thread pool, so every slot of Req serves one request and the  *)
(* slots interleave between any two MongoDB operations.                    *)
(***************************************************************************)
EXTENDS QueueData

CONSTANTS
    Req,            \* threads serving requests
    Ops             \* the kinds of request that clients send in this instance

ASSUME OpsAssumption ==
    Ops \subseteq {"enqueue", "all", "analyze", "bulk", "delete", "pin",
                   "unpin", "patch"}

VARIABLES
    req,            \* what each thread is doing: its handler and local variables
    told            \* jobs whose client was answered with mode "full"

apiVars == <<req, told>>

Idle == [op |-> "idle", pc |-> "idle"]
Step == {"lookup", "reactivate", "register", "find", "upgrade", "insert",
         "pin", "unregister", "analyses", "unpin", "dequeue"}
Busy == [op : Ops, pc : Step, ticker : Ticker, todo : SUBSET Ticker,
         mode : Mode, job : JobId \cup {0}]

ApiTypeOK ==
    /\ req \in [Req -> {Idle} \cup Busy]
    /\ told \subseteq JobId

ApiInit ==
    /\ req = [r \in Req |-> Idle]
    /\ told = {}

Serving(t) == {r \in Req : req[r] # Idle /\ t \in {req[r].ticker} \cup req[r].todo}

At(r, pc) == req[r].pc = pc
Goto(r, pc) == req' = [req EXCEPT ![r].pc = pc]

FirstStep(op) ==
    CASE op = "analyze" -> "register"
      [] op = "delete"  -> "unregister"
      [] OTHER          -> "lookup"

\* The handlers that take several tickers loop over them.
Start(r, op, ts, m) ==
    \E t \in ts :
        req' = [req EXCEPT ![r] = [op |-> op, pc |-> FirstStep(op), ticker |-> t,
                                   todo |-> ts \ {t}, mode |-> m, job |-> 0]]

\* This ticker is dealt with: the next one, or the response.
EndTicker(r) ==
    IF req[r].todo = {}
    THEN req' = [req EXCEPT ![r] = Idle]
    ELSE Start(r, req[r].op, req[r].todo, req[r].mode)

\* Bound: no request starts that could need more documents than MaxJob.
Inserting(r) ==
    IF req[r] # Idle /\ req[r].op \in {"enqueue", "all", "analyze"}
    THEN {req[r].ticker} \cup req[r].todo
    ELSE {}
InFlightInserts ==
    Cardinality({p \in Req \X Ticker : p[2] \in Inserting(p[1])})
HasRoom(ts) == nextJob + InFlightInserts + Cardinality(ts) <= MaxJob + 1

-----------------------------------------------------------------------------
\* Arrivals.

ActiveUniverse == {t \in Ticker : registry[t] = "active"}

\* POST /queue/{ticker}; a mode outside Mode is a 422 that touches nothing.
PostQueue(r) ==
    /\ "enqueue" \in Ops /\ req[r] = Idle
    /\ \E t \in Ticker, m \in Mode : HasRoom({t}) /\ Start(r, "enqueue", {t}, m)
    /\ UNCHANGED <<dataVars, told>>

\* POST /queue/all reads the active universe once, then loops over that list.
PostQueueAll(r) ==
    /\ "all" \in Ops /\ req[r] = Idle
    /\ HasRoom(ActiveUniverse)
    /\ Start(r, "all", ActiveUniverse, "delta")
    /\ UNCHANGED <<dataVars, told>>

\* POST /earnings/analyze
PostAnalyze(r) ==
    /\ "analyze" \in Ops /\ req[r] = Idle
    /\ \E ts \in SUBSET Ticker : HasRoom(ts) /\ Start(r, "analyze", ts, "delta")
    /\ UNCHANGED <<dataVars, told>>

\* POST /tickers/bulk
PostBulk(r) ==
    /\ "bulk" \in Ops /\ req[r] = Idle
    /\ \E ts \in SUBSET Ticker : Start(r, "bulk", ts, "delta")
    /\ UNCHANGED <<dataVars, told>>

\* DELETE /tickers/{ticker}, POST /watchlist/{ticker}
PostOne(r) ==
    /\ req[r] = Idle
    /\ \E op \in Ops \cap {"delete", "pin"}, t \in Ticker :
          Start(r, op, {t}, "delta")
    /\ UNCHANGED <<dataVars, told>>

\* PATCH /tickers/{ticker} is one find_one_and_update.
PatchTicker ==
    /\ "patch" \in Ops
    /\ \E t \in Ticker, s \in {"active", "disabled"} :
          registry[t] # "absent" /\ SetStatus(t, s)
    /\ UNCHANGED <<jobs, nextJob, analysis, watch, apiVars>>

\* DELETE /watchlist/{ticker} is one delete_one.
Unpin ==
    /\ "unpin" \in Ops
    /\ \E t \in Ticker : HasPin(t) /\ DropPin(t)
    /\ UNCHANGED <<jobs, nextJob, registry, analysis, apiVars>>

-----------------------------------------------------------------------------
\* Steps of _enqueue, analyze_selected, bulk_add_tickers and add_to_watchlist.

NeedsReactivation(op, status) ==
    \/ op \in {"enqueue", "all"} /\ status = "removed_from_market"
    \/ op = "bulk" /\ status \notin {"absent", "active"}

\* ticker_index.find_one (watchlist.find_one for a pin, which answers 409).
Lookup(r) ==
    /\ At(r, "lookup")
    /\ LET op == req[r].op
           t == req[r].ticker
       IN  CASE op = "pin" -> IF HasPin(t) THEN EndTicker(r) ELSE Goto(r, "register")
             [] NeedsReactivation(op, registry[t]) -> Goto(r, "reactivate")
             [] OTHER -> Goto(r, "register")
    /\ UNCHANGED <<dataVars, told>>

\* update_one({"ticker": t}, {"$set": {"status": "active"}})
Reactivate(r) ==
    /\ At(r, "reactivate")
    /\ SetStatus(req[r].ticker, "active")
    /\ Goto(r, "register")
    /\ UNCHANGED <<jobs, nextJob, analysis, watch, told>>

RegisterTicker(r) ==
    /\ At(r, "register")
    /\ Register(req[r].ticker)
    /\ CASE req[r].op = "bulk" -> EndTicker(r)
         [] req[r].op = "pin"  -> Goto(r, "pin")
         [] OTHER              -> Goto(r, "find")
    /\ UNCHANGED <<jobs, nextJob, analysis, watch, told>>

\* A full request may raise a job it saw pending in delta mode.
MayUpgrade(r, j) ==
    req[r].mode = "full" /\ jobs[j].mode = "delta" /\ jobs[j].status = "pending"

\* work_queue.find_one of an active job of the ticker: without a sort any one
\* of them may be returned.  What the handler does next depends on what it
\* read here; an upgrade is issued later, as an update of its own.
FindExisting(r) ==
    /\ At(r, "find")
    /\ LET found == ActiveJobs(req[r].ticker)
       IN  \/ found = {} /\ Goto(r, "insert") /\ UNCHANGED told
           \/ \E j \in found :
                /\ MayUpgrade(r, j)
                /\ req' = [req EXCEPT ![r].pc = "upgrade", ![r].job = j]
                /\ UNCHANGED told
           \/ \E j \in found :
                /\ ~MayUpgrade(r, j)
                /\ EndTicker(r)
                /\ told' = IF jobs[j].mode = "full" /\ req[r].op = "enqueue"
                           THEN told \cup {j} ELSE told
    /\ UNCHANGED dataVars

\* Mutant: the upgrade also puts the job back in the queue.
UpgradeAndRequeue(r) ==
    /\ At(r, "upgrade")
    /\ jobs' = [jobs EXCEPT ![req[r].job] =
                    IF Exists(req[r].job)
                    THEN [@ EXCEPT !.mode = "full", !.status = "pending"] ELSE @]
    /\ told' = told \cup {req[r].job}
    /\ EndTicker(r)
    /\ UNCHANGED <<nextJob, registry, analysis, watch>>

\* update_one({"_id": seen}, {"$set": {"mode": FULL}}): the filter names the
\* document only, so it applies whatever the job's status has become.
Upgrade(r) ==
    /\ At(r, "upgrade")
    /\ jobs' = [jobs EXCEPT ![req[r].job].mode =
                    IF Exists(req[r].job) THEN "full" ELSE @]
    /\ told' = told \cup {req[r].job}
    /\ EndTicker(r)
    /\ UNCHANGED <<nextJob, registry, analysis, watch>>

\* Mutant: the document is inserted without the mode that was asked for.
InsertWithoutMode(r) ==
    /\ At(r, "insert")
    /\ InsertJob(req[r].ticker, "delta")
    /\ told' = IF req[r].mode = "full" THEN told \cup {nextJob} ELSE told
    /\ EndTicker(r)
    /\ UNCHANGED <<registry, analysis, watch>>

Insert(r) ==
    /\ At(r, "insert")
    /\ InsertJob(req[r].ticker, req[r].mode)
    /\ told' = IF req[r].mode = "full" THEN told \cup {nextJob} ELSE told
    /\ EndTicker(r)
    /\ UNCHANGED <<registry, analysis, watch>>

InsertPin(r) ==
    /\ At(r, "pin")
    /\ watch' = [watch EXCEPT ![req[r].ticker].active = @ + 1]
    /\ EndTicker(r)
    /\ UNCHANGED <<jobs, nextJob, registry, analysis, told>>

-----------------------------------------------------------------------------
\* Steps of delete_ticker, in the order of the code.

\* delete_one on the registry; a ticker that is not there is a 404.
Unregister(r) ==
    /\ At(r, "unregister")
    /\ IF registry[req[r].ticker] = "absent"
       THEN EndTicker(r) /\ UNCHANGED registry
       ELSE /\ registry' = [registry EXCEPT ![req[r].ticker] = "absent"]
            /\ Goto(r, "analyses")
    /\ UNCHANGED <<jobs, nextJob, analysis, watch, told>>

DeleteAnalyses(r) ==
    /\ At(r, "analyses")
    /\ analysis' = [analysis EXCEPT ![req[r].ticker] = 0]
    /\ Goto(r, "unpin")
    /\ UNCHANGED <<jobs, nextJob, registry, watch, told>>

DeletePin(r) ==
    /\ At(r, "unpin")
    /\ DropPin(req[r].ticker)
    /\ Goto(r, "dequeue")
    /\ UNCHANGED <<jobs, nextJob, registry, analysis, told>>

\* Mutant: only the jobs not claimed yet are deleted.
DeletePendingJobs(r) ==
    /\ At(r, "dequeue")
    /\ jobs' = [j \in JobId |->
                   IF jobs[j].ticker = req[r].ticker /\ jobs[j].status = "pending"
                   THEN [jobs[j] EXCEPT !.status = "gone"]
                   ELSE jobs[j]]
    /\ EndTicker(r)
    /\ UNCHANGED <<nextJob, registry, analysis, watch, told>>

\* delete_many on pending and running jobs; the caches deleted after it hold
\* nothing that these modules read.
DeleteJobs(r) ==
    /\ At(r, "dequeue")
    /\ jobs' = [j \in JobId |->
                   IF j \in ActiveJobs(req[r].ticker)
                   THEN [jobs[j] EXCEPT !.status = "gone"]
                   ELSE jobs[j]]
    /\ EndTicker(r)
    /\ UNCHANGED <<nextJob, registry, analysis, watch, told>>

-----------------------------------------------------------------------------

Arrive(r) ==
    \/ PostQueue(r)
    \/ PostQueueAll(r)
    \/ PostAnalyze(r)
    \/ PostBulk(r)
    \/ PostOne(r)

Serve(r) ==
    \/ Lookup(r)
    \/ Reactivate(r)
    \/ RegisterTicker(r)
    \/ FindExisting(r)
    \/ Upgrade(r)
    \/ Insert(r)
    \/ InsertPin(r)
    \/ Unregister(r)
    \/ DeleteAnalyses(r)
    \/ DeletePin(r)
    \/ DeleteJobs(r)

ApiNext == PatchTicker \/ Unpin \/ \E r \in Req : Arrive(r) \/ Serve(r)
=============================================================================
