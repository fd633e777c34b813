------------------------------ MODULE JobBoard ------------------------------
(***************************************************************************)
(* What the work queue promises, whoever posts and whatever crashes: a job *)
(* is posted once, executed by the one executor there is, handed back only *)
(* when nobody is executing it, finished only by the executor that holds   *)
(* it, and then final.  Its mode may be raised to "full", never lowered.   *)
(***************************************************************************)
EXTENDS Naturals

CONSTANTS JobId, NoJob

VARIABLES
    status,         \* of every job
    mode,           \* of every job
    executing       \* the job the executor holds, or NoJob

boardVars == <<status, mode, executing>>

Final == {"done", "failed", "delisted", "gone"}

Init ==
    /\ status = [j \in JobId |-> "none"]
    /\ mode = [j \in JobId |-> "delta"]
    /\ executing = NoJob

Post(j, m) ==
    /\ status[j] = "none"
    /\ status' = [status EXCEPT ![j] = "pending"]
    /\ mode' = [mode EXCEPT ![j] = m]
    /\ UNCHANGED executing

Raise(j) ==
    /\ status[j] # "none"
    /\ mode' = [mode EXCEPT ![j] = "full"]
    /\ UNCHANGED <<status, executing>>

Take(j) ==
    /\ executing = NoJob
    /\ status[j] = "pending"
    /\ status' = [status EXCEPT ![j] = "running"]
    /\ executing' = j
    /\ UNCHANGED mode

\* The executor lets go of its job, with an outcome unless it was withdrawn.
Finish ==
    /\ executing # NoJob
    /\ \/ /\ status[executing] = "running"
          /\ \E s \in {"done", "failed", "delisted"} :
                status' = [status EXCEPT ![executing] = s]
       \/ status[executing] = "gone" /\ UNCHANGED status
    /\ executing' = NoJob
    /\ UNCHANGED mode

\* The executor dies: the job it held keeps the status it had.
Abandon ==
    /\ executing # NoJob
    /\ executing' = NoJob
    /\ UNCHANGED <<status, mode>>

\* Running jobs that nobody executes go back to pending.
Requeue ==
    /\ \E S \in SUBSET {j \in JobId : status[j] = "running" /\ j # executing} :
          status' = [j \in JobId |-> IF j \in S THEN "pending" ELSE status[j]]
    /\ UNCHANGED <<mode, executing>>

\* Active jobs are withdrawn, the one being executed included.
Withdraw ==
    /\ \E S \in SUBSET {j \in JobId : status[j] \in {"pending", "running"}} :
          status' = [j \in JobId |-> IF j \in S THEN "gone" ELSE status[j]]
    /\ UNCHANGED <<mode, executing>>

Next ==
    \/ \E j \in JobId, m \in {"delta", "full"} : Post(j, m)
    \/ \E j \in JobId : Raise(j) \/ Take(j)
    \/ Finish
    \/ Abandon
    \/ Requeue
    \/ Withdraw

Spec == Init /\ [][Next]_boardVars
=============================================================================
