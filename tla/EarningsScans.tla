---------------------------- MODULE EarningsScans ----------------------------
(***************************************************************************)
(* Earnings scans: requested through the API (backend/routers/earnings.py),*)
(* claimed one by one (agent-runner/earnings_scan_worker.py), run over the *)
(* largest companies that report (agents/earnings_scanner.py).  A company  *)
(* is a number, by market capitalisation; a smaller number is larger.  A   *)
(* score is kept in tenths of a point until it is rounded; theses and      *)
(* names are left out.                                                     *)
(***************************************************************************)
EXTENDS Integers, Sequences, FiniteSetsExt, Functions

CONSTANTS Company,          \* the companies on the calendar
          MaxCandidates,    \* MAX_CANDIDATES
          Found             \* bound: what enriching a company may find: [move,
                            \* beat, ups, downs, cluster, buys, accumulation]

ASSUME EarningsAssumption ==
    /\ IsFiniteSet(Company) /\ Company \subseteq Nat /\ MaxCandidates \in Nat
    /\ Found \subseteq [move : Nat, beat : 0 .. 100, ups : Nat, downs : Nat, cluster : BOOLEAN,
                        buys : Nat, accumulation : 0 .. 5]

VARIABLES scans,            \* earnings_scans: documents in order of request
          lostScans         \* those whose process died

scanVars == <<scans, lostScans>>

ScansInit == scans = <<>> /\ lostScans = {}

\* start_scan.
RequestScan ==
    /\ scans' = Append(scans, [status |-> "pending", ranked |-> <<>>])
    /\ UNCHANGED lostScans

PendingScans == {i \in DOMAIN scans : scans[i].status = "pending"}
RunningScans == {i \in DOMAIN scans : scans[i].status = "running"}

\* claim_and_run_next_scan: the oldest pending one.
ClaimScan == scans' = [scans EXCEPT ![Min(PendingScans)].status = "running"]
             /\ UNCHANGED lostScans

-----------------------------------------------------------------------------
\* _eps_revision_direction and _insider_signal, in tenths of a point.
RevisionPts(f) == IF f.ups > f.downs THEN 200 ELSE IF f.downs > f.ups THEN 0 ELSE 100
InsiderPts(f) == IF f.cluster THEN 200 ELSE IF f.buys > 0 THEN 100 ELSE 0

\* The move, in percent, against its ceiling of fifteen.
MovePts(f) == (Min({f.move, 15}) * 250 + 7) \div 15

\* score_candidate: the beat rate in percent, the accumulation score out of 5.
Score(f) ==
    (MovePts(f) + f.beat * 2 + RevisionPts(f) + InsiderPts(f) + f.accumulation * 30 + 5) \div 10

\* The largest companies of the calendar.
Pool(calendar) == {c \in calendar : Cardinality({d \in calendar : d < c}) < MaxCandidates}

\* Mutant: the lowest score first.
RankedUpwards(enriched) ==
    CHOOSE r \in [1 .. Cardinality(DOMAIN enriched) -> DOMAIN enriched] :
        /\ IsInjective(r)
        /\ \A i, j \in DOMAIN r : i < j => Score(enriched[r[i]]) <= Score(enriched[r[j]])

\* By score; the order of the pool among equals.
Ranked(enriched) ==
    CHOOSE r \in [1 .. Cardinality(DOMAIN enriched) -> DOMAIN enriched] :
        /\ IsInjective(r)
        /\ \A i, j \in DOMAIN r : i < j =>
              \/ Score(enriched[r[i]]) > Score(enriched[r[j]])
              \/ Score(enriched[r[i]]) = Score(enriched[r[j]]) /\ r[i] < r[j]

\* Mutant: an exception is logged and not written.
FinishScanUnrecorded ==
    \E i \in RunningScans \ lostScans :
        /\ scans' \in {scans, [scans EXCEPT ![i].status = "complete"]}
        /\ UNCHANGED lostScans

\* run_scan: a company that cannot be enriched is left out; the scan fails with
\* its calendar.
FinishScan ==
    \E i \in RunningScans \ lostScans :
        /\ \/ scans' = [scans EXCEPT ![i].status = "failed"]
           \/ \E calendar \in SUBSET Company : \E done \in SUBSET Pool(calendar) :
                 \E enriched \in [done -> Found] :
                    LET r == Ranked(enriched) IN
                    scans' = [scans EXCEPT ![i] =
                        [status |-> "complete",
                         ranked |-> [k \in DOMAIN r |-> [company |-> r[k],
                                                         score |-> Score(enriched[r[k]])]]]]
        /\ UNCHANGED lostScans

\* The process dies: nothing takes its scan up again.
LoseScan == lostScans' = lostScans \cup RunningScans /\ UNCHANGED scans

\* A scan's list is a ranking of companies: scores from 0 to 100 that never
\* rise, and no company twice.
IsRanking(r) ==
    /\ r \in Seq([company : Company, score : 0 .. 100])
    /\ \A j, k \in DOMAIN r :
          j < k => r[j].score >= r[k].score /\ r[j].company # r[k].company
ScansTypeOK ==
    /\ \A i \in DOMAIN scans :
          /\ scans[i].status \in {"pending", "running", "complete", "failed"}
          /\ IsRanking(scans[i].ranked)
    /\ lostScans \subseteq DOMAIN scans
=============================================================================
