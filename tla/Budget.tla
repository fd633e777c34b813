------------------------------- MODULE Budget --------------------------------
(***************************************************************************)
(* The daily FMP budget (agent-runner/tools/fmp_client.py, tools/db.py,    *)
(* backend/fmp.py): one counter document per UTC day, incremented by every *)
(* guarded call of either service before the cap is compared, so a refused *)
(* call counts too.  The counter is kept up to one past the cap.           *)
(***************************************************************************)
EXTENDS Integers, FiniteSetsExt

CONSTANT Cap        \* fmp_daily_soft_cap; 0 disables it

ASSUME CapAssumption == Cap \in Nat

VARIABLES calls,    \* fmp_usage: today's count
          sent      \* today's requests that reached the provider

budgetVars == <<calls, sent>>

\* Mutant: the count before the increment is compared.
RefusedLate(k) == Cap > 0 /\ calls + k - 1 > Cap

\* Of the calls made from now on, the k-th is refused.
Refused(k) == Cap > 0 /\ calls + k > Cap

\* n calls, of which those that are not refused are sent.
Spend(n) ==
    /\ calls' = IF Cap = 0 THEN 0 ELSE Min({calls + n, Cap + 1})
    /\ sent' = IF Cap = 0 THEN 0 ELSE sent + Cardinality({k \in 1 .. n : ~Refused(k)})

NewBudgetDay == calls' = 0 /\ sent' = 0

BudgetInit == calls = 0 /\ sent = 0
BudgetTypeOK == calls \in 0 .. Cap + 1 /\ sent \in Nat
=============================================================================
