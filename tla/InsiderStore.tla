---------------------------- MODULE InsiderStore -----------------------------
(***************************************************************************)
(* The stored quarter of a ticker's insider transactions                   *)
(* (agent-runner/tools/insider.py).  A transaction is a record [filed,     *)
(* who, type, day, shares]: the code's merge key.  day = 0 is one without  *)
(* a date.  Prices and the aggregate statistics are left out.              *)
(***************************************************************************)
EXTENDS Integers, FiniteSetsExt

CONSTANTS LookbackDays,                     \* LOOKBACK_DAYS
          ClusterWindow, ClusterInsiders    \* CLUSTER_WINDOW_DAYS, CLUSTER_MIN_INSIDERS

ASSUME InsiderAssumption ==
    LookbackDays \in Nat /\ ClusterWindow \in Nat /\ ClusterInsiders \in Nat \ {0}

\* A transaction without a date never ages out.
InLookback(ts, day) == {t \in ts : t.day = 0 \/ t.day >= day - LookbackDays}

\* delta_from: a day back from the newest stored transaction date.
InsiderFrom(stored, day) ==
    LET dated == {t.day : t \in stored} \ {0} IN
    IF dated = {} THEN day - LookbackDays ELSE Max({day - LookbackDays, Max(dated) - 1})

TransactionKey(t) == <<t.filed, t.who, t.type, t.day, t.shares>>

\* merge_transactions: fetched wins on a key.
MergeTransactions(stored, fetched, day) ==
    LET keys == {TransactionKey(t) : t \in fetched} IN
    InLookback(fetched \cup {t \in stored : TransactionKey(t) \notin keys}, day)

Purchases(ts) == {t \in ts : t.type = "purchase" /\ t.day > 0}

\* Mutant: the last day of the window is left out.
BuyersBefore(ts, anchor) ==
    {t.who : t \in {u \in Purchases(ts) : u.day - anchor.day \in 0 .. ClusterWindow - 1}}

\* detect_cluster: enough insiders with a purchase within the window that some
\* purchase opens.
Buyers(ts, anchor) ==
    {t.who : t \in {u \in Purchases(ts) : u.day - anchor.day \in 0 .. ClusterWindow}}
DetectCluster(ts) ==
    \E t \in Purchases(ts) : Cardinality(Buyers(ts, t)) >= ClusterInsiders
=============================================================================
