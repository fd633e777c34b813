----------------------------- MODULE Statements ------------------------------
(***************************************************************************)
(* The caches a pull reads beside price, news and insider transactions:    *)
(* the financial statements of a ticker with their outcomes                *)
(* (agent-runner/tools/financials.py) and the shared list of superinvestor *)
(* moves (tools/superinvestor.py).                                         *)
(***************************************************************************)
EXTENDS Integers, FiniteSetsExt

CONSTANTS Statement,    \* the keys of ENDPOINTS, in the order they are asked
          Income,       \* income_annual, income_quarterly
          CacheDays,    \* financials.CACHE_DAYS
          MovesDays     \* superinvestor.CACHE_DAYS

ASSUME StatementAssumption ==
    /\ IsFiniteSet(Statement) /\ Statement = 1 .. Cardinality(Statement)
    /\ Income \subseteq Statement /\ CacheDays \in Nat

\* The document: the day of its last full fetch (0: none), what each statement
\* holds, and the day the provider confirmed it.  A document without outcomes
\* has the same meaning: its empty statements are unavailable.
NoStatements ==
    [at |-> 0, of |-> [k \in Statement |-> "unavailable"], on |-> [k \in Statement |-> 0]]

Warm(fin, day) == fin.at > 0 /\ day - fin.at < CacheDays

\* Mutant: a warm document is asked for again as a whole.
RetryEvery(fin, day) == Statement

\* The statements get_financials asks for, in order.
RetryKeys(fin, day) ==
    IF Warm(fin, day) THEN {k \in Statement : fin.of[k] = "unavailable"} ELSE Statement

\* Mutant: a partial retry renews the document.
RefetchedSliding(fin, day, answer) ==
    [at |-> day,
     of |-> [k \in Statement |-> IF k \in DOMAIN answer THEN answer[k] ELSE fin.of[k]],
     on |-> [k \in Statement |-> IF k \in DOMAIN answer THEN day ELSE fin.on[k]]]

\* The document with the answers in it; a partial retry leaves its day alone.
Refetched(fin, day, answer) ==
    [at |-> IF Warm(fin, day) THEN fin.at ELSE day,
     of |-> [k \in Statement |-> IF k \in DOMAIN answer THEN answer[k] ELSE fin.of[k]],
     on |-> [k \in Statement |-> IF k \in DOMAIN answer THEN day ELSE fin.on[k]]]

HasIncome(fin) == \E k \in Income : fin.of[k] = "rows"

-----------------------------------------------------------------------------
\* The shared superinvestor document: its list and the day of its scrape, and
\* the day of the last pull in its own document.
MovesFresh(cache, day) == cache.at > 0 /\ day - cache.at < MovesDays

\* Mutant: what was posted on the day of the last pull is taken as seen.
MovesAfter(posted, lastPull) == {m \in posted : m > lastPull}
MovesSince(posted, lastPull) == {m \in posted : m >= lastPull}
=============================================================================
