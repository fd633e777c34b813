------------------------------ MODULE Position -------------------------------
(***************************************************************************)
(* The stair-step trailing stop of one swing position                      *)
(* (agent-runner/skills/position_management.py).  A position is            *)
(* [entry, since, stop]; its prices are integers in units of the buffer's  *)
(* resolution.                                                             *)
(***************************************************************************)
EXTENDS Integers, Sequences

CONSTANTS StopBuffer,       \* stop_buffer_fixed
          MinProfitPct,     \* min_profit_to_trail, in percent
          MaxDaysHeld,      \* max_days_held, 0 for none
          WarnDays          \* EARNINGS_WARN_DAYS

ASSUME PositionAssumption == StopBuffer \in Nat /\ MinProfitPct \in Nat

Report(action, stop, alerts) == [action |-> action, newStop |-> stop, alerts |-> alerts]

EarningsAlert(today, earnings) ==
    IF \E e \in earnings : e - today \in 0 .. WarnDays THEN {"earnings"} ELSE {}

\* The stop walks up to just below the prior low, once the profit is there.
Trail(p, prior, today, alerts) ==
    LET candidate == prior.l - StopBuffer
        held == IF MaxDaysHeld > 0 /\ today.d - p.since > MaxDaysHeld THEN {"held"} ELSE {}
    IN  IF /\ 100 * (today.c - p.entry) >= MinProfitPct * p.entry
           /\ candidate > p.stop
        THEN Report("UPDATE", candidate, alerts \cup held \cup {"raised"})
        ELSE Report("HOLD", p.stop, alerts \cup held)

\* Mutant: an unfavorable market is looked at before the exits.
ManageConditionFirst(p, prior, today, condition, earnings) ==
    IF condition = "unfavorable" THEN Report("REVIEW", p.stop, {})
    ELSE IF today.l <= p.stop THEN Report("EXIT", p.stop, {})
    ELSE Trail(p, prior, today, {})

\* run with the default configuration: exits first, then the market's
\* condition, then the trail.
Manage(p, prior, today, condition, earnings) ==
    LET alerts == EarningsAlert(today.d, earnings) IN
    IF today.o <= p.stop THEN Report("EXIT", p.stop, alerts \cup {"gapped"})
    ELSE IF today.l <= p.stop THEN Report("EXIT", p.stop, alerts)
    ELSE IF condition = "unfavorable" THEN Report("REVIEW", p.stop, alerts \cup {"review"})
    ELSE Trail(p, prior, today, alerts)
=============================================================================
