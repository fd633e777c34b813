------------------------------ MODULE Economics ------------------------------
(***************************************************************************)
(* The economics of the Macro dashboard: the daily pull                    *)
(* (agent-runner/tools/economics.py) that fills four collections, each     *)
(* isolated from the failures of the others, and what the pages read from  *)
(* them (backend/routers/market.py).  A Treasury session, an indicator     *)
(* print and a risk premium are the day they are for; the calendar has one *)
(* event, with its day and whether it has an actual.  Yields are kept as   *)
(* the set of sessions that have both legs of a spread.                    *)
(***************************************************************************)
EXTENDS Integers, FiniteSetsExt

CONSTANTS Session,                      \* the days the Treasury publishes
          BackfillDays, WindowDays,     \* BACKFILL_TOTAL_DAYS, BACKFILL_WINDOW_DAYS
          BackDays, ForwardDays,        \* CALENDAR_BACK_DAYS, CALENDAR_FORWARD_DAYS
          Series,                       \* INDICATOR_SERIES
          MonthDays                     \* how far back the overlay of a curve goes

ASSUME EconomicsAssumption ==
    /\ Session \subseteq Nat /\ {BackfillDays, WindowDays, BackDays, ForwardDays} \subseteq Nat
    /\ WindowDays > 0 /\ MonthDays \in Nat
    /\ BackfillDays % (WindowDays + 1) # 0    \* as 730 and 90: the last window
                                              \* of a backfill reaches today

VARIABLES pub,          \* the provider's newest session
          event,        \* the provider's calendar event: [day, actual]
          moved,        \* the event has been rescheduled
          prints,       \* the provider's latest print of each series
          rates,        \* treasury_rates: the stored sessions
          backfilled,   \* dataset_meta.economics_backfill
          cutOff,       \* sessions that no later request reaches: in one wider than
                        \* the provider honours, before a backfill resumed late, or
                        \* older than what a store that was cut short had written
          rows,         \* economic_calendar_events
          readings,     \* economic_indicators: the prints stored, by series
          meta          \* dataset_meta.economics: status, day and, to state the
                        \* properties, pub then

economicsMarket == <<pub, event, moved, prints>>
economicsStore == <<rates, backfilled, cutOff, rows, readings, meta>>

EconomicsInit(day) ==
    /\ pub = Max({s \in Session : s < day}) /\ event \in [day : {day, day + 1}, actual : {FALSE}]
    /\ moved = FALSE /\ prints = [s \in Series |-> 0]
    /\ rates = {} /\ backfilled = FALSE /\ cutOff = {}
    /\ rows = {} /\ readings = [s \in Series |-> {}]
    /\ meta = [status |-> "none", at |-> 0, pub |-> 0]

-----------------------------------------------------------------------------
\* Mutant: a window starts two days after the one before it.
BackfillGapped(day) ==
    {<<first, Min({first + WindowDays, day})>> :
        first \in {f \in day - BackfillDays .. day - 1 :
                      (f - (day - BackfillDays)) % (WindowDays + 2) = 0}}

\* _backfill_windows: each starts the day after the one before it ends.
BackfillWindows(day) ==
    {<<first, Min({first + WindowDays, day})>> :
        first \in {f \in day - BackfillDays .. day - 1 :
                      (f - (day - BackfillDays)) % (WindowDays + 1) = 0}}

\* What the provider answers: of a range wider than it honours, the last part.
Asked(from, to) == {s \in Session : s <= pub /\ from <= s /\ s <= to}
Honoured(from, to) == Asked(Max({from, to - WindowDays}), to)

\* What an unfinished backfill began and the windows of a later one start after.
PassedBy(day) ==
    {s \in Session : s <= pub /\ s < day - BackfillDays /\ \E r \in rates : r < s} \ rates

\* pull_treasury_rates: windows oldest first until one fails; once all have been
\* answered, from the last stored session forward.
Begun(day) ==
    {done \in SUBSET BackfillWindows(day) :
        \A w \in done, v \in BackfillWindows(day) \ done : w[1] < v[1]}
Filled(done) == UNION {Honoured(w[1], w[2]) : w \in done}
TreasuryFrom(day) == IF rates = {} THEN day - BackfillDays ELSE Max(rates)
PullTreasury(day, ok) ==
    IF ~backfilled
    THEN /\ \E done \in Begun(day) :
                /\ ok <=> done = BackfillWindows(day)
                /\ rates' = rates \cup Filled(done)
         /\ backfilled' = ok
         /\ cutOff' = IF ok THEN cutOff \cup PassedBy(day) ELSE cutOff
    ELSE /\ rates' = IF ok THEN rates \cup Honoured(TreasuryFrom(day), day) ELSE rates
         /\ cutOff' = IF ok THEN cutOff \cup (Asked(TreasuryFrom(day), day) \ rates') ELSE cutOff
         /\ UNCHANGED backfilled

\* _store_treasury_rows upserts one row after another, in the order the provider
\* lists them: a death, or a yield that is no number, leaves any part of an
\* answer.  A backfill will ask for that answer again, a daily pull only for
\* what is newer than the part.
TreasuryCut(day) ==
    IF ~backfilled
    THEN /\ \E done, begun \in Begun(day) :
                /\ done \subseteq begun /\ Cardinality(begun \ done) <= 1
                /\ \E part \in SUBSET Filled(begun \ done) :
                      rates' = rates \cup Filled(done) \cup part
         /\ UNCHANGED <<backfilled, cutOff>>
    ELSE /\ \E part \in SUBSET Honoured(TreasuryFrom(day), day) :
                /\ rates' = rates \cup part
                /\ cutOff' = cutOff \cup
                       {s \in Asked(TreasuryFrom(day), day) \ rates' : \E r \in part : s < r}
         /\ UNCHANGED backfilled

\* pull_economic_calendar: upsert by day and event, then prune.
InCalendar(day) == day - BackDays .. day + ForwardDays
CalendarUpserted(day) ==
    IF event.day \in InCalendar(day) THEN {q \in rows : q.day # event.day} \cup {event} ELSE rows
CalendarRows(day) == {r \in CalendarUpserted(day) : r.day \in InCalendar(day)}
PullCalendar(day, ok) == rows' = IF ok THEN CalendarRows(day) ELSE rows

\* pull_economic_indicators: a failing series is skipped.
PullIndicators(failing) ==
    readings' = [s \in Series |->
        IF s \in failing \/ prints[s] = 0 THEN readings[s] ELSE readings[s] \cup {prints[s]}]

\* Mutant: the status is the last sub-pull's.
EconomicsPullLast(day) ==
    \E treasury, calendar, premium \in BOOLEAN, failing \in SUBSET Series :
        /\ PullTreasury(day, treasury) /\ PullCalendar(day, calendar) /\ PullIndicators(failing)
        /\ meta' = IF premium
                   THEN [status |-> "success", at |-> day, pub |-> pub]
                   ELSE [meta EXCEPT !.status = "failed"]

\* run_economics_pull.  The risk premium is one row, replaced in place: only
\* whether its call failed matters here.
EconomicsPull(day) ==
    \E treasury, calendar, premium \in BOOLEAN, failing \in SUBSET Series :
        /\ PullTreasury(day, treasury) /\ PullCalendar(day, calendar) /\ PullIndicators(failing)
        /\ meta' = IF treasury /\ calendar /\ premium
                   THEN [status |-> "success", at |-> day, pub |-> pub]
                   ELSE [meta EXCEPT !.status = "failed"]

\* The process dies, or something other than the provider raises: in the Treasury
\* rows, the calendar's upserts, or after some series of the indicators.
EconomicsCrash(day) ==
    /\ \/ TreasuryCut(day) /\ UNCHANGED <<rows, readings>>
       \/ /\ \E ok \in BOOLEAN : PullTreasury(day, ok)
          /\ \/ rows' \in {rows, CalendarUpserted(day)} /\ UNCHANGED readings
             \/ /\ \E ok \in BOOLEAN : PullCalendar(day, ok)
                /\ \E failing \in SUBSET Series : PullIndicators(failing)
    /\ UNCHANGED meta

-----------------------------------------------------------------------------
\* The provider.  Sessions come out in order; the event is reported on its day
\* or later, or moved while it is ahead.
PublishSession(day) ==
    /\ \E s \in Session : pub < s /\ s <= day /\ pub' = Min({t \in Session : pub < t})
    /\ UNCHANGED <<event, moved, prints>>
ReportEvent(day) ==
    /\ ~event.actual /\ event.day <= day /\ event' = [event EXCEPT !.actual = TRUE]
    /\ UNCHANGED <<pub, moved, prints>>
MoveEvent(day) ==
    /\ ~moved /\ event.day > day /\ event' = [event EXCEPT !.day = @ + 1] /\ moved' = TRUE
    /\ UNCHANGED <<pub, prints>>
PrintSeries(day) ==
    /\ \E s \in Series : prints[s] < day /\ prints' = [prints EXCEPT ![s] = day]
    /\ UNCHANGED <<pub, event, moved>>

-----------------------------------------------------------------------------
\* The pages.

\* nearest_session: the last one at or before the day asked for; 0 is none.
NearestSession(dates, target) == Max({0} \cup {d \in dates : d <= target})

\* get_treasury_curve: the current session and the one a month before it.
CurveOverlay(dates) ==
    IF dates = {} THEN 0 ELSE NearestSession(dates, Max(dates) - MonthDays)

\* session_change compares the last session that has both legs with the one
\* before it that has.
ChangeSince(dates, bothLegs) ==
    LET s == dates \cap bothLegs IN IF Cardinality(s) < 2 THEN 0 ELSE Max(s \ {Max(s)})

\* get_economic_calendar: past events without an actual are in neither list.
Reported(day) == {r \in rows : r.actual /\ r.day \in InCalendar(day)}
Upcoming(day) == {r \in rows : ~r.actual /\ r.day \in day .. day + ForwardDays}

-----------------------------------------------------------------------------
EconomicsTypeOK(lastDay) ==
    /\ pub \in Session /\ rates \subseteq {s \in Session : s <= pub} /\ backfilled \in BOOLEAN
    /\ cutOff \subseteq {s \in Session : s <= pub}
    /\ event \in [day : Nat, actual : BOOLEAN] /\ moved \in BOOLEAN
    /\ rows \subseteq [day : Nat, actual : BOOLEAN]
    /\ prints \in [Series -> 0 .. lastDay] /\ readings \in [Series -> SUBSET (1 .. lastDay)]
    /\ meta \in [status : {"none", "success", "failed"}, at : 0 .. lastDay,
                 pub : {0} \cup Session]
=============================================================================
