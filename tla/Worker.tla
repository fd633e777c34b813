-------------------------------- MODULE Worker --------------------------------
(***************************************************************************)
(* The loop of the agent runner (agent-runner/main.py): in each turn the   *)
(* daily workers that are due, the macro sweep, an earnings scan and a job *)
(* of the queue, in this order and in one process.  An exception skips the *)
(* rest of a turn.  The clock is the hour; DayHours make a day.  What the  *)
(* flow scan, the breadth run and a job do is in modules of their own.     *)
(***************************************************************************)
EXTENDS Economics, Macro, EarningsScans

CONSTANTS DayHours,     \* the hours of a day
          FirstDay,     \* the day of hour 0
          MaxHour,      \* bound: the last hour
          DueHour,      \* the *_hour_utc settings
          MaxScans,     \* bound: scans requested
          MaxDeaths,    \* bound: deaths of the process
          Focus         \* bound: the sets of workers that behaviours look at;
                        \* the others find nothing to do

Daily == {"flow", "breadth", "economics"}

ASSUME WorkerAssumption ==
    /\ DayHours \in Nat \ {0} /\ FirstDay \in Nat
    /\ MaxHour \in Nat /\ DayHours <= MaxHour /\ MaxDeaths \in Nat /\ MaxScans \in Nat
    /\ \E s \in Session : s <= FirstDay     \* the provider has published before
    /\ DueHour \in [Daily -> 0 .. DayHours - 1]

VARIABLES hour,         \* the clock, from DayHours on
          focus,        \* the workers of this behaviour
          turn,         \* the turn: [pc, now, due]
          lastRun,      \* last_scan_at and last_run_at of the daily workers
          manual,       \* manual_scan_requested
          job,          \* the work queue: "none", "pending", "done"
          deaths

loopVars == <<lastRun, manual, job>>
vars == <<economicsMarket, economicsStore, macroVars, scanVars,
          hour, focus, turn, loopVars, deaths>>

Day(h) == FirstDay + h \div DayHours
Today == Day(hour)

Init ==
    /\ EconomicsInit(Day(DayHours)) /\ MacroInit /\ ScansInit
    /\ hour = DayHours /\ focus \in Focus
    /\ turn = [pc |-> "flow", now |-> DayHours, due |-> {}]
    /\ lastRun = [w \in Daily |-> 0] /\ manual = FALSE
    /\ job = "none" /\ deaths = 0

At(pc) == turn.pc = pc
Goto(pc) == turn' = [turn EXCEPT !.pc = pc]
Skip(w, next) == At(w) /\ w \notin focus /\ Goto(next)

\* _scheduled_due, by the hour the turn began.
ScheduledDue(w, now) ==
    /\ now % DayHours >= DueHour[w]
    /\ lastRun[w] = 0 \/ Day(lastRun[w]) < Day(now)

\* last_run_at is the hour the turn began; a failure leaves it.
Record(w, ok, now) == lastRun' = IF ok THEN [lastRun EXCEPT ![w] = now] ELSE lastRun

-----------------------------------------------------------------------------
\* A turn.  run_daily_scan_if_due takes the manual request, whatever comes.
FlowTurn(ok) ==
    /\ At("flow") /\ "flow" \in focus
    /\ IF manual \/ ScheduledDue("flow", hour)
       THEN Record("flow", ok, hour) ELSE UNCHANGED lastRun
    /\ manual' = FALSE
    /\ turn' = [pc |-> "breadth", now |-> hour, due |-> {}]
    /\ UNCHANGED <<economicsMarket, economicsStore, macroVars, scanVars, hour, focus, job, deaths>>

SkipFlow ==
    /\ At("flow") /\ "flow" \notin focus
    /\ turn' = [pc |-> "breadth", now |-> hour, due |-> {}]

BreadthTurn(ok) ==
    /\ At("breadth") /\ "breadth" \in focus
    /\ IF ScheduledDue("breadth", turn.now)
       THEN Record("breadth", ok, turn.now) ELSE UNCHANGED lastRun
    /\ Goto("macro")
    /\ UNCHANGED <<economicsMarket, economicsStore, macroVars, scanVars, hour, focus, manual, job,
                   deaths>>

\* Mutant: the sweep is noted once it has succeeded.
MacroTurnLateThrottle ==
    /\ At("macro") /\ "macro" \in focus
    /\ IF Throttled(turn.now) \/ DueSectors(turn.now) = {}
       THEN Goto("economics") /\ UNCHANGED swept
       ELSE turn' = [turn EXCEPT !.pc = "fred", !.due = DueSectors(turn.now)] /\ UNCHANGED swept
    /\ UNCHANGED <<economicsMarket, economicsStore, fred, reads, scanVars, hour, focus, loopVars,
                   deaths>>

\* run_macro_refresh_if_due: the sweep is noted before its work.
MacroTurn ==
    /\ At("macro") /\ "macro" \in focus
    /\ swept' = IF Throttled(turn.now) THEN swept ELSE turn.now
    /\ IF Throttled(turn.now) \/ DueSectors(turn.now) = {} THEN Goto("economics")
       ELSE turn' = [turn EXCEPT !.pc = "fred", !.due = DueSectors(turn.now)]
    /\ UNCHANGED <<economicsMarket, economicsStore, fred, reads, scanVars, hour, focus, loopVars,
                   deaths>>

\* get_macro_data and get_yield_curve_status; a series that fails ends the turn.
FredTurn ==
    /\ \/ At("fred") /\ GetMacroData(Group, hour) /\ Goto("curve")
       \/ At("curve") /\ GetMacroData({"curve"}, hour) /\ Goto("reads")
    /\ UNCHANGED <<economicsMarket, economicsStore, reads, swept, scanVars, hour, focus, loopVars,
                   deaths>>
FredRaises ==
    /\ \/ At("fred") /\ MissingGroups(Group, hour) # {}
       \/ At("curve") /\ MissingGroups({"curve"}, hour) # {}
    /\ Goto("flow")
    /\ UNCHANGED <<economicsMarket, economicsStore, macroVars, scanVars, hour, focus, loopVars,
                   deaths>>

ReadsTurn ==
    /\ At("reads") /\ RefreshReads(turn.due, hour)
    /\ turn' = [turn EXCEPT !.pc = "economics", !.due = {}]
    /\ UNCHANGED <<economicsMarket, economicsStore, fred, swept, scanVars, hour, focus, loopVars,
                   deaths>>

\* run_daily_economics_if_due.
EconomicsTurn(ok) ==
    /\ At("economics") /\ "economics" \in focus
    /\ IF ScheduledDue("economics", turn.now)
       THEN /\ Record("economics", ok, turn.now)
            /\ IF ok THEN EconomicsPull(Today) ELSE EconomicsCrash(Today)
       ELSE UNCHANGED <<economicsStore, lastRun>>
    /\ Goto("scan")
    /\ UNCHANGED <<economicsMarket, macroVars, scanVars, hour, focus, manual, job, deaths>>

ScanTurn ==
    /\ At("scan") /\ "scan" \in focus
    /\ IF PendingScans = {} THEN Goto("job") /\ UNCHANGED scanVars
       ELSE Goto("scanning") /\ ClaimScan
    /\ UNCHANGED <<economicsMarket, economicsStore, macroVars, hour, focus, loopVars, deaths>>
ScanEnd ==
    /\ At("scanning") /\ FinishScan /\ Goto("job")
    /\ UNCHANGED <<economicsMarket, economicsStore, macroVars, hour, focus, loopVars, deaths>>

JobTurn ==
    /\ At("job") /\ "job" \in focus
    /\ job' = IF job = "pending" THEN "done" ELSE job
    /\ Goto("flow")
    /\ UNCHANGED <<economicsMarket, economicsStore, macroVars, scanVars, hour, focus, lastRun, manual,
                   deaths>>

\* What is not looked at finds nothing to do.
Pass ==
    /\ \/ SkipFlow \/ Skip("breadth", "macro") \/ Skip("macro", "economics")
       \/ Skip("economics", "scan") \/ Skip("scan", "job") \/ Skip("job", "flow")
    /\ UNCHANGED <<economicsMarket, economicsStore, macroVars, scanVars, hour, focus, loopVars,
                   deaths>>

\* The process dies, and forgets its sweep.
Die ==
    /\ deaths < MaxDeaths /\ deaths' = deaths + 1
    /\ Goto("flow") /\ swept' = 0 /\ LoseScan
    /\ UNCHANGED <<economicsMarket, economicsStore, fred, reads, hour, focus, loopVars>>

-----------------------------------------------------------------------------
\* The rest of the world.
Tick ==
    /\ focus # {"scan"}        \* bound: a scan does not look at the clock
    /\ hour < MaxHour /\ hour' = hour + 1
    /\ UNCHANGED <<economicsMarket, economicsStore, macroVars, scanVars, focus, turn, loopVars,
                   deaths>>

\* (Bound: one collection changes at the provider in a behaviour.)
Provider ==
    /\ \/ "treasury" \in focus /\ PublishSession(Today)
       \/ "calendar" \in focus /\ (ReportEvent(Today) \/ MoveEvent(Today))
       \/ "indicators" \in focus /\ PrintSeries(Today)
    /\ UNCHANGED <<economicsStore, macroVars, scanVars, hour, focus, turn, loopVars, deaths>>

AskScan ==
    /\ "scan" \in focus /\ Len(scans) < MaxScans /\ RequestScan
    /\ UNCHANGED <<economicsMarket, economicsStore, macroVars, hour, focus, turn, loopVars, deaths>>

AskFlow ==
    /\ "flow" \in focus /\ ~manual /\ manual' = TRUE
    /\ UNCHANGED <<economicsMarket, economicsStore, macroVars, scanVars, hour, focus, turn, lastRun,
                   job, deaths>>

AskJob ==
    /\ "job" \in focus /\ job = "none" /\ job' = "pending"
    /\ UNCHANGED <<economicsMarket, economicsStore, macroVars, scanVars, hour, focus, turn, lastRun,
                   manual, deaths>>

Succeeds == FlowTurn(TRUE) \/ BreadthTurn(TRUE) \/ EconomicsTurn(TRUE)
Fails == FlowTurn(FALSE) \/ BreadthTurn(FALSE) \/ EconomicsTurn(FALSE)
Turn == Succeeds \/ Fails \/ MacroTurn \/ FredTurn \/ FredRaises \/ ReadsTurn
        \/ ScanTurn \/ ScanEnd \/ JobTurn \/ Pass

Next == Turn \/ Die \/ Tick \/ Provider \/ AskScan \/ AskFlow \/ AskJob

\* The loop never stops; a daily worker that is tried again and again does not
\* fail for ever.  FRED may.
Spec == Init /\ [][Next]_vars
        /\ WF_vars(Turn) /\ SF_vars(FlowTurn(TRUE)) /\ SF_vars(BreadthTurn(TRUE))
        /\ SF_vars(EconomicsTurn(TRUE))

-----------------------------------------------------------------------------
TypeOK ==
    /\ EconomicsTypeOK(Day(MaxHour)) /\ MacroTypeOK(MaxHour) /\ ScansTypeOK
    /\ hour \in DayHours .. MaxHour /\ focus \in Focus
    /\ turn \in [pc : {"flow", "breadth", "macro", "fred", "curve", "reads", "economics", "scan",
                       "scanning", "job"},
                 now : DayHours .. MaxHour, due : SUBSET Sector]
    /\ lastRun \in [Daily -> 0 .. MaxHour] /\ manual \in BOOLEAN
    /\ job \in {"none", "pending", "done"} /\ deaths \in 0 .. MaxDeaths

\* Once the backfill is done the stored sessions have no hole that the provider's
\* do not have, but for sessions that were cut off: a page compares with the session
\* it should, a month or a day before, of all the others, however pulls failed and
\* wherever the process died (pull_treasury_rates, _store_treasury_rows,
\* get_treasury_curve, session_change).
OverlayIsTheProviders ==
    LET shown == {s \in Session : s <= Max(rates)} \ (cutOff \ rates) IN
    backfilled /\ rates # {} =>
        /\ CurveOverlay(rates) \in {0, CurveOverlay(shown)}
        /\ ChangeSince(rates, Session) \in {0, ChangeSince(shown, Session)}

\* As long as the event has not moved, a page shows it once, reported or ahead
\* (pull_economic_calendar's upsert, get_economic_calendar).
EventIsShownOnce == ~moved => Cardinality(Reported(Today) \cup Upcoming(Today)) <= 1

\* What the pages make of the collections is what the provider holds.
PagesAreTheProviders == OverlayIsTheProviders /\ EventIsShownOnce

\* What the meta calls a success has every Treasury session that was out then,
\* from the first one stored on, but for those cut off; the indicators may lack a
\* series (run_economics_pull).
SuccessIsComplete ==
    meta.status = "success" =>
        {s \in Session : s <= meta.pub /\ \E r \in rates : r <= s} \ cutOff \subseteq rates

\* A job is taken although the macro refresh raises whenever it is tried: it is
\* tried once an hour (macro_worker: the throttle precedes the work).
JobIsTaken == job = "pending" ~> job = "done"

\* A scan that is asked for ends, unless the process dies with it.
ScanEnds ==
    \A i \in 1 .. MaxScans :
        i \in PendingScans ~> i \notin PendingScans \cup (RunningScans \ lostScans)

\* A daily worker that is due runs, or its day passes: failures, deaths and
\* turns that FRED cut short notwithstanding ("retries the same day").
Due(w) == w \in focus /\ ScheduledDue(w, hour)
DueIsRun == \A w \in Daily : Due(w) ~> ~Due(w)
=============================================================================
