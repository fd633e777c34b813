------------------------------- MODULE Breadth -------------------------------
(***************************************************************************)
(* The daily market-breadth pass of agent-runner: tools/breadth.py, called *)
(* by breadth_worker.py from the main loop and by a crew's breadth stage.  *)
(* It serves or recomputes the rows of breadth_cache, reads the SPY/NYMO   *)
(* divergence off them, and keeps the divergences and their feed events.   *)
(*                                                                         *)
(* Both callers run in the one loop of the one worker process, so there is *)
(* one call at a time; what interleaves with it is the clock, the provider *)
(* and the death of the process between any two database operations.       *)
(*                                                                         *)
(* A row is represented by the day it was computed on, a reading by the    *)
(* last session that went into it: signal says what detect_divergence      *)
(* finds in ten consecutive sessions ending there.                         *)
(***************************************************************************)
EXTENDS Integers, FiniteSets, Sequences

CONSTANTS
    FirstDay, MaxDay,   \* the days of a behaviour (the bound)
    Session,            \* the days on which the market trades, earlier ones too
    Lookback,           \* lookback_days, in sessions
    Window,             \* DIVERGENCE_WINDOW
    Forward,            \* FORWARD_WINDOWS
    Kind,               \* the types of divergence
    Exchange,           \* EXCHANGES
    MaxFault,           \* bound: outages and failures
    MaxCrash            \* bound: deaths of the worker process

ASSUME BreadthAssumption ==
    /\ FirstDay \in Nat \ {0} /\ MaxDay \in Nat /\ FirstDay <= MaxDay
    /\ Session \subseteq 1..MaxDay
    /\ Lookback \in Nat \ {0} /\ Window \in Nat \ {0}
    /\ Forward \subseteq Nat \ {0} /\ IsFiniteSet(Forward)
    /\ "none" \notin Kind
    /\ "nyse" \in Exchange /\ Exchange \subseteq {"nyse", "nasdaq"}
    /\ MaxFault \in Nat /\ MaxCrash \in Nat

VARIABLES
    day, evening,   \* the UTC day, and whether breadth_refresh_hour_utc has come
    signal,         \* the divergence the market shows at each session
    bars,           \* the last day each stored price series covers (price_history)
    cache,          \* breadth_cache: computed_on of each row, 0 when there is none
    spyClose,       \* the nyse rows that carry spy_close
    divs,           \* breadth_divergences, oldest first
    last,           \* breadth_meta, last_divergence
    events,         \* market_flow_events, by (type, day)
    lastRun,        \* breadth_meta, last_run_at
    call,           \* the get_market_breadth call in progress
    faults, crashes

clock == <<day, evening, signal>>
rows == <<bars, cache, spyClose>>
track == <<divs, last, events>>
vars == <<clock, rows, track, lastRun, call, faults, crashes>>

Day == 1..MaxDay
Kinds == Kind \cup {"none"}

\* The days whose bar the provider has: a session's prints when it has closed.
Printed == IF evening THEN day ELSE day - 1

Newest(n, S) == {d \in S : Cardinality({e \in S : e > d}) < n}
Covered(b) == Newest(Lookback, {s \in Session : s <= b})
Rows(e) == {d \in Session : cache[e][d] # 0}
Opened == {i \in DOMAIN divs : divs[i].resolved = 0}
OpenType == IF Opened = {} THEN "none" ELSE divs[CHOOSE i \in Opened : TRUE].type

Idle == [pc |-> "idle"]
Busy == [pc : {"nyse", "nyse write", "nasdaq", "nasdaq write", "spy", "spy write",
               "fill", "meta", "find", "resolve", "insert", "emit", "finish"},
         by : {"worker", "crew"}, now : Day, today : Day, left : SUBSET Session,
         nymo : SUBSET Session, spy : SUBSET Session, type : Kinds]
Divergence == [type : Kind, detected : Day, resolved : Day \cup {0},
               change : [Forward -> Session \cup {0}]]

TypeOK ==
    /\ day \in FirstDay..MaxDay /\ evening \in BOOLEAN
    /\ signal \in [Session -> Kinds]
    /\ bars \in [Exchange \cup {"SPY"} -> Day \cup {0}]
    /\ cache \in [Exchange -> [Session -> Day \cup {0}]]
    /\ spyClose \subseteq Session
    /\ divs \in Seq(Divergence)
    /\ last \in Kinds
    /\ events \subseteq Kind \X Day
    /\ lastRun \in Day \cup {0}
    /\ call \in {Idle} \cup Busy
    /\ faults \in 0..MaxFault /\ crashes \in 0..MaxCrash

Init ==
    /\ day = FirstDay /\ evening = FALSE
    /\ signal \in [Session -> Kinds]
    /\ bars = [s \in Exchange \cup {"SPY"} |-> 0]
    /\ cache = [e \in Exchange |-> [d \in Session |-> 0]]
    /\ spyClose = {}
    /\ divs = <<>> /\ last = "none" /\ events = {} /\ lastRun = 0
    /\ call = Idle /\ faults = 0 /\ crashes = 0

At(pc) == call.pc = pc
Goto(pc) == call' = [call EXCEPT !.pc = pc]

-----------------------------------------------------------------------------
\* Who calls.

Begin(by, now) ==
    call' = [pc |-> "nyse", by |-> by, now |-> now, today |-> day, left |-> {},
             nymo |-> {}, spy |-> {}, type |-> "none"]

\* The evenings in which the worker's turn of the loop may have begun: this one,
\* or the last when the scan before it in the turn ran past midnight.
TurnOf(now) == (now = day /\ evening) \/ now = day - 1

\* _scheduled_due
Scheduled(now) == TurnOf(now) /\ lastRun < now

\* run_daily_breadth_if_due
StartWorker ==
    /\ call = Idle
    /\ \E now \in FirstDay..day : Scheduled(now) /\ Begin("worker", now)
    /\ UNCHANGED <<clock, rows, track, lastRun, faults, crashes>>

\* Crew._prefetch, the breadth stage of a pull
StartCrew ==
    /\ call = Idle
    /\ Begin("crew", day)
    /\ UNCHANGED <<clock, rows, track, lastRun, faults, crashes>>

\* get_universe raises: neither the constituent endpoint nor the scrape answers.
\* The caller logs it; the worker leaves last_run_at as it is.
Fail ==
    /\ call.pc \in Exchange
    /\ faults < MaxFault
    /\ faults' = faults + 1
    /\ call' = Idle
    /\ UNCHANGED <<clock, rows, track, lastRun, crashes>>

-----------------------------------------------------------------------------
\* _breadth_records, for each exchange in turn.

AfterRows(e) == IF e = "nyse" /\ "nasdaq" \in Exchange THEN "nasdaq" ELSE "spy"
Writing(e) == IF e = "nyse" THEN "nyse write" ELSE "nasdaq write"
Reading(e, dates) == IF e = "nyse" THEN dates ELSE call.nymo

\* A row computed today is there: the newest rows are served.
ServeRows(e) ==
    /\ At(e)
    /\ \E d \in Session : cache[e][d] = day
    /\ call' = [call EXCEPT !.pc = AfterRows(e),
                            !.nymo = Reading(e, Newest(Lookback, Rows(e)))]
    /\ UNCHANGED <<clock, rows, track, lastRun, faults, crashes>>

\* Otherwise the stored series are extended to what has printed (or served as
\* they are while the provider is out), and the window is recomputed.
Sweep(e) ==
    /\ At(e)
    /\ \A d \in Session : cache[e][d] # day
    /\ \/ bars' = [bars EXCEPT ![e] = Printed] /\ UNCHANGED faults
       \/ faults < MaxFault /\ faults' = faults + 1 /\ UNCHANGED bars
    /\ call' = [call EXCEPT !.pc = Writing(e), !.today = day,
                            !.left = Covered(bars'[e]),
                            !.nymo = Reading(e, Covered(bars'[e]))]
    /\ UNCHANGED <<clock, cache, spyClose, track, lastRun, crashes>>

\* Mutant: newest row first.
WriteNewestRow(e) ==
    /\ At(Writing(e))
    /\ \E d \in call.left :
          /\ \A o \in call.left : d >= o
          /\ cache' = [cache EXCEPT ![e][d] = call.today]
          /\ spyClose' = IF e = "nyse" THEN spyClose \ {d} ELSE spyClose
          /\ call' = [call EXCEPT !.left = @ \ {d}]
    /\ UNCHANGED <<clock, bars, track, lastRun, faults, crashes>>

\* One replace_one per row, oldest first; it drops the row's spy_close.
WriteRow(e) ==
    /\ At(Writing(e))
    /\ \E d \in call.left :
          /\ \A o \in call.left : d <= o
          /\ cache' = [cache EXCEPT ![e][d] = call.today]
          /\ spyClose' = IF e = "nyse" THEN spyClose \ {d} ELSE spyClose
          /\ call' = [call EXCEPT !.left = @ \ {d}]
    /\ UNCHANGED <<clock, bars, track, lastRun, faults, crashes>>

RowsWritten(e) ==
    /\ At(Writing(e)) /\ call.left = {}
    /\ Goto(AfterRows(e))
    /\ UNCHANGED <<clock, rows, track, lastRun, faults, crashes>>

-----------------------------------------------------------------------------
\* _spy_records and detect_divergence.

\* Too few sessions that have both readings, or what the newest of them shows.
Detected(nymo, spy) ==
    IF Cardinality(nymo \cap spy) < Window THEN {"none"}
    ELSE {signal[d] : d \in Newest(1, nymo \cap spy)}

Read(spy) ==
    \E type \in Detected(call.nymo, spy) :
        call' = [call EXCEPT !.pc = "fill", !.today = day, !.spy = spy, !.type = type]

SpyCached ==
    /\ At("spy") /\ call.nymo \subseteq spyClose
    /\ Read(call.nymo)
    /\ UNCHANGED <<clock, rows, track, lastRun, faults, crashes>>

\* The series is extended, or served as it is stored.
SpyDownload ==
    /\ At("spy") /\ ~(call.nymo \subseteq spyClose)
    /\ \/ bars' = [bars EXCEPT !["SPY"] = Printed] /\ UNCHANGED faults
       \/ faults < MaxFault /\ faults' = faults + 1 /\ UNCHANGED bars
    /\ LET closes == {d \in call.nymo : d <= bars'["SPY"]}
       IN  call' = [call EXCEPT !.pc = "spy write", !.left = closes, !.spy = closes]
    /\ UNCHANGED <<clock, cache, spyClose, track, lastRun, crashes>>

\* It raises: the read goes on with spy = [].
SpyUnavailable ==
    /\ At("spy") /\ ~(call.nymo \subseteq spyClose)
    /\ faults < MaxFault
    /\ faults' = faults + 1
    /\ call' = [call EXCEPT !.pc = "fill", !.today = day, !.spy = {}, !.type = "none"]
    /\ UNCHANGED <<clock, rows, track, lastRun, crashes>>

WriteSpy ==
    /\ At("spy write")
    /\ \E d \in call.left :
          /\ \A o \in call.left : d <= o
          /\ spyClose' = IF d \in Rows("nyse") THEN spyClose \cup {d} ELSE spyClose
          /\ call' = [call EXCEPT !.left = @ \ {d}]
    /\ UNCHANGED <<clock, bars, cache, track, lastRun, faults, crashes>>

SpyWritten ==
    /\ At("spy write") /\ call.left = {}
    /\ Read(call.spy)
    /\ UNCHANGED <<clock, rows, track, lastRun, faults, crashes>>

-----------------------------------------------------------------------------
\* update_divergence_tracking, in its database operations.

\* Mutant: one session early.
ForwardOneEarly(spy, from, n) ==
    {d \in spy : from \in spy /\ d >= from
                 /\ Cardinality({e \in spy : from <= e /\ e <= d}) = n}

\* _forward_change: the session the n-th after from, once it has printed.
ForwardChange(spy, from, n) ==
    {d \in spy : from \in spy /\ d >= from
                 /\ Cardinality({e \in spy : from <= e /\ e <= d}) = n + 1}

Fillable(i) ==
    {n \in Forward : divs[i].resolved # 0 /\ divs[i].change[n] = 0
                     /\ ForwardChange(call.spy, divs[i].resolved, n) # {}}

\* _fill_forward_returns, one update_one per resolved divergence.
FillForward ==
    /\ At("fill")
    /\ \E i \in DOMAIN divs :
          /\ Fillable(i) # {}
          /\ divs' = [divs EXCEPT ![i].change =
                [n \in Forward |->
                    IF n \in Fillable(i)
                    THEN CHOOSE d \in ForwardChange(call.spy, divs[i].resolved, n) : TRUE
                    ELSE @[n]]]
    /\ UNCHANGED <<clock, rows, last, events, lastRun, call, faults, crashes>>

ForwardFilled ==
    /\ At("fill") /\ \A i \in DOMAIN divs : Fillable(i) = {}
    /\ Goto("meta")
    /\ UNCHANGED <<clock, rows, track, lastRun, faults, crashes>>

SetLast ==
    /\ At("meta")
    /\ last' = call.type
    /\ Goto("find")
    /\ UNCHANGED <<clock, rows, divs, events, lastRun, faults, crashes>>

\* Mutant: nothing looks for an open divergence.
FindActiveNever ==
    /\ At("find")
    /\ Goto(IF call.type # "none" THEN "insert" ELSE "finish")
    /\ UNCHANGED <<clock, rows, track, lastRun, faults, crashes>>

\* find_one of an open divergence: unchanged, to be resolved, or none there.
FindActive ==
    /\ At("find")
    /\ Goto(CASE Opened # {} /\ OpenType = call.type -> "finish"
              [] Opened # {} /\ OpenType # call.type -> "resolve"
              [] Opened = {} /\ call.type = "none" -> "finish"
              [] OTHER -> "insert")
    /\ UNCHANGED <<clock, rows, track, lastRun, faults, crashes>>

\* Mutant: a divergence that changes type is resolved only.
ResolveAndReturn ==
    /\ At("resolve")
    /\ \E i \in Opened : divs' = [divs EXCEPT ![i].resolved = call.today]
    /\ Goto("finish")
    /\ UNCHANGED <<clock, rows, last, events, lastRun, faults, crashes>>

Resolve ==
    /\ At("resolve")
    /\ \E i \in Opened : divs' = [divs EXCEPT ![i].resolved = call.today]
    /\ Goto(IF call.type = "none" THEN "finish" ELSE "insert")
    /\ UNCHANGED <<clock, rows, last, events, lastRun, faults, crashes>>

\* Mutant: the date is read again.
InsertDatedAgain ==
    /\ At("insert")
    /\ divs' = Append(divs, [type |-> call.type, detected |-> day, resolved |-> 0,
                             change |-> [n \in Forward |-> 0]])
    /\ Goto("emit")
    /\ UNCHANGED <<clock, rows, last, events, lastRun, faults, crashes>>

\* Mutant: a divergence that replaces another is not announced.
InsertAfterAnother ==
    /\ At("insert")
    /\ divs' = Append(divs, [type |-> call.type, detected |-> call.today, resolved |-> 0,
                             change |-> [n \in Forward |-> 0]])
    /\ Goto(IF divs = <<>> THEN "emit" ELSE "finish")
    /\ UNCHANGED <<clock, rows, last, events, lastRun, faults, crashes>>

Insert ==
    /\ At("insert")
    /\ divs' = Append(divs, [type |-> call.type, detected |-> call.today, resolved |-> 0,
                             change |-> [n \in Forward |-> 0]])
    /\ Goto("emit")
    /\ UNCHANGED <<clock, rows, last, events, lastRun, faults, crashes>>

\* _emit_divergence_event: replace_one on the event id, which is type and day.
EmitEvent ==
    /\ At("emit")
    /\ events' = events \cup {<<call.type, call.today>>}
    /\ Goto("finish")
    /\ UNCHANGED <<clock, rows, divs, last, lastRun, faults, crashes>>

-----------------------------------------------------------------------------
\* The worker stamps the time at which its turn of the loop began.
Finish ==
    /\ At("finish")
    /\ lastRun' = IF call.by = "worker" THEN call.now ELSE lastRun
    /\ call' = Idle
    /\ UNCHANGED <<clock, rows, track, faults, crashes>>

\* The process dies between two operations.
Crash ==
    /\ call # Idle /\ crashes < MaxCrash
    /\ crashes' = crashes + 1
    /\ call' = Idle
    /\ UNCHANGED <<clock, rows, track, lastRun, faults>>

Step ==
    \/ \E e \in Exchange :
          ServeRows(e) \/ Sweep(e) \/ WriteRow(e) \/ RowsWritten(e)
    \/ SpyCached \/ SpyDownload \/ SpyUnavailable \/ WriteSpy \/ SpyWritten
    \/ FillForward \/ ForwardFilled \/ SetLast
    \/ FindActive \/ Resolve \/ Insert \/ EmitEvent \/ Finish

\* The clock, for which a call in progress does not wait.
Evening ==
    /\ ~evening
    /\ evening' = TRUE
    /\ UNCHANGED <<day, signal, rows, track, lastRun, call, faults, crashes>>

Midnight ==
    /\ evening /\ day < MaxDay
    /\ day' = day + 1 /\ evening' = FALSE
    /\ UNCHANGED <<signal, rows, track, lastRun, call, faults, crashes>>

Next == StartWorker \/ StartCrew \/ Fail \/ Step \/ Crash \/ Evening \/ Midnight

Spec == Init /\ [][Next]_vars

-----------------------------------------------------------------------------
\* Safety, with crashes, outages and midnight anywhere in a call.

\* Divergences never overlap: one opens only when every earlier one has been
\* resolved, no later than that day, so at most one is open.
EpisodesDisjoint ==
    \A i, j \in DOMAIN divs :
        i < j => /\ divs[i].resolved # 0
                 /\ divs[i].detected <= divs[i].resolved
                 /\ divs[i].resolved <= divs[j].detected

\* The feed never announces a divergence that is not on record.
EventHasEpisode ==
    \A ev \in events :
        \E i \in DOMAIN divs : divs[i].type = ev[1] /\ divs[i].detected = ev[2]

\* When a call gets to its end, the divergence on the dashboard (last) is the
\* one that is open, whatever an earlier call left half done.
TrackingAgrees == At("finish") => last = OpenType

\* The history a divergence is read from has no hole in the window that the
\* stored bars end: a sweep that died left its oldest rows, not its newest ones.
\* Rows older than the window may lie before a hole, when a sweep dies after a
\* pause longer than the window.
ReadingHasNoHole ==
    call # Idle =>
        \A d \in call.nymo : \A s \in Covered(bars["nyse"]) : s <= d => s \in call.nymo

\* A follow-through return is measured over exactly its number of sessions,
\* for the divergences resolved in that window.
ForwardIsExact ==
    \A i \in DOMAIN divs : \A n \in Forward :
        /\ divs[i].change[n] # 0
        /\ divs[i].resolved \in Covered(bars["nyse"])
        => Cardinality({s \in Session : divs[i].resolved < s /\ s <= divs[i].change[n]}) = n

\* A divergence resolved on a session gets its follow-through return from the
\* first call that has read enough sessions after it ("Backfills spy_change_5d/
\* 10d on resolved divergences as the follow-through sessions print").
FollowThroughFills ==
    At("finish") => \A i \in DOMAIN divs : \A n \in Forward :
        /\ divs[i].resolved # 0 /\ divs[i].resolved \in call.spy
        /\ Cardinality({s \in call.spy : s > divs[i].resolved}) >= n
        => divs[i].change[n] # 0

\* The follow-through returns are exact and get filled.
FollowThroughIsExact == ForwardIsExact /\ FollowThroughFills

\* "emits a feed event when a new divergence opens": each death of the process
\* costs the feed at most one announcement, and nothing else costs one.
Unannounced == {i \in DOMAIN divs : <<divs[i].type, divs[i].detected>> \notin events}

CrashCostsOneEvent ==
    Cardinality(Unannounced) <= crashes + (IF At("emit") THEN 1 ELSE 0)
=============================================================================
