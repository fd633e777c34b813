------------------------------ MODULE FlowScan ------------------------------
(***************************************************************************)
(* The market-wide institutional flow scan of agent-runner                 *)
(* (institutional_flow_worker.py, agents/institutional_flow_scanner.py),   *)
(* its two sources, and the requests of the backend that meet it: Scan Now *)
(* and the delete of a ticker.                                             *)
(*                                                                         *)
(* Time is in half days: an even time is before institutional_scan_hour_   *)
(* utc, an odd one after it.  A move of a fund is worded by the extraction *)
(* in one of several ways; a wording is the set of the parts of the name,  *)
(* so that _same_fund's containment of one key in another is inclusion.    *)
(* Actions, amounts, scores and headlines are left out: no step of the     *)
(* scan depends on them, except that the score orders the events of a      *)
(* scan, which are taken here in any order.                                *)
(***************************************************************************)
EXTENDS Integers, FiniteSets

CONSTANTS
    Ticker, Fund,
    Key,            \* the fund keys that extraction comes up with
    Wording,        \* Wording[f]: the ones that mean fund f
    Filing,         \* 13F holder rows, as [ticker, holder, day]
    Dedup,          \* DATAROMA_DEDUP_DAYS
    Lookback,       \* FILING_LOOKBACK_DAYS
    FirstNow, MaxNow,   \* the times of a behaviour (the bound)
    MaxFault,       \* bound: scans that fail, are killed, or miss moves
    MaxDelete,      \* bound: deletes of a ticker
    MaxPost         \* bound: moves that Dataroma lists

ASSUME FlowAssumption ==
    /\ FirstNow \in Nat /\ MaxNow \in Nat /\ 2 <= FirstNow /\ FirstNow <= MaxNow
    /\ Wording \in [Fund -> SUBSET Key]
    /\ \A f \in Filing : f.ticker \in Ticker
    /\ Dedup \in Nat /\ Lookback \in Nat
    /\ MaxFault \in Nat /\ MaxDelete \in Nat /\ MaxPost \in Nat

VARIABLES
    now,        \* the time
    page,       \* the moves Dataroma lists, by ticker, fund and day
    holders,    \* institutional_cache: the rows still cached, never refreshed
    tracked,    \* the tickers with a pin or an analysis
    flow,       \* institutional_flow, source dataroma
    filed,      \* institutional_flow, source 13F
    nextId,     \* the _id of the next document
    lastScan,   \* institutional_flow_meta, last_scan_at (0: none)
    manual,     \* institutional_flow_meta, manual_scan_requested
    scan,       \* the scan in progress
    faults, deletes

feed == <<flow, filed, nextId>>
world == <<page, holders, tracked>>
vars == <<now, world, feed, lastScan, manual, scan, faults, deletes>>

Time == 0..MaxNow
Day(t) == t \div 2
AfterHour(t) == t % 2 = 1

Move == [ticker : Ticker, fund : Fund, day : Nat]
Event == [ticker : Ticker, key : Key]
Idle == [pc |-> "idle"]
Busy == [pc : {"fetch", "filings", "dedup", "insert", "stamp"}, now : Time, since : Time,
         moves : SUBSET Event, rows : SUBSET Filing,      \* extracted
         newMoves : SUBSET Event, newRows : SUBSET Filing, \* not duplicates
         missed : SUBSET Move]   \* what the extraction left out (not in the code)

TypeOK ==
    /\ now \in FirstNow..MaxNow
    /\ page \subseteq Move /\ holders \subseteq Filing /\ tracked \subseteq Ticker
    /\ flow \subseteq [id : Nat, ticker : Ticker, key : Key, at : Time]
    /\ filed \subseteq [id : Nat, row : Filing]
    /\ nextId \in Nat
    /\ lastScan \in Time /\ manual \in BOOLEAN
    /\ scan \in {Idle} \cup Busy
    /\ faults \in 0..MaxFault /\ deletes \in 0..MaxDelete

Init ==
    /\ now = FirstNow
    /\ page = {} /\ holders = Filing /\ tracked \in SUBSET Ticker
    /\ flow = {} /\ filed = {} /\ nextId = 1
    /\ lastScan = 0 /\ manual = FALSE
    /\ scan = Idle /\ faults = 0 /\ deletes = 0

At(pc) == scan.pc = pc
Goto(pc) == scan' = [scan EXCEPT !.pc = pc]

-----------------------------------------------------------------------------
\* run_daily_scan_if_due, every turn of the main loop.

\* last_scan_at, or a day back.
Since == IF lastScan # 0 THEN lastScan ELSE now - 2

Begin ==
    scan' = [pc |-> "fetch", now |-> now, since |-> Since, moves |-> {}, rows |-> {},
             newMoves |-> {}, newRows |-> {}, missed |-> {}]

\* _scheduled_due
Scheduled == AfterHour(now) /\ (lastScan = 0 \/ Day(lastScan) < Day(now))

\* _claim_manual_request consumes the flag whether the scan succeeds or not.
StartManual ==
    /\ scan = Idle /\ manual
    /\ manual' = FALSE
    /\ Begin
    /\ UNCHANGED <<now, world, feed, lastScan, faults, deletes>>

StartScheduled ==
    /\ scan = Idle /\ ~manual /\ Scheduled
    /\ Begin
    /\ UNCHANGED <<now, world, feed, lastScan, manual, faults, deletes>>

-----------------------------------------------------------------------------
\* run_scan.

\* Mutant: only what is newer than the day of the last scan.
ListedAfter(since) == {m \in page : m.day > Day(since)}

\* moves.php?date=: the page lists whole days.
Listed(since) == {m \in page : m.day >= Day(since)}

\* Every listed move is extracted, in some wording, or some are missed: the
\* scrape fails and answers [], the text is cut off, the model overlooks them.
Fetch ==
    /\ At("fetch")
    /\ \E read \in SUBSET Listed(scan.since) : \E word \in [read -> Key] :
          /\ \A m \in read : word[m] \in Wording[m.fund]
          /\ \/ read = Listed(scan.since) /\ UNCHANGED faults
             \/ read # Listed(scan.since) /\ faults < MaxFault /\ faults' = faults + 1
          /\ scan' = [scan EXCEPT !.pc = "filings",
                        !.moves = {[ticker |-> m.ticker, key |-> word[m]] : m \in read},
                        !.missed = Listed(scan.since) \ read]
    /\ UNCHANGED <<now, world, feed, lastScan, manual, deletes>>

\* get_recent_13f_changes: the cached rows of the tracked tickers.
ReadFilings ==
    /\ At("filings")
    /\ scan' = [scan EXCEPT !.pc = "dedup",
                  !.rows = {h \in holders : h.ticker \in tracked
                                            /\ h.day >= Day(scan.now) - Lookback}]
    /\ UNCHANGED <<now, world, feed, lastScan, manual, faults, deletes>>

SameFund(a, b) == a # {} /\ b # {} /\ (a \subseteq b \/ b \subseteq a)

\* Mutant: a document exactly as old as the window is not looked at.
RecentlyFiledStrictly(e, d) ==
    d.ticker = e.ticker /\ d.at > scan.now - 2 * Dedup /\ SameFund(e.key, d.key)

RecentlyFiled(e, d) ==
    d.ticker = e.ticker /\ d.at >= scan.now - 2 * Dedup /\ SameFund(e.key, d.key)

\* _is_duplicate for a Dataroma move.
DuplicateMove(e) ==
    \/ \E d \in flow : RecentlyFiled(e, d)
    \/ \E d \in scan.newMoves : d.ticker = e.ticker /\ SameFund(e.key, d.key)

\* Mutant: only the batch is looked at.
DuplicateInBatch(h) == h \in scan.newRows

\* _is_duplicate for a 13F row.
DuplicateRow(h) == h \in scan.newRows \/ \E d \in filed : d.row = h

DedupMove ==
    /\ At("dedup")
    /\ \E e \in scan.moves :
          scan' = [scan EXCEPT !.moves = @ \ {e},
                     !.newMoves = IF DuplicateMove(e) THEN @ ELSE @ \cup {e}]
    /\ UNCHANGED <<now, world, feed, lastScan, manual, faults, deletes>>

DedupRow ==
    /\ At("dedup")
    /\ \E h \in scan.rows :
          scan' = [scan EXCEPT !.rows = @ \ {h},
                     !.newRows = IF DuplicateRow(h) THEN @ ELSE @ \cup {h}]
    /\ UNCHANGED <<now, world, feed, lastScan, manual, faults, deletes>>

Deduped ==
    /\ At("dedup") /\ scan.moves = {} /\ scan.rows = {}
    /\ Goto("insert")
    /\ UNCHANGED <<now, world, feed, lastScan, manual, faults, deletes>>

\* insert_many, document by document: it may fail between two of them.
InsertMove ==
    /\ At("insert")
    /\ \E e \in scan.newMoves :
          /\ flow' = flow \cup {[id |-> nextId, ticker |-> e.ticker, key |-> e.key,
                                 at |-> scan.now]}
          /\ scan' = [scan EXCEPT !.newMoves = @ \ {e}]
    /\ nextId' = nextId + 1
    /\ UNCHANGED <<now, world, filed, lastScan, manual, faults, deletes>>

InsertRow ==
    /\ At("insert")
    /\ \E h \in scan.newRows :
          /\ filed' = filed \cup {[id |-> nextId, row |-> h]}
          /\ scan' = [scan EXCEPT !.newRows = @ \ {h}]
    /\ nextId' = nextId + 1
    /\ UNCHANGED <<now, world, flow, lastScan, manual, faults, deletes>>

Inserted ==
    /\ At("insert") /\ scan.newMoves = {} /\ scan.newRows = {}
    /\ Goto("stamp")
    /\ UNCHANGED <<now, world, feed, lastScan, manual, faults, deletes>>

Stamp ==
    /\ At("stamp")
    /\ lastScan' = scan.now
    /\ scan' = Idle
    /\ UNCHANGED <<now, world, feed, manual, faults, deletes>>

\* An exception that the worker logs, or the death of the process.
Abort ==
    /\ scan # Idle /\ faults < MaxFault
    /\ faults' = faults + 1
    /\ scan' = Idle
    /\ UNCHANGED <<now, world, feed, lastScan, manual, deletes>>

Step ==
    \/ Fetch \/ ReadFilings \/ DedupMove \/ DedupRow \/ Deduped
    \/ InsertMove \/ InsertRow \/ Inserted \/ Stamp

-----------------------------------------------------------------------------
\* What goes on meanwhile.

\* POST /institutional/scan
TriggerScan ==
    /\ manual' = TRUE
    /\ UNCHANGED <<now, world, feed, lastScan, scan, faults, deletes>>

\* DELETE /tickers/{ticker}, as far as it concerns the feed and its sources, in
\* one step: what a scan inserts between two of its deletes it may also insert
\* before the first or after the last.
DeleteTicker ==
    /\ deletes < MaxDelete
    /\ \E t \in Ticker :
          /\ flow' = {d \in flow : d.ticker # t}
          /\ filed' = {d \in filed : d.row.ticker # t}
          /\ holders' = {h \in holders : h.ticker # t}
          /\ tracked' = tracked \ {t}
    /\ deletes' = deletes + 1
    /\ UNCHANGED <<now, page, nextId, lastScan, manual, scan, faults>>

\* A pin or an analysis makes a ticker one of the tracked.
Track ==
    /\ \E t \in Ticker \ tracked : tracked' = tracked \cup {t}
    /\ UNCHANGED <<now, page, holders, feed, lastScan, manual, scan, faults, deletes>>

\* A fund's move is listed under the day on which it appears.
Post ==
    /\ Cardinality(page) < MaxPost
    /\ \E t \in Ticker, f \in Fund :
          page' = page \cup {[ticker |-> t, fund |-> f, day |-> Day(now)]}
    /\ UNCHANGED <<now, holders, tracked, feed, lastScan, manual, scan, faults, deletes>>

Tick ==
    /\ now < MaxNow
    /\ now' = now + 1
    /\ UNCHANGED <<world, feed, lastScan, manual, scan, faults, deletes>>

Next ==
    \/ StartManual \/ StartScheduled \/ Step \/ Abort
    \/ TriggerScan \/ DeleteTicker \/ Track \/ Post \/ Tick

Spec == Init /\ [][Next]_vars

-----------------------------------------------------------------------------
\* Safety, with failures, deaths and deletes anywhere in a scan.

\* The feed never repeats a fund's move in a ticker within the week, however
\* the extraction words the fund and wherever an earlier scan was cut short
\* ("same move re-scraped").
NoRepeatWithinWeek ==
    \A d, e \in flow :
        d # e /\ d.ticker = e.ticker /\ SameFund(d.key, e.key) =>
            d.at > e.at + 2 * Dedup \/ e.at > d.at + 2 * Dedup

\* A 13F row is in the feed once ("each quarterly refresh surfaces a row
\* once"), although every scan of its cycle reads it again.
RowSurfacesOnce ==
    \A d, e \in filed : d.row = e.row => d = e

\* When last_scan_at advances, every move listed for the days from the last
\* scan's to the one before this scan's is in the feed, under a key that
\* names its fund or one taken for it, unless the extraction missed it or its
\* ticker has been deleted.  Scans that fail leave their window to the next.
Surfaced(m) ==
    \E d \in flow, k \in Wording[m.fund] :
        /\ d.ticker = m.ticker
        /\ d.key = k \/ SameFund(d.key, k)
        /\ d.at >= scan.now - 2 * Dedup

WindowIsCovered ==
    [][lastScan' # lastScan =>
          \A m \in page \ scan.missed :
              Day(Since) <= m.day /\ m.day < Day(scan.now) /\ deletes = 0
                  => Surfaced(m)]_vars
=============================================================================
