------------------------------ MODULE PageCaches ------------------------------
(***************************************************************************)
(* The provider data that backend requests fetch themselves: the market's  *)
(* headlines (backend/routers/market.py) and the earnings calendar, the    *)
(* universe it is screened with and the history of a ticker                *)
(* (backend/earnings_data.py); the agent runner's earnings scan fills the  *)
(* last two as well (tools/earnings_calendar.py).  A handler reads the     *)
(* cache, asks the provider, and writes: requests run side by side.  The   *)
(* content of an answer is the hour of the provider's last change to it;   *)
(* 0 is nothing at all.  What a page makes of an answer is left out.       *)
(***************************************************************************)
EXTENDS Budget

CONSTANTS Thread,       \* the requests that run side by side
          MaxChanges,   \* bound: the provider's data changes so often
          MaxAge        \* in hours: NEWS_MAX_AGE, CALENDAR_CACHE_HOURS,
                        \* UNIVERSE_CACHE_HOURS, HISTORY_CACHE_HOURS

PageName == {"headlines", "calendar", "history"}
Doc == PageName \cup {"universe"}

ASSUME PageAssumption == MaxAge \in [Doc -> Nat \ {0}] /\ MaxChanges \in Nat

VARIABLES cache,        \* the documents: [at, v, u], u of the universe in it
          changes,      \* hours at which the provider's data changed
          request,      \* per thread: [pc, now, had, v]
          answer        \* per thread, the last one: [page, now, doc, stale]

pageVars == <<cache, changes, request, answer>>

Nothing == [at |-> 0, v |-> 0, u |-> 0]
NoRequest == [pc |-> "idle", now |-> 0, had |-> Nothing, v |-> 0]
NoAnswer == [page |-> "none", now |-> 0, doc |-> Nothing, stale |-> TRUE]

PagesInit(now) ==
    /\ cache = [d \in Doc |-> Nothing] /\ changes = {now}
    /\ request = [r \in Thread |-> NoRequest] /\ answer = NoAnswer

Current == Max(changes)
Fresh(d, now) == cache[d].at > 0 /\ now - cache[d].at < MaxAge[d]

Respond(r, page, doc, stale) ==
    /\ answer' = [page |-> page, now |-> request[r].now, doc |-> doc, stale |-> stale]
    /\ request' = [request EXCEPT ![r] = NoRequest]
NoneGiven == answer' = NoAnswer
Serve(page, now) ==
    /\ answer' = [page |-> page, now |-> now, doc |-> cache[page], stale |-> FALSE]
    /\ UNCHANGED request

-----------------------------------------------------------------------------
\* A request begins: a fresh document is served, any other has to be asked for.
\* The handler goes on with what it has read.
Begin(r, page, now) ==
    /\ request[r].pc = "idle"
    /\ IF Fresh(page, now) THEN Serve(page, now)
       ELSE /\ request' = [request EXCEPT ![r] =
                              [pc |-> page, now |-> now, v |-> 0,
                               had |-> IF page = "headlines" THEN cache[page] ELSE Nothing]]
            /\ NoneGiven
    /\ UNCHANGED <<cache, changes, budgetVars>>

\* get_market_news, answered: with rows, or with something that is not a list.
\* The document carries the hour the request began.
NewsAnswered(r) ==
    /\ request[r].pc = "headlines" /\ ~Refused(1) /\ Spend(1)
    /\ \E v \in {Current, 0} :
          LET doc == [at |-> request[r].now, v |-> v, u |-> 0] IN
          cache' = [cache EXCEPT !["headlines"] = doc] /\ Respond(r, "headlines", doc, FALSE)
    /\ UNCHANGED changes

\* Mutant: what was cached is served as if it were current.
NewsStaleUnmarked(r) ==
    /\ request[r].pc = "headlines" /\ Spend(1)
    /\ Respond(r, "headlines", request[r].had, FALSE)
    /\ UNCHANGED <<cache, changes>>

\* _stale: refused, or the call fails: what was cached when the request began.
NewsStale(r) ==
    /\ request[r].pc = "headlines" /\ Spend(1)
    /\ Respond(r, "headlines", request[r].had, TRUE)
    /\ UNCHANGED <<cache, changes>>

\* get_earnings_calendar, answered by the calendar's provider: with rows, or not.
CalendarAnswered(r) ==
    /\ request[r].pc = "calendar" /\ ~Refused(1) /\ Spend(1)
    /\ \E v \in {Current, 0} : request' = [request EXCEPT ![r].pc = "screen", ![r].v = v]
    /\ NoneGiven
    /\ UNCHANGED <<cache, changes>>

\* Refused or failed: the window is served whatever its age, or an error raised.
CalendarStale(r) ==
    /\ request[r].pc = "calendar" /\ Spend(1)
    /\ Respond(r, "calendar", cache["calendar"], TRUE)
    /\ UNCHANGED <<cache, changes>>

\* The universe, cached or fetched; the rows are screened with it and stored.
\* now is the hour by now.
CalendarScreened(r, now) ==
    /\ request[r].pc = "screen"
    /\ LET universe == IF Fresh("universe", now) THEN cache["universe"]
                       ELSE [at |-> now, v |-> Current, u |-> 0]
           doc == [at |-> now, v |-> request[r].v, u |-> universe.v]
       IN  /\ cache' = [cache EXCEPT !["universe"] = universe, !["calendar"] = doc]
           /\ Respond(r, "calendar", doc, FALSE)
    /\ UNCHANGED <<changes, budgetVars>>

\* The universe fails: an error, although a window may be cached.
CalendarRaises(r, now) ==
    /\ request[r].pc = "screen" /\ ~Fresh("universe", now)
    /\ Respond(r, "calendar", Nothing, TRUE)
    /\ UNCHANGED <<cache, changes, budgetVars>>

\* get_earnings_history: outside the budget; a failure is an empty history, and
\* is stored as one.
HistoryAnswered(r, now) ==
    /\ request[r].pc = "history"
    /\ \E v \in {Current, 0} :
          LET doc == [at |-> now, v |-> v, u |-> 0] IN
          cache' = [cache EXCEPT !["history"] = doc] /\ Respond(r, "history", doc, FALSE)
    /\ UNCHANGED <<changes, budgetVars>>

-----------------------------------------------------------------------------
\* The agent runner's earnings scan: its own window is another document, the
\* universe and the history are these.
ScanFillsUniverse(now) ==
    /\ ~Fresh("universe", now)
    /\ cache' = [cache EXCEPT !["universe"] = [at |-> now, v |-> Current, u |-> 0]]
    /\ NoneGiven
    /\ UNCHANGED <<changes, request, budgetVars>>
ScanFillsHistory(now) ==
    /\ ~Fresh("history", now) /\ Spend(1)
    /\ \E v \in {0} \cup (IF Refused(1) THEN {} ELSE {Current}) :
          cache' = [cache EXCEPT !["history"] = [at |-> now, v |-> v, u |-> 0]]
    /\ NoneGiven
    /\ UNCHANGED <<changes, request>>

\* A request lasts less than an hour: the clock turns once under it at most.
OneTurn(now) == \A r \in Thread : request[r].pc # "idle" => request[r].now = now

ProviderChanges(now) ==
    /\ Cardinality(changes) < MaxChanges /\ changes' = changes \cup {now}
    /\ NoneGiven
    /\ UNCHANGED <<cache, request, budgetVars>>

PageStep(pages, now) ==
    \/ \E r \in Thread :
          \/ \E page \in pages : Begin(r, page, now)
          \/ NewsAnswered(r) \/ NewsStale(r)
          \/ CalendarAnswered(r) \/ CalendarStale(r)
          \/ CalendarScreened(r, now) \/ CalendarRaises(r, now)
          \/ HistoryAnswered(r, now)
    \/ "calendar" \in pages /\ ScanFillsUniverse(now)
    \/ "history" \in pages /\ ScanFillsHistory(now)
    \/ ProviderChanges(now)

-----------------------------------------------------------------------------
PagesTypeOK(lastHour) ==
    LET doc == [at : 0 .. lastHour, v : 0 .. lastHour, u : 0 .. lastHour] IN
    /\ cache \in [Doc -> doc] /\ changes \subseteq 0 .. lastHour
    /\ request \in [Thread -> [pc : {"idle", "screen"} \cup Doc, now : 0 .. lastHour,
                               had : doc, v : 0 .. lastHour]]
    /\ answer \in [page : {"none"} \cup Doc, now : 0 .. lastHour, doc : doc, stale : BOOLEAN]

\* What a page shows unmarked misses no change of the provider older than the
\* age allowed and the hour a request may take, and an answer that is empty for
\* a failure is as young; whichever request or service fetched it, and however
\* slow requests overlap.  The universe in a calendar may be one age older.
UnmarkedIsFresh ==
    LET Old(age) == {e \in changes : e < answer.now - age} IN
    answer.page # "none" /\ ~answer.stale =>
        /\ answer.now - answer.doc.at < MaxAge[answer.page]
        /\ answer.doc.v > 0 => \A e \in Old(MaxAge[answer.page]) : answer.doc.v >= e
        /\ answer.page = "calendar" =>
              \A e \in Old(MaxAge["calendar"] + MaxAge["universe"]) : answer.doc.u >= e
=============================================================================
