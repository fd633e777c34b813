-------------------------- MODULE FlowScan_proofs ---------------------------
(***************************************************************************)
(* Theorems about FlowScan, for any tickers, funds, keys, wordings, 13F    *)
(* rows, windows and bounds.                                               *)
(*                                                                         *)
(* The invariant says of the batch what the feed promises of itself: no    *)
(* two of its moves are of one fund in one ticker, and none is of a fund   *)
(* that the feed has within the week.  That holds all through the insert,  *)
(* which is what makes a scan that is cut short harmless to the next one.  *)
(***************************************************************************)
EXTENDS FlowScan, TLAPS

Repeats(a, b) == a.ticker = b.ticker /\ SameFund(a.key, b.key)

FreshMoves == scan # Idle =>
    /\ \A a, b \in scan.newMoves : a # b => ~Repeats(a, b)
    /\ \A e \in scan.newMoves, d \in flow : ~RecentlyFiled(e, d)

FreshRows == scan # Idle =>
    \A h \in scan.newRows, d \in filed : d.row # h

Inv == TypeOK /\ FreshMoves /\ FreshRows /\ NoRepeatWithinWeek /\ RowSurfacesOnce

-----------------------------------------------------------------------------
\* A scan in progress is a record of Busy, and one at a step is in progress.
LEMMA InProgress ==
    ASSUME TypeOK
    PROVE  /\ scan # Idle => scan \in Busy
           /\ \A pc \in {"fetch", "filings", "dedup", "insert", "stamp"} :
                 At(pc) => scan \in Busy
           /\ scan \in Busy => scan # Idle
  BY DEF TypeOK, Idle, Busy, At

\* Being the same fund does not depend on the order.
LEMMA SameFundSymmetric == \A a, b : SameFund(a, b) <=> SameFund(b, a)
  BY DEF SameFund

\* Moving a scan to another step keeps it a scan.
LEMMA GotoIsBusy ==
    ASSUME scan \in Busy, NEW pc \in {"fetch", "filings", "dedup", "insert", "stamp"}, Goto(pc)
    PROVE  /\ scan' \in Busy
           /\ scan'.newMoves = scan.newMoves /\ scan'.newRows = scan.newRows
           /\ scan'.now = scan.now
  BY DEF Goto, Busy

\* A new scan looks back from a time to a time.
LEMMA BeginIsBusy ==
    ASSUME TypeOK, FlowAssumption, Begin
    PROVE  /\ scan' \in Busy
           /\ scan'.newMoves = {} /\ scan'.newRows = {}
  <1>1. now \in Time /\ Since \in Time
    BY DEF TypeOK, FlowAssumption, Time, Since
  <1> QED BY <1>1 DEF Begin, Busy

-----------------------------------------------------------------------------
\* Every step of a scan keeps the types.
LEMMA ScanTypes ==
    ASSUME TypeOK, FlowAssumption,
           StartManual \/ StartScheduled \/ Step \/ Abort
    PROVE  TypeOK'
  <1> USE DEF feed, world
  <1>1. CASE StartManual
    BY <1>1, BeginIsBusy DEF StartManual, TypeOK
  <1>2. CASE StartScheduled
    BY <1>2, BeginIsBusy DEF StartScheduled, TypeOK
  <1>3. CASE Fetch
    <2>1. scan \in Busy
      BY <1>3, InProgress DEF Fetch
    <2>2. PICK read \in SUBSET Listed(scan.since) : \E word \in [read -> Key] :
             /\ \A m \in read : word[m] \in Wording[m.fund]
             /\ \/ read = Listed(scan.since) /\ UNCHANGED faults
                \/ read # Listed(scan.since) /\ faults < MaxFault /\ faults' = faults + 1
             /\ scan' = [scan EXCEPT !.pc = "filings",
                           !.moves = {[ticker |-> m.ticker, key |-> word[m]] : m \in read},
                           !.missed = Listed(scan.since) \ read]
      BY <1>3, Zenon DEF Fetch
    <2>3. PICK word \in [read -> Key] :
             scan' = [scan EXCEPT !.pc = "filings",
                        !.moves = {[ticker |-> m.ticker, key |-> word[m]] : m \in read},
                        !.missed = Listed(scan.since) \ read]
      BY <2>2, Zenon
    <2>4. Listed(scan.since) \subseteq Move
      BY DEF Listed, TypeOK
    <2>5. {[ticker |-> m.ticker, key |-> word[m]] : m \in read} \subseteq Event
      BY <2>4 DEF Event, Move
    <2>6. scan' \in Busy
      BY <2>1, <2>3, <2>4, <2>5 DEF Busy
    <2>7. faults' \in 0..MaxFault
      BY <2>2 DEF TypeOK, FlowAssumption
    <2> QED BY <1>3, <2>6, <2>7 DEF Fetch, TypeOK
  <1>4. CASE ReadFilings
    <2>1. scan \in Busy
      BY <1>4, InProgress DEF ReadFilings
    <2>2. scan' \in Busy
      BY <1>4, <2>1 DEF ReadFilings, Busy, TypeOK
    <2> QED BY <1>4, <2>2 DEF ReadFilings, TypeOK
  <1>5. CASE DedupMove
    <2>1. scan \in Busy
      BY <1>5, InProgress DEF DedupMove
    <2>2. PICK e \in scan.moves :
             scan' = [scan EXCEPT !.moves = @ \ {e},
                        !.newMoves = IF DuplicateMove(e) THEN @ ELSE @ \cup {e}]
      BY <1>5, Zenon DEF DedupMove
    <2>3. (IF DuplicateMove(e) THEN scan.newMoves ELSE scan.newMoves \cup {e}) \in SUBSET Event
      BY <2>1 DEF Busy
    <2>4. scan' \in Busy
      BY <2>1, <2>2, <2>3 DEF Busy
    <2> QED BY <1>5, <2>4 DEF DedupMove, TypeOK
  <1>6. CASE DedupRow
    <2>1. scan \in Busy
      BY <1>6, InProgress DEF DedupRow
    <2>2. PICK h \in scan.rows :
             scan' = [scan EXCEPT !.rows = @ \ {h},
                        !.newRows = IF DuplicateRow(h) THEN @ ELSE @ \cup {h}]
      BY <1>6, Zenon DEF DedupRow
    <2>3. (IF DuplicateRow(h) THEN scan.newRows ELSE scan.newRows \cup {h}) \in SUBSET Filing
      BY <2>1 DEF Busy
    <2>4. scan' \in Busy
      BY <2>1, <2>2, <2>3 DEF Busy
    <2> QED BY <1>6, <2>4 DEF DedupRow, TypeOK
  <1>7. CASE Deduped
    BY <1>7, InProgress, GotoIsBusy DEF Deduped, TypeOK
  <1>8. CASE InsertMove
    <2>1. scan \in Busy
      BY <1>8, InProgress DEF InsertMove
    <2>2. PICK e \in scan.newMoves :
             /\ flow' = flow \cup {[id |-> nextId, ticker |-> e.ticker, key |-> e.key,
                                    at |-> scan.now]}
             /\ scan' = [scan EXCEPT !.newMoves = @ \ {e}]
      BY <1>8 DEF InsertMove
    <2>3. scan' \in Busy
      BY <2>1, <2>2 DEF Busy
    <2>4. e \in Event /\ scan.now \in Time
      BY <2>1 DEF Busy
    <2>5. flow' \subseteq [id : Nat, ticker : Ticker, key : Key, at : Time]
      BY <2>2, <2>4 DEF TypeOK, Event
    <2> QED BY <1>8, <2>3, <2>5 DEF InsertMove, TypeOK
  <1>9. CASE InsertRow
    <2>1. scan \in Busy
      BY <1>9, InProgress DEF InsertRow
    <2>2. PICK h \in scan.newRows :
             /\ filed' = filed \cup {[id |-> nextId, row |-> h]}
             /\ scan' = [scan EXCEPT !.newRows = @ \ {h}]
      BY <1>9 DEF InsertRow
    <2>3. scan' \in Busy
      BY <2>1, <2>2 DEF Busy
    <2>4. h \in Filing
      BY <2>1 DEF Busy
    <2>5. filed' \subseteq [id : Nat, row : Filing]
      BY <2>2, <2>4 DEF TypeOK
    <2> QED BY <1>9, <2>3, <2>5 DEF InsertRow, TypeOK
  <1>10. CASE Inserted
    BY <1>10, InProgress, GotoIsBusy DEF Inserted, TypeOK
  <1>11. CASE Stamp
    <2>1. scan \in Busy
      BY <1>11, InProgress DEF Stamp
    <2>2. scan.now \in Time
      BY <2>1 DEF Busy
    <2> QED BY <1>11, <2>2 DEF Stamp, TypeOK
  <1>12. CASE Abort
    BY <1>12 DEF Abort, TypeOK, FlowAssumption
  <1> QED BY <1>1, <1>2, <1>3, <1>4, <1>5, <1>6, <1>7, <1>8, <1>9, <1>10, <1>11, <1>12
          DEF Step

\* So does what goes on meanwhile.
LEMMA WorldTypes ==
    ASSUME TypeOK, FlowAssumption,
           TriggerScan \/ DeleteTicker \/ Track \/ Post \/ Tick
    PROVE  TypeOK'
  <1> USE DEF feed, world
  <1>1. CASE TriggerScan
    BY <1>1 DEF TriggerScan, TypeOK
  <1>2. CASE DeleteTicker
    <2>1. PICK t \in Ticker :
             /\ flow' = {d \in flow : d.ticker # t}
             /\ filed' = {d \in filed : d.row.ticker # t}
             /\ holders' = {h \in holders : h.ticker # t}
             /\ tracked' = tracked \ {t}
      BY <1>2 DEF DeleteTicker
    <2>2. deletes' \in 0..MaxDelete
      BY <1>2 DEF DeleteTicker, TypeOK, FlowAssumption
    <2> QED BY <1>2, <2>1, <2>2 DEF DeleteTicker, TypeOK
  <1>3. CASE Track
    BY <1>3 DEF Track, TypeOK
  <1>4. CASE Post
    <2>1. Day(now) \in Nat
      BY DEF Day, TypeOK, FlowAssumption
    <2> QED BY <1>4, <2>1 DEF Post, TypeOK, Move
  <1>5. CASE Tick
    BY <1>5 DEF Tick, TypeOK, FlowAssumption
  <1> QED BY <1>1, <1>2, <1>3, <1>4, <1>5

LEMMA TypeStep == TypeOK /\ FlowAssumption /\ [Next]_vars => TypeOK'
  <1> SUFFICES ASSUME TypeOK, FlowAssumption, [Next]_vars PROVE TypeOK'
    OBVIOUS
  <1>1. CASE UNCHANGED vars
    BY <1>1 DEF vars, feed, world, TypeOK
  <1> QED BY <1>1, ScanTypes, WorldTypes DEF Next

LEMMA TypeInit == FlowAssumption /\ Init => TypeOK
  <1> SUFFICES ASSUME FlowAssumption, Init PROVE TypeOK
    OBVIOUS
  <1>1. /\ now \in FirstNow..MaxNow /\ nextId \in Nat /\ lastScan \in Time
        /\ faults \in 0..MaxFault /\ deletes \in 0..MaxDelete
    BY DEF FlowAssumption, Init, Time
  <1>2. /\ page \subseteq Move /\ holders \subseteq Filing /\ tracked \subseteq Ticker
        /\ flow \subseteq [id : Nat, ticker : Ticker, key : Key, at : Time]
        /\ filed \subseteq [id : Nat, row : Filing]
        /\ manual \in BOOLEAN /\ scan \in {Idle} \cup Busy
    BY DEF Init
  <1> QED BY <1>1, <1>2 DEF TypeOK

\* The state of a scan has its types, with scans failing anywhere.
THEOREM TypeCorrect == Spec => []TypeOK
  <1>1. Init => TypeOK
    BY TypeInit, FlowAssumption
  <1>2. TypeOK /\ [Next]_vars => TypeOK'
    BY TypeStep, FlowAssumption
  <1> QED BY <1>1, <1>2, PTL DEF Spec

-----------------------------------------------------------------------------
\* A batch of fewer events, against a feed of fewer documents, is still
\* fresh, and such a feed repeats no more.
LEMMA FewerIsFresh ==
    ASSUME Inv, flow' \subseteq flow, filed' \subseteq filed,
           scan' # Idle => \/ scan'.newMoves = {} /\ scan'.newRows = {}
                           \/ /\ scan # Idle /\ scan'.now = scan.now
                              /\ scan'.newMoves \subseteq scan.newMoves
                              /\ scan'.newRows \subseteq scan.newRows
    PROVE  FreshMoves' /\ FreshRows' /\ NoRepeatWithinWeek' /\ RowSurfacesOnce'
  <1>1. FreshMoves'
    BY DEF Inv, FreshMoves, RecentlyFiled, Repeats
  <1>2. FreshRows'
    BY DEF Inv, FreshRows
  <1>3. NoRepeatWithinWeek' /\ RowSurfacesOnce'
    BY DEF Inv, NoRepeatWithinWeek, RowSurfacesOnce
  <1> QED BY <1>1, <1>2, <1>3

\* A move joins the batch only if it repeats neither the batch nor the week.
LEMMA DedupMoveIsFresh ==
    ASSUME Inv, DedupMove
    PROVE  FreshMoves' /\ FreshRows' /\ NoRepeatWithinWeek' /\ RowSurfacesOnce'
  <1>1. scan \in Busy /\ scan # Idle
    BY InProgress DEF Inv, DedupMove
  <1>2. PICK e \in scan.moves :
           scan' = [scan EXCEPT !.moves = @ \ {e},
                      !.newMoves = IF DuplicateMove(e) THEN @ ELSE @ \cup {e}]
    BY DEF DedupMove
  <1>3. flow' = flow /\ filed' = filed
    BY DEF DedupMove, feed
  <1>4. scan'.now = scan.now /\ scan'.newRows = scan.newRows
    BY <1>1, <1>2 DEF Busy
  <1>5. scan'.newMoves = IF DuplicateMove(e) THEN scan.newMoves ELSE scan.newMoves \cup {e}
    BY <1>1, <1>2 DEF Busy
  <1>6. CASE DuplicateMove(e)
    BY <1>1, <1>3, <1>4, <1>5, <1>6, FewerIsFresh
  <1>7. CASE ~DuplicateMove(e)
    <2>1. \A d \in scan.newMoves : ~Repeats(d, e) /\ ~Repeats(e, d)
      BY <1>7, SameFundSymmetric DEF DuplicateMove, Repeats
    <2>2. \A a, b \in scan'.newMoves : a # b => ~Repeats(a, b)
      BY <1>1, <1>5, <2>1 DEF Inv, FreshMoves
    <2>3. \A a \in scan'.newMoves, d \in flow : ~RecentlyFiled(a, d)
      BY <1>1, <1>5, <1>7 DEF Inv, FreshMoves, DuplicateMove
    <2>4. FreshMoves'
      BY <2>2, <2>3, <1>3, <1>4 DEF FreshMoves, RecentlyFiled, Repeats
    <2>5. FreshRows' /\ NoRepeatWithinWeek' /\ RowSurfacesOnce'
      BY <1>1, <1>3, <1>4 DEF Inv, FreshRows, NoRepeatWithinWeek, RowSurfacesOnce
    <2> QED BY <2>4, <2>5
  <1> QED BY <1>6, <1>7

\* A row joins the batch only if the feed does not have it.
LEMMA DedupRowIsFresh ==
    ASSUME Inv, DedupRow
    PROVE  FreshMoves' /\ FreshRows' /\ NoRepeatWithinWeek' /\ RowSurfacesOnce'
  <1>1. scan \in Busy /\ scan # Idle
    BY InProgress DEF Inv, DedupRow
  <1>2. PICK h \in scan.rows :
           scan' = [scan EXCEPT !.rows = @ \ {h},
                      !.newRows = IF DuplicateRow(h) THEN @ ELSE @ \cup {h}]
    BY DEF DedupRow
  <1>3. flow' = flow /\ filed' = filed
    BY DEF DedupRow, feed
  <1>4. scan'.now = scan.now /\ scan'.newMoves = scan.newMoves
    BY <1>1, <1>2 DEF Busy
  <1>5. scan'.newRows = IF DuplicateRow(h) THEN scan.newRows ELSE scan.newRows \cup {h}
    BY <1>1, <1>2 DEF Busy
  <1>6. FreshRows'
    BY <1>1, <1>3, <1>5 DEF Inv, FreshRows, DuplicateRow
  <1>7. FreshMoves'
    BY <1>1, <1>3, <1>4 DEF Inv, FreshMoves, RecentlyFiled, Repeats
  <1>8. NoRepeatWithinWeek' /\ RowSurfacesOnce'
    BY <1>3 DEF Inv, NoRepeatWithinWeek, RowSurfacesOnce
  <1> QED BY <1>6, <1>7, <1>8

\* A move that is inserted repeats nothing, and what is left of the batch
\* does not repeat it.
LEMMA InsertMoveIsFresh ==
    ASSUME Inv, FlowAssumption, InsertMove
    PROVE  FreshMoves' /\ FreshRows' /\ NoRepeatWithinWeek' /\ RowSurfacesOnce'
  <1>1. scan \in Busy /\ scan # Idle
    BY InProgress DEF Inv, InsertMove
  <1>2. PICK e \in scan.newMoves :
           /\ flow' = flow \cup {[id |-> nextId, ticker |-> e.ticker, key |-> e.key,
                                  at |-> scan.now]}
           /\ scan' = [scan EXCEPT !.newMoves = @ \ {e}]
    BY DEF InsertMove
  <1> DEFINE new == [id |-> nextId, ticker |-> e.ticker, key |-> e.key, at |-> scan.now]
  <1>3. filed' = filed
    BY DEF InsertMove
  <1>4. /\ scan'.now = scan.now /\ scan'.newRows = scan.newRows
        /\ scan'.newMoves = scan.newMoves \ {e}
    BY <1>1, <1>2 DEF Busy
  <1>5. \A a \in scan.newMoves \ {e} : ~Repeats(a, e)
    BY <1>1 DEF Inv, FreshMoves
  <1>6. \A a \in scan.newMoves \ {e} : ~RecentlyFiled(a, new)
    BY <1>5 DEF RecentlyFiled, Repeats
  <1>7. FreshMoves'
    BY <1>1, <1>2, <1>4, <1>6 DEF Inv, FreshMoves, RecentlyFiled, Repeats
  <1>8. ASSUME NEW d \in flow, d.ticker = e.ticker,
               SameFund(d.key, e.key) \/ SameFund(e.key, d.key)
        PROVE  scan.now > d.at + 2 * Dedup
    <2>1. ~RecentlyFiled(e, d)
      BY <1>1 DEF Inv, FreshMoves
    <2>2. ~(d.at >= scan.now - 2 * Dedup)
      BY <1>8, <2>1, SameFundSymmetric DEF RecentlyFiled
    <2>3. d.at \in Int /\ scan.now \in Int /\ Dedup \in Int
      BY <1>1 DEF Inv, TypeOK, Busy, Time, FlowAssumption
    <2> QED BY <2>2, <2>3
  <1>9. NoRepeatWithinWeek'
    <2> SUFFICES ASSUME NEW a \in flow', NEW b \in flow', a # b,
                        a.ticker = b.ticker, SameFund(a.key, b.key)
                 PROVE  a.at > b.at + 2 * Dedup \/ b.at > a.at + 2 * Dedup
      BY DEF NoRepeatWithinWeek
    <2>1. CASE a \in flow /\ b \in flow
      BY <2>1 DEF Inv, NoRepeatWithinWeek
    <2>2. CASE a = new /\ b \in flow
      BY <2>2, <1>8
    <2>3. CASE b = new /\ a \in flow
      BY <2>3, <1>8
    <2> QED BY <1>2, <2>1, <2>2, <2>3
  <1>10. FreshRows' /\ RowSurfacesOnce'
    BY <1>1, <1>3, <1>4 DEF Inv, FreshRows, RowSurfacesOnce
  <1> QED BY <1>7, <1>9, <1>10

\* A row that is inserted leaves the batch.
LEMMA InsertRowIsFresh ==
    ASSUME Inv, InsertRow
    PROVE  FreshMoves' /\ FreshRows' /\ NoRepeatWithinWeek' /\ RowSurfacesOnce'
  <1>1. scan \in Busy /\ scan # Idle
    BY InProgress DEF Inv, InsertRow
  <1>2. PICK h \in scan.newRows :
           /\ filed' = filed \cup {[id |-> nextId, row |-> h]}
           /\ scan' = [scan EXCEPT !.newRows = @ \ {h}]
    BY DEF InsertRow
  <1>3. flow' = flow
    BY DEF InsertRow
  <1>4. /\ scan'.now = scan.now /\ scan'.newMoves = scan.newMoves
        /\ scan'.newRows = scan.newRows \ {h}
    BY <1>1, <1>2 DEF Busy
  <1>5. \A d \in filed : d.row # h
    BY <1>1 DEF Inv, FreshRows
  <1>6. FreshRows' /\ RowSurfacesOnce'
    BY <1>1, <1>2, <1>4, <1>5 DEF Inv, FreshRows, RowSurfacesOnce
  <1>7. FreshMoves' /\ NoRepeatWithinWeek'
    BY <1>1, <1>3, <1>4 DEF Inv, FreshMoves, RecentlyFiled, Repeats, NoRepeatWithinWeek
  <1> QED BY <1>6, <1>7

-----------------------------------------------------------------------------
LEMMA InvInit == FlowAssumption /\ Init => Inv
  BY TypeInit
     DEF Init, Inv, FreshMoves, FreshRows, NoRepeatWithinWeek, RowSurfacesOnce

LEMMA InvStep == Inv /\ FlowAssumption /\ [Next]_vars => Inv'
  <1> SUFFICES ASSUME Inv, FlowAssumption, [Next]_vars PROVE Inv'
    OBVIOUS
  <1>1. TypeOK'
    BY TypeStep DEF Inv
  <1> SUFFICES FreshMoves' /\ FreshRows' /\ NoRepeatWithinWeek' /\ RowSurfacesOnce'
    BY <1>1 DEF Inv
  <1>2. CASE StartManual \/ StartScheduled
    BY <1>2, BeginIsBusy, FewerIsFresh DEF StartManual, StartScheduled, Inv, feed
  <1>3. CASE Fetch \/ ReadFilings
    <2>1. scan \in Busy /\ scan # Idle
      BY <1>3, InProgress DEF Inv, Fetch, ReadFilings
    <2>2. /\ scan'.now = scan.now
          /\ scan'.newMoves = scan.newMoves /\ scan'.newRows = scan.newRows
      BY <1>3, <2>1 DEF Fetch, ReadFilings, Busy
    <2> QED BY <1>3, <2>1, <2>2, FewerIsFresh DEF Fetch, ReadFilings, feed
  <1>4. CASE Deduped \/ Inserted
    <2>1. scan \in Busy /\ scan # Idle
      BY <1>4, InProgress DEF Inv, Deduped, Inserted
    <2> QED BY <1>4, <2>1, GotoIsBusy, FewerIsFresh DEF Deduped, Inserted, feed
  <1>5. CASE DedupMove
    BY <1>5, DedupMoveIsFresh
  <1>6. CASE DedupRow
    BY <1>6, DedupRowIsFresh
  <1>7. CASE InsertMove
    BY <1>7, InsertMoveIsFresh
  <1>8. CASE InsertRow
    BY <1>8, InsertRowIsFresh
  <1>9. CASE Stamp \/ Abort
    BY <1>9, FewerIsFresh DEF Stamp, Abort, feed
  <1>10. CASE DeleteTicker
    BY <1>10, FewerIsFresh DEF DeleteTicker
  <1>11. CASE TriggerScan \/ Track \/ Post \/ Tick
    BY <1>11, FewerIsFresh DEF TriggerScan, Track, Post, Tick, feed
  <1>12. CASE UNCHANGED vars
    BY <1>12, FewerIsFresh DEF vars, feed
  <1> QED BY <1>2, <1>3, <1>4, <1>5, <1>6, <1>7, <1>8, <1>9, <1>10, <1>11, <1>12
          DEF Next, Step

\* The feed never repeats a fund's move in a ticker within the week, however
\* extraction words funds, whenever scans run and wherever they are cut short.
THEOREM FeedNeverRepeats == Spec => []NoRepeatWithinWeek
  <1>1. Init => Inv
    BY InvInit, FlowAssumption
  <1>2. Inv /\ [Next]_vars => Inv'
    BY InvStep, FlowAssumption
  <1>3. Inv => NoRepeatWithinWeek
    BY DEF Inv
  <1> QED BY <1>1, <1>2, <1>3, PTL DEF Spec

\* A 13F row surfaces once, although every scan of its cycle reads it again.
THEOREM FilingsSurfaceOnce == Spec => []RowSurfacesOnce
  <1>1. Init => Inv
    BY InvInit, FlowAssumption
  <1>2. Inv /\ [Next]_vars => Inv'
    BY InvStep, FlowAssumption
  <1>3. Inv => RowSurfacesOnce
    BY DEF Inv
  <1> QED BY <1>1, <1>2, <1>3, PTL DEF Spec

-----------------------------------------------------------------------------
\* A key that names the fund of a move, or one taken for it.
Names(key, m) == \E k \in Wording[m.fund] : key = k \/ SameFund(key, k)

\* Where a move of the window is, between the page and the feed.
Extracted(m) == \E e \in scan.moves : e.ticker = m.ticker /\ e.key \in Wording[m.fund]
InBatch(m) == \E e \in scan.newMoves : e.ticker = m.ticker /\ Names(e.key, m)
InFeed(m) ==
    \E d \in flow : /\ d.ticker = m.ticker /\ Names(d.key, m)
                    /\ d.at >= scan.now - 2 * Dedup

InWindow(m) == Day(scan.since) <= m.day /\ m.day < Day(scan.now)

\* A scan looks back from where it began to the last one that succeeded.
LooksBack == scan # Idle =>
    /\ scan.now <= now
    /\ scan.since = IF lastScan # 0 THEN lastScan ELSE scan.now - 2

\* Once the page is read, a move of the window that was not missed is
\* extracted, in the batch or in the feed.
NoneIsLost ==
    scan # Idle /\ scan.pc # "fetch" /\ deletes = 0 =>
        \A m \in page \ scan.missed :
            InWindow(m) => Extracted(m) \/ InBatch(m) \/ InFeed(m)

\* What the steps of a scan leave behind them.
Emptied == scan # Idle =>
    /\ scan.pc \in {"insert", "stamp"} => scan.moves = {}
    /\ scan.pc = "stamp" => scan.newMoves = {}

Window == TypeOK /\ LooksBack /\ NoneIsLost /\ Emptied

LEMMA DayIsMonotone ==
    ASSUME NEW s \in Int, NEW t \in Int, s <= t
    PROVE  Day(s) \in Int /\ Day(s) <= Day(t)
  BY DEF Day

\* A step that only takes the scan along, and adds to the feed and the page.
LEMMA NothingLost ==
    ASSUME Window, FlowAssumption, TypeOK', now <= now',
           scan \in Busy, scan' \in Busy,
           scan'.now = scan.now, scan'.since = scan.since,
           scan'.missed = scan.missed, lastScan' = lastScan,
           scan.pc # "fetch", deletes' = 0 => deletes = 0,
           \A m \in page' \ page : m.day >= Day(now),
           \A m \in page : Extracted(m) => Extracted(m)' \/ InBatch(m)' \/ InFeed(m)',
           \A m \in page : InBatch(m) => InBatch(m)' \/ InFeed(m)',
           deletes' = 0 => flow \subseteq flow'
    PROVE  LooksBack' /\ NoneIsLost'
  <1>1. /\ scan # Idle /\ now \in Int /\ now' \in Int
        /\ scan.now \in Int /\ scan.since \in Int
    BY InProgress DEF Window, TypeOK, Busy, Time, FlowAssumption
  <1>2. LooksBack'
    BY <1>1 DEF Window, LooksBack
  <1>3. NoneIsLost'
    <2> SUFFICES ASSUME deletes' = 0, NEW m \in page' \ scan'.missed, InWindow(m)'
                 PROVE  Extracted(m)' \/ InBatch(m)' \/ InFeed(m)'
      BY DEF NoneIsLost
    <2>1. InWindow(m)
      BY DEF InWindow, Day
    <2>2. m \in page
      <3>1. Day(scan.now) <= Day(now) /\ Day(now) \in Int /\ Day(scan.now) \in Int
        BY <1>1, DayIsMonotone DEF Window, LooksBack
      <3>2. CASE m \in page' \ page
        <4>1. m.day >= Day(now) /\ m.day < Day(scan.now)
          BY <3>2, <2>1 DEF InWindow
        <4>3. m.day \in Int
          BY DEF TypeOK, Move
        <4>2. m.day < Day(now)
          BY <4>1, <4>3, <3>1
        <4> QED BY <4>1, <4>2, <4>3, <3>1
      <3> QED BY <3>2
    <2>3. Extracted(m) \/ InBatch(m) \/ InFeed(m)
      BY <1>1, <2>1, <2>2 DEF Window, NoneIsLost
    <2>4. InFeed(m) => InFeed(m)'
      BY DEF InFeed, Names
    <2> QED BY <2>2, <2>3, <2>4
  <1> QED BY <1>2, <1>3

\* The step that reads the page extracts what it does not miss.
LEMMA FetchLosesNothing ==
    ASSUME Window, FlowAssumption, Fetch
    PROVE  LooksBack' /\ NoneIsLost' /\ Emptied'
  <1>1. scan \in Busy /\ scan # Idle /\ scan.pc = "fetch"
    BY InProgress DEF Window, Fetch, At
  <1>2. PICK read \in SUBSET Listed(scan.since) : \E word \in [read -> Key] :
           /\ \A m \in read : word[m] \in Wording[m.fund]
           /\ scan' = [scan EXCEPT !.pc = "filings",
                         !.moves = {[ticker |-> m.ticker, key |-> word[m]] : m \in read},
                         !.missed = Listed(scan.since) \ read]
    BY Zenon DEF Fetch
  <1>3. PICK word \in [read -> Key] :
           /\ \A m \in read : word[m] \in Wording[m.fund]
           /\ scan' = [scan EXCEPT !.pc = "filings",
                         !.moves = {[ticker |-> m.ticker, key |-> word[m]] : m \in read},
                         !.missed = Listed(scan.since) \ read]
    BY <1>2, Zenon
  <1>4. /\ scan'.now = scan.now /\ scan'.since = scan.since /\ scan'.pc = "filings"
        /\ scan'.moves = {[ticker |-> m.ticker, key |-> word[m]] : m \in read}
        /\ scan'.missed = Listed(scan.since) \ read
    BY <1>1, <1>3 DEF Busy
  <1>5. LooksBack'
    BY <1>1, <1>4 DEF Fetch, Window, LooksBack
  <1>6. ASSUME NEW m \in page' \ scan'.missed, InWindow(m)'
        PROVE  Extracted(m)'
    <2>1. m \in Listed(scan.since)
      BY <1>4, <1>6 DEF Fetch, world, Listed, InWindow, Day
    <2>2. m \in read
      BY <2>1, <1>4, <1>6
    <2>3. [ticker |-> m.ticker, key |-> word[m]] \in scan'.moves
      BY <2>2, <1>4
    <2> QED BY <2>2, <2>3, <1>3 DEF Extracted
  <1> QED BY <1>4, <1>5, <1>6 DEF NoneIsLost, Emptied

\* A move that is taken for a duplicate is one of a fund taken for its own.
LEMMA DedupLosesNothing ==
    ASSUME Window, FlowAssumption, TypeOK', DedupMove
    PROVE  LooksBack' /\ NoneIsLost' /\ Emptied'
  <1>1. scan \in Busy /\ scan # Idle /\ scan.pc = "dedup"
    BY InProgress DEF Window, DedupMove, At
  <1>2. PICK e \in scan.moves :
           scan' = [scan EXCEPT !.moves = @ \ {e},
                      !.newMoves = IF DuplicateMove(e) THEN @ ELSE @ \cup {e}]
    BY DEF DedupMove
  <1>3. /\ scan'.now = scan.now /\ scan'.since = scan.since /\ scan'.missed = scan.missed
        /\ scan'.pc = "dedup" /\ scan'.moves = scan.moves \ {e}
        /\ scan'.newMoves = IF DuplicateMove(e) THEN scan.newMoves ELSE scan.newMoves \cup {e}
    BY <1>1, <1>2 DEF Busy
  <1>4. /\ scan' # Idle /\ scan' \in Busy
        /\ page' = page /\ flow' = flow /\ now' = now /\ lastScan' = lastScan
        /\ deletes' = deletes
    <2>1. scan' # Idle /\ scan' \in Busy
      BY <1>3 DEF Idle, TypeOK
    <2> QED BY <2>1 DEF DedupMove, world, feed
  <1>5. \A m \in page : InBatch(m) => InBatch(m)'
    BY <1>3 DEF InBatch, Names
  <1>6. ASSUME NEW m \in page, Extracted(m)
        PROVE  Extracted(m)' \/ InBatch(m)' \/ InFeed(m)'
    <2>1. PICK x \in scan.moves : x.ticker = m.ticker /\ x.key \in Wording[m.fund]
      BY <1>6 DEF Extracted
    <2>2. CASE x # e
      BY <2>1, <2>2, <1>3 DEF Extracted
    <2>3. CASE x = e /\ ~DuplicateMove(e)
      BY <2>1, <2>3, <1>3 DEF InBatch, Names
    <2>4. CASE x = e /\ DuplicateMove(e)
      <3>1. CASE \E d \in flow : RecentlyFiled(e, d)
        BY <3>1, <2>1, <2>4, <1>3, <1>4, SameFundSymmetric DEF RecentlyFiled, InFeed, Names
      <3>2. CASE \E d \in scan.newMoves : d.ticker = e.ticker /\ SameFund(e.key, d.key)
        BY <3>2, <2>1, <2>4, <1>3, SameFundSymmetric DEF InBatch, Names
      <3> QED BY <2>4, <3>1, <3>2 DEF DuplicateMove
    <2> QED BY <2>2, <2>3, <2>4
  <1>7. LooksBack' /\ NoneIsLost'
    <2>1. now <= now'
      BY <1>4 DEF Window, TypeOK, FlowAssumption
    <2> QED BY <2>1, <1>1, <1>3, <1>4, <1>5, <1>6, NothingLost
  <1> QED BY <1>3, <1>7 DEF Emptied

\* What leaves the batch is in the feed, as of this scan.
LEMMA InsertLosesNothing ==
    ASSUME Window, FlowAssumption, TypeOK', InsertMove
    PROVE  LooksBack' /\ NoneIsLost' /\ Emptied'
  <1>1. scan \in Busy /\ scan # Idle /\ scan.pc = "insert"
    BY InProgress DEF Window, InsertMove, At
  <1>2. PICK e \in scan.newMoves :
           /\ flow' = flow \cup {[id |-> nextId, ticker |-> e.ticker, key |-> e.key,
                                  at |-> scan.now]}
           /\ scan' = [scan EXCEPT !.newMoves = @ \ {e}]
    BY DEF InsertMove
  <1>3. /\ scan'.now = scan.now /\ scan'.since = scan.since /\ scan'.missed = scan.missed
        /\ scan'.pc = "insert" /\ scan'.moves = scan.moves
        /\ scan'.newMoves = scan.newMoves \ {e}
    BY <1>1, <1>2 DEF Busy
  <1>4. /\ scan' # Idle /\ scan' \in Busy
        /\ page' = page /\ now' = now /\ lastScan' = lastScan /\ deletes' = deletes
    BY <1>3 DEF InsertMove, world, Idle, TypeOK
  <1>5. scan.now >= scan.now - 2 * Dedup
    BY <1>1 DEF Busy, Time, FlowAssumption
  <1>6. \A m \in page : Extracted(m) => Extracted(m)'
    BY <1>3 DEF Extracted
  <1>7. ASSUME NEW m \in page, InBatch(m)
        PROVE  InBatch(m)' \/ InFeed(m)'
    <2>1. PICK x \in scan.newMoves : x.ticker = m.ticker /\ Names(x.key, m)
      BY <1>7 DEF InBatch
    <2>2. CASE x # e
      BY <2>1, <2>2, <1>3 DEF InBatch, Names
    <2>3. CASE x = e
      <3> DEFINE d == [id |-> nextId, ticker |-> e.ticker, key |-> e.key, at |-> scan.now]
      <3>1. d \in flow' /\ d.ticker = e.ticker /\ d.key = e.key /\ d.at = scan.now
        BY <1>2
      <3> HIDE DEF d
      <3>2. d.ticker = m.ticker /\ Names(d.key, m)
        BY <3>1, <2>1, <2>3
      <3>3. d.at >= scan'.now - 2 * Dedup
        BY <3>1, <1>3, <1>5
      <3>4. InFeed(m)'
        BY <3>1, <3>2, <3>3, Zenon DEF InFeed, Names
      <3> QED BY <3>4
    <2> QED BY <2>2, <2>3
  <1>8. LooksBack' /\ NoneIsLost'
    <2>1. now <= now'
      BY <1>4 DEF Window, TypeOK, FlowAssumption
    <2> QED BY <2>1, <1>1, <1>2, <1>3, <1>4, <1>6, <1>7, NothingLost
  <1> QED BY <1>1, <1>3, <1>8 DEF Emptied, Window

\* The other steps of a scan, and what goes on meanwhile, lose nothing.
LEMMA RestLosesNothing ==
    ASSUME Window, FlowAssumption, TypeOK', scan \in Busy,
           \/ ReadFilings \/ DedupRow \/ Deduped \/ InsertRow \/ Inserted
           \/ TriggerScan \/ DeleteTicker \/ Track \/ Post \/ Tick \/ UNCHANGED vars
    PROVE  LooksBack' /\ NoneIsLost' /\ Emptied'
  <1> USE DEF feed, world
  <1>1. scan # Idle /\ now \in Int
    BY InProgress DEF Window, TypeOK, FlowAssumption
  <1>2. scan' \in Busy
    <2>1. scan' # Idle
      BY <1>1 DEF ReadFilings, DedupRow, Deduped, InsertRow, Inserted, Goto, At, Busy, Idle,
                  TriggerScan, DeleteTicker, Track, Post, Tick, vars
    <2> QED BY <2>1 DEF TypeOK
  <1>3. /\ scan'.now = scan.now /\ scan'.since = scan.since
        /\ scan'.missed = scan.missed /\ scan'.moves = scan.moves
        /\ scan'.newMoves = scan.newMoves
    <2>1. CASE ReadFilings \/ DedupRow
      BY <2>1 DEF ReadFilings, DedupRow, Busy
    <2>2. CASE Deduped \/ Inserted \/ InsertRow
      BY <2>2 DEF Deduped, Inserted, InsertRow, Goto, Busy
    <2>3. CASE UNCHANGED scan
      BY <2>3
    <2> QED BY <2>1, <2>2, <2>3 DEF TriggerScan, DeleteTicker, Track, Post, Tick, vars
  <1>4. /\ scan'.pc = "fetch" => scan.pc = "fetch"
        /\ scan.pc = "fetch" => scan'.pc = "fetch"
        /\ Emptied'
    <2>1. CASE ReadFilings \/ DedupRow
      <3>1. scan.pc \in {"filings", "dedup"} /\ scan'.pc = "dedup"
        BY <2>1 DEF ReadFilings, DedupRow, Busy, At
      <3> QED BY <3>1 DEF Emptied
    <2>2. CASE Deduped
      <3>1. scan.pc = "dedup" /\ scan'.pc = "insert" /\ scan.moves = {}
        BY <2>2 DEF Deduped, Goto, Busy, At
      <3> QED BY <3>1, <1>3 DEF Emptied
    <2>3. CASE Inserted
      <3>1. scan.pc = "insert" /\ scan'.pc = "stamp" /\ scan.newMoves = {}
        BY <2>3 DEF Inserted, Goto, Busy, At
      <3> QED BY <3>1, <1>1, <1>3 DEF Emptied, Window
    <2>4. CASE InsertRow
      <3>1. scan.pc = "insert" /\ scan'.pc = "insert"
        BY <2>4 DEF InsertRow, Busy, At
      <3> QED BY <3>1, <1>1, <1>3 DEF Emptied, Window
    <2>5. CASE UNCHANGED scan
      BY <2>5 DEF Emptied, Window
    <2> QED BY <2>1, <2>2, <2>3, <2>4, <2>5
            DEF TriggerScan, DeleteTicker, Track, Post, Tick, vars
  <1>5. /\ now <= now' /\ lastScan' = lastScan
        /\ deletes' = 0 => deletes = 0 /\ flow' = flow
    <2>1. CASE DeleteTicker
      <3>1. now' = now /\ lastScan' = lastScan /\ deletes' = deletes + 1 /\ deletes \in Nat
        BY <2>1 DEF DeleteTicker, Window, TypeOK, FlowAssumption
      <3> QED BY <3>1, <1>1
    <2>2. CASE Tick
      BY <2>2, <1>1 DEF Tick
    <2>3. CASE UNCHANGED <<now, lastScan, deletes, flow>>
      BY <2>3, <1>1
    <2> QED BY <2>1, <2>2, <2>3
            DEF ReadFilings, DedupRow, Deduped, InsertRow, Inserted, TriggerScan, Track, Post, vars
  <1>6. \A m \in page' \ page : m.day >= Day(now)
    <2>1. CASE Post
      <3>1. PICK t \in Ticker, f \in Fund :
               page' = page \cup {[ticker |-> t, fund |-> f, day |-> Day(now)]}
        BY <2>1 DEF Post
      <3>2. Day(now) >= Day(now)
        BY <1>1 DEF Day
      <3> QED BY <3>1, <3>2
    <2>2. CASE UNCHANGED page
      BY <2>2
    <2> QED BY <2>1, <2>2 DEF ReadFilings, DedupRow, Deduped, InsertRow, Inserted,
                              TriggerScan, DeleteTicker, Track, Tick, vars
  <1>7. CASE scan.pc = "fetch"
    BY <1>7, <1>1, <1>2, <1>3, <1>4, <1>5 DEF NoneIsLost, LooksBack, Window, TypeOK, Busy, Time,
        FlowAssumption
  <1>8. CASE scan.pc # "fetch"
    <2>1. \A m : Extracted(m) <=> Extracted(m)'
      BY <1>3 DEF Extracted
    <2>2. \A m : InBatch(m) <=> InBatch(m)'
      BY <1>3 DEF InBatch, Names
    <2>3. LooksBack' /\ NoneIsLost'
      BY <1>2, <1>3, <1>5, <1>6, <1>8, <2>1, <2>2, NothingLost
    <2> QED BY <2>3, <1>4
  <1> QED BY <1>7, <1>8

LEMMA WindowStep ==
    ASSUME Window, FlowAssumption, [Next]_vars
    PROVE  Window'
  <1>1. TypeOK'
    BY TypeStep DEF Window
  <1>2. CASE StartManual \/ StartScheduled
    <2>1. /\ scan'.pc = "fetch" /\ scan'.now = now /\ scan'.since = Since
          /\ now' = now /\ lastScan' = lastScan
      BY <1>2 DEF StartManual, StartScheduled, Begin
    <2>2. now \in Int
      BY DEF Window, TypeOK, FlowAssumption
    <2> QED BY <1>1, <2>1, <2>2 DEF Window, LooksBack, NoneIsLost, Emptied, Since
  <1>3. CASE Stamp \/ Abort
    BY <1>1, <1>3 DEF Stamp, Abort, Window, LooksBack, NoneIsLost, Emptied
  <1>4. CASE Fetch
    BY <1>1, <1>4, FetchLosesNothing DEF Window
  <1>5. CASE DedupMove
    BY <1>1, <1>5, DedupLosesNothing DEF Window
  <1>6. CASE InsertMove
    BY <1>1, <1>6, InsertLosesNothing DEF Window
  <1>7. CASE ReadFilings \/ DedupRow \/ Deduped \/ InsertRow \/ Inserted
    <2>1. scan \in Busy
      BY <1>7, InProgress DEF Window, ReadFilings, DedupRow, Deduped, InsertRow, Inserted
    <2> QED BY <1>1, <1>7, <2>1, RestLosesNothing DEF Window
  <1>8. CASE TriggerScan \/ DeleteTicker \/ Track \/ Post \/ Tick \/ UNCHANGED vars
    <2>1. CASE scan = Idle
      <3>1. scan' = Idle
        BY <1>8, <2>1 DEF TriggerScan, DeleteTicker, Track, Post, Tick, vars
      <3> QED BY <1>1, <3>1 DEF Window, LooksBack, NoneIsLost, Emptied
    <2>2. CASE scan \in Busy
      BY <1>1, <1>8, <2>2, RestLosesNothing DEF Window
    <2> QED BY <2>1, <2>2 DEF Window, TypeOK
  <1> QED BY <1>2, <1>3, <1>4, <1>5, <1>6, <1>7, <1>8 DEF Next, Step

\* Only a scan that succeeds moves last_scan_at, and by then all is in the feed.
LEMMA StampCovers ==
    ASSUME Window, FlowAssumption, [Next]_vars, lastScan' # lastScan,
           NEW m \in page \ scan.missed, deletes = 0,
           Day(Since) <= m.day, m.day < Day(scan.now)
    PROVE  Surfaced(m)
  <1>1. At("stamp")
    BY DEF Next, Step, vars, feed, world, StartManual, StartScheduled, Fetch, ReadFilings,
           DedupMove, DedupRow, Deduped, InsertMove, InsertRow, Inserted, Stamp, Abort,
           TriggerScan, DeleteTicker, Track, Post, Tick
  <1>2. scan \in Busy /\ scan # Idle /\ scan.pc = "stamp"
    BY <1>1, InProgress DEF Window, At
  <1>3. /\ now \in Int /\ lastScan \in Int /\ scan.now \in Int /\ scan.since \in Int
        /\ m.day \in Int
    BY <1>2 DEF Window, TypeOK, Busy, Time, Move, FlowAssumption
  <1>4. Since \in Int /\ scan.since <= Since
    BY <1>2, <1>3 DEF Window, LooksBack, Since
  <1>5. InWindow(m)
    <2>1. Day(scan.since) <= Day(Since) /\ Day(scan.since) \in Int /\ Day(Since) \in Int
      BY <1>3, <1>4, DayIsMonotone
    <2> QED BY <2>1, <1>3 DEF InWindow
  <1>6. Extracted(m) \/ InBatch(m) \/ InFeed(m)
    BY <1>2, <1>5 DEF Window, NoneIsLost
  <1>7. scan.moves = {} /\ scan.newMoves = {}
    BY <1>2 DEF Window, Emptied
  <1> QED BY <1>6, <1>7 DEF Extracted, InBatch, InFeed, Names, Surfaced

\* No move of the days between two scans that succeed is lost to the feed,
\* wherever the scans between them failed, and whatever is listed meanwhile.
THEOREM NoMoveIsLost == Spec => WindowIsCovered
  <1>1. Init => Window
    BY TypeInit, FlowAssumption DEF Init, Window, LooksBack, NoneIsLost, Emptied
  <1>2. Window /\ [Next]_vars => Window'
    BY WindowStep, FlowAssumption
  <1>3. Window /\ [Next]_vars =>
           [lastScan' # lastScan =>
               \A m \in page \ scan.missed :
                   Day(Since) <= m.day /\ m.day < Day(scan.now) /\ deletes = 0
                       => Surfaced(m)]_vars
    BY StampCovers, FlowAssumption
  <1> QED BY <1>1, <1>2, <1>3, PTL DEF Spec, WindowIsCovered
=============================================================================
