--------------------------- MODULE Breadth_proofs ---------------------------
(***************************************************************************)
(* Theorems about Breadth, for any calendar, windows, divergence types and *)
(* bounds, with the process dying anywhere and midnight anywhere.          *)
(*                                                                         *)
(* The first invariant adds to three properties what the steps of          *)
(* update_divergence_tracking know of each other: no divergence is dated   *)
(* after the day the call took, and at each step what the earlier steps of *)
(* the same call have established.  The others build on it: Reads relates  *)
(* the rows of nyse, the stored bars and the reading of a call, Measures   *)
(* the follow-through returns and that reading, and Paid counts what the   *)
(* feed owes.                                                              *)
(***************************************************************************)
EXTENDS Breadth, Extrema

Early == {"nyse", "nyse write", "nasdaq", "nasdaq write", "spy", "spy write"}
Tracking == {"fill", "meta", "find", "resolve", "insert", "emit", "finish"}
Found == {"find", "resolve", "insert", "emit", "finish"}

DatedBy(d) ==
    \A i \in DOMAIN divs :
        /\ divs[i].detected <= d /\ divs[i].resolved <= d
        /\ divs[i].resolved # 0 => divs[i].detected <= divs[i].resolved

JustInserted ==
    \E i \in DOMAIN divs : /\ divs[i].type = call.type /\ divs[i].resolved = 0
                           /\ divs[i].detected = call.today

StepsKnow ==
    call # Idle =>
        /\ call.today <= day
        /\ call.pc \in Tracking => DatedBy(call.today)
        /\ call.pc \in Found => last = call.type
        /\ At("resolve") => Opened # {}
        /\ At("insert") => Opened = {} /\ call.type # "none"
        /\ At("emit") => call.type # "none" /\ JustInserted

Inv ==
    /\ TypeOK /\ DatedBy(day) /\ StepsKnow
    /\ EpisodesDisjoint /\ EventHasEpisode /\ TrackingAgrees

-----------------------------------------------------------------------------
\* An idle process has no call, a busy one a record of Busy.
LEMMA CallCases ==
    ASSUME TypeOK
    PROVE  /\ call = Idle \/ call \in Busy
           /\ call \in Busy => call # Idle
           /\ \A pc \in Early \cup Tracking : At(pc) => call \in Busy
           /\ call \in Busy => call.pc \in Early \cup Tracking
  <1>1. call = Idle \/ call \in Busy
    BY DEF TypeOK
  <1>2. call \in Busy => call.pc \in Early \cup Tracking
    BY DEF Busy, Early, Tracking
  <1>3. Idle.pc = "idle" /\ "idle" \notin Early \cup Tracking
    BY DEF Idle, Early, Tracking
  <1> QED BY <1>1, <1>2, <1>3 DEF At

\* The day of a behaviour is a day.
LEMMA DayIsDay ==
    ASSUME TypeOK
    PROVE  day \in Day /\ day \in Nat /\ day # 0
  <1>1. day \in FirstDay..MaxDay /\ FirstDay \in Nat \ {0} /\ MaxDay \in Nat
    BY BreadthAssumption DEF TypeOK
  <1> QED BY <1>1 DEF Day

\* The windows that are read and written consist of sessions.
LEMMA WindowsAreSessions ==
    /\ \A b \in Day \cup {0} : Covered(b) \subseteq Session
    /\ \A e \in Exchange : Newest(Lookback, Rows(e)) \subseteq Session
  BY DEF Covered, Newest, Rows

\* A reading is a type of divergence or "none".
LEMMA DetectedIsKind ==
    ASSUME TypeOK, NEW nymo \in SUBSET Session, NEW spy \in SUBSET Session
    PROVE  Detected(nymo, spy) \subseteq Kinds
  BY DEF Detected, Newest, TypeOK, Kinds

\* What has printed is a day.
LEMMA PrintedIsDay ==
    ASSUME TypeOK
    PROVE  Printed \in Day \cup {0}
  BY BreadthAssumption DEF TypeOK, Printed, Day

\* A divergence that opens is one of Divergence.
LEMMA NewDivergence ==
    ASSUME TypeOK, call \in Busy, call.type # "none"
    PROVE  [type |-> call.type, detected |-> call.today, resolved |-> 0,
            change |-> [n \in Forward |-> 0]] \in Divergence
  BY DEF Busy, Divergence, Kinds

-----------------------------------------------------------------------------
\* The starting state has the right types.
LEMMA InitTypes == Init => TypeOK
  <1> SUFFICES ASSUME Init PROVE TypeOK
    OBVIOUS
  <1>1. FirstDay \in FirstDay..MaxDay
    BY BreadthAssumption
  <1>2. divs \in Seq(Divergence)
    BY DEF Init
  <1>3. faults \in 0..MaxFault /\ crashes \in 0..MaxCrash
    BY BreadthAssumption DEF Init
  <1>4. events \subseteq Kind \X Day /\ last \in Kinds
    BY DEF Init, Kinds
  <1>5. cache \in [Exchange -> [Session -> Day \cup {0}]]
    BY DEF Init
  <1> QED BY <1>1, <1>2, <1>3, <1>4, <1>5 DEF Init, TypeOK

\* Every step keeps the types.
LEMMA NextTypes == TypeOK /\ StepsKnow /\ [Next]_vars => TypeOK'
  <1> SUFFICES ASSUME TypeOK, StepsKnow, [Next]_vars PROVE TypeOK'
    OBVIOUS
  <1> USE CallCases
  <1>1. ASSUME NEW by \in {"worker", "crew"}, NEW now \in FirstDay..day, call = Idle,
               Begin(by, now),
               UNCHANGED <<clock, rows, track, lastRun, faults, crashes>>
        PROVE  TypeOK'
    <2>1. day \in Day /\ now \in Day
      BY DayIsDay, BreadthAssumption DEF Day
    <2>2. call' \in Busy
      BY <1>1, <2>1 DEF Begin, Busy, Kinds
    <2> QED BY <1>1, <2>2 DEF TypeOK, clock, rows, track
  <1>2. CASE StartWorker
    BY <1>1, <1>2 DEF StartWorker
  <1>3. CASE StartCrew
    <2>1. day \in FirstDay..day
      BY BreadthAssumption DEF TypeOK
    <2> QED BY <1>1, <1>3, <2>1 DEF StartCrew
  <1>4. CASE Fail
    BY <1>4, BreadthAssumption DEF Fail, TypeOK, clock, rows, track
  <1>5. ASSUME NEW e \in Exchange, ServeRows(e)
        PROVE  TypeOK'
    <2>1. call \in Busy /\ e \in {"nyse", "nasdaq"}
      BY <1>5, BreadthAssumption DEF ServeRows, Early, Tracking, At
    <2>2. Reading(e, Newest(Lookback, Rows(e))) \in SUBSET Session
      BY <2>1, WindowsAreSessions DEF Reading, Busy
    <2>3. call' \in Busy
      BY <1>5, <2>1, <2>2 DEF ServeRows, Busy, AfterRows
    <2> QED BY <1>5, <2>3 DEF ServeRows, TypeOK, clock, rows, track
  <1>6. ASSUME NEW e \in Exchange, Sweep(e)
        PROVE  TypeOK'
    <2>1. call \in Busy /\ e \in {"nyse", "nasdaq"} /\ day \in Day
      BY <1>6, BreadthAssumption, DayIsDay DEF Sweep, Early
    <2>2. bars' \in [Exchange \cup {"SPY"} -> Day \cup {0}]
      BY <1>6, PrintedIsDay DEF Sweep, TypeOK
    <2>3. Covered(bars'[e]) \in SUBSET Session
      BY WindowsAreSessions, <2>2
    <2>4. Reading(e, Covered(bars'[e])) \in SUBSET Session
      BY <2>1, <2>3 DEF Reading, Busy
    <2>5. call' \in Busy
      BY <1>6, <2>1, <2>3, <2>4 DEF Sweep, Busy, Writing
    <2>6. faults' \in 0..MaxFault
      BY <1>6, BreadthAssumption DEF Sweep, TypeOK
    <2> QED BY <1>6, <2>2, <2>5, <2>6 DEF Sweep, TypeOK, clock, track
  <1>7. ASSUME NEW e \in Exchange, WriteRow(e)
        PROVE  TypeOK'
    <2>1. call \in Busy
      BY <1>7, BreadthAssumption DEF WriteRow, Early, Tracking, At, Writing
    <2>2. PICK d \in call.left :
              /\ cache' = [cache EXCEPT ![e][d] = call.today]
              /\ spyClose' = IF e = "nyse" THEN spyClose \ {d} ELSE spyClose
              /\ call' = [call EXCEPT !.left = @ \ {d}]
      BY <1>7 DEF WriteRow
    <2>3. call' \in Busy
      BY <2>1, <2>2 DEF Busy
    <2>4. cache' \in [Exchange -> [Session -> Day \cup {0}]]
      BY <2>1, <2>2 DEF TypeOK, Busy
    <2> QED BY <1>7, <2>2, <2>3, <2>4 DEF WriteRow, TypeOK, clock, track
  <1>8. ASSUME NEW e \in Exchange, RowsWritten(e)
        PROVE  TypeOK'
    <2>1. call \in Busy
      BY <1>8, BreadthAssumption DEF RowsWritten, Early, Tracking, At, Writing
    <2>2. call' \in Busy
      BY <1>8, <2>1 DEF RowsWritten, Goto, Busy, AfterRows
    <2> QED BY <1>8, <2>2 DEF RowsWritten, TypeOK, clock, rows, track
  <1>9. ASSUME NEW spy \in SUBSET Session, call \in Busy, Read(spy),
               UNCHANGED <<clock, rows, track, lastRun, faults, crashes>>
        PROVE  TypeOK'
    <2>1. day \in Day /\ Detected(call.nymo, spy) \subseteq Kinds
      BY <1>9, DayIsDay, DetectedIsKind DEF Busy
    <2>2. call' \in Busy
      BY <1>9, <2>1 DEF Read, Busy
    <2> QED BY <1>9, <2>2 DEF TypeOK, clock, rows, track
  <1>10. CASE SpyCached
    BY <1>9, <1>10 DEF SpyCached, Busy, Early
  <1>11. CASE SpyDownload
    <2>1. call \in Busy
      BY <1>11 DEF SpyDownload, Early
    <2>2. bars' \in [Exchange \cup {"SPY"} -> Day \cup {0}]
      BY <1>11, PrintedIsDay DEF SpyDownload, TypeOK
    <2>3. call' \in Busy
      BY <1>11, <2>1 DEF SpyDownload, Busy
    <2>4. faults' \in 0..MaxFault
      BY <1>11, BreadthAssumption DEF SpyDownload, TypeOK
    <2> QED BY <1>11, <2>2, <2>3, <2>4 DEF SpyDownload, TypeOK, clock, track
  <1>12. CASE SpyUnavailable
    <2>1. call \in Busy /\ day \in Day
      BY <1>12, DayIsDay DEF SpyUnavailable, Early
    <2>2. call' \in Busy
      BY <1>12, <2>1 DEF SpyUnavailable, Busy, Kinds
    <2>3. faults' \in 0..MaxFault
      BY <1>12, BreadthAssumption DEF SpyUnavailable, TypeOK
    <2> QED BY <1>12, <2>2, <2>3 DEF SpyUnavailable, TypeOK, clock, rows, track
  <1>13. CASE WriteSpy
    <2>1. call \in Busy
      BY <1>13 DEF WriteSpy, Early
    <2>2. call' \in Busy /\ spyClose' \subseteq Session
      BY <1>13, <2>1 DEF WriteSpy, Busy, TypeOK
    <2> QED BY <1>13, <2>2 DEF WriteSpy, TypeOK, clock, track
  <1>14. CASE SpyWritten
    BY <1>9, <1>14 DEF SpyWritten, Busy, Early
  <1>15. CASE FillForward
    <2>1. call \in Busy
      BY <1>15 DEF FillForward, Tracking
    <2>2. PICK i \in DOMAIN divs :
              divs' = [divs EXCEPT ![i].change =
                 [n \in Forward |->
                     IF n \in Fillable(i)
                     THEN CHOOSE d \in ForwardChange(call.spy, divs[i].resolved, n) : TRUE
                     ELSE @[n]]]
      BY <1>15 DEF FillForward
    <2> DEFINE new == [n \in Forward |->
                          IF n \in Fillable(i)
                          THEN CHOOSE d \in ForwardChange(call.spy, divs[i].resolved, n) : TRUE
                          ELSE divs[i].change[n]]
    <2>3. divs[i] \in Divergence
      BY <2>2 DEF TypeOK
    <2>4. ASSUME NEW n \in Fillable(i)
          PROVE  (CHOOSE d \in ForwardChange(call.spy, divs[i].resolved, n) : TRUE) \in Session
      <3>1. ForwardChange(call.spy, divs[i].resolved, n) \subseteq Session
        BY <2>1 DEF ForwardChange, Busy
      <3>2. ForwardChange(call.spy, divs[i].resolved, n) # {}
        BY DEF Fillable
      <3> QED BY <3>1, <3>2
    <2>5. new \in [Forward -> Session \cup {0}]
      BY <2>3, <2>4 DEF Divergence
    <2>6. divs' = [divs EXCEPT ![i] = [divs[i] EXCEPT !.change = new]]
      BY <2>2
    <2>7. [divs[i] EXCEPT !.change = new] \in Divergence
      BY <2>3, <2>5 DEF Divergence
    <2>8. divs' \in Seq(Divergence)
      BY <2>2, <2>6, <2>7 DEF TypeOK
    <2> QED BY <1>15, <2>8 DEF FillForward, TypeOK, clock, rows
  <1>16. ASSUME NEW pc \in Tracking, call \in Busy, Goto(pc),
                UNCHANGED <<clock, rows, divs, events, lastRun, faults, crashes>>,
                last' \in Kinds
         PROVE  TypeOK'
    <2>1. call' \in Busy
      BY <1>16 DEF Goto, Busy, Tracking
    <2> QED BY <1>16, <2>1 DEF TypeOK, clock, rows
  <1>17. CASE ForwardFilled
    BY <1>16, <1>17 DEF ForwardFilled, Tracking, track, TypeOK
  <1>18. CASE SetLast
    BY <1>16, <1>18 DEF SetLast, Tracking, Busy
  <1>19. CASE FindActive
    <2>1. \E pc \in Tracking : Goto(pc)
      BY <1>19 DEF FindActive, Tracking
    <2> QED BY <1>16, <1>19, <2>1 DEF FindActive, Tracking, track, TypeOK
  <1>20. CASE Resolve
    <2>1. call \in Busy
      BY <1>20 DEF Resolve, Tracking
    <2>2. PICK i \in Opened : divs' = [divs EXCEPT ![i].resolved = call.today]
      BY <1>20 DEF Resolve
    <2>3. i \in DOMAIN divs /\ divs[i] \in Divergence
      BY <2>2 DEF Opened, TypeOK
    <2>4. [divs[i] EXCEPT !.resolved = call.today] \in Divergence
      BY <2>1, <2>3 DEF Divergence, Busy
    <2>5. divs' \in Seq(Divergence)
      BY <2>2, <2>3, <2>4 DEF TypeOK
    <2>6. call' \in Busy
      BY <1>20, <2>1 DEF Resolve, Goto, Busy
    <2> QED BY <1>20, <2>5, <2>6 DEF Resolve, TypeOK, clock, rows
  <1>21. CASE Insert
    <2>1. call \in Busy /\ call.type # "none"
      BY <1>21 DEF Insert, Tracking, StepsKnow
    <2>2. divs' \in Seq(Divergence)
      BY <1>21, <2>1, NewDivergence DEF Insert, TypeOK
    <2>3. call' \in Busy
      BY <1>21, <2>1 DEF Insert, Goto, Busy
    <2> QED BY <1>21, <2>2, <2>3 DEF Insert, TypeOK, clock, rows
  <1>22. CASE EmitEvent
    <2>1. call \in Busy /\ call.type # "none"
      BY <1>22 DEF EmitEvent, Tracking, StepsKnow
    <2>2. call' \in Busy
      BY <1>22, <2>1 DEF EmitEvent, Goto, Busy
    <2>3. call.type \in Kind /\ call.today \in Day
      BY <2>1 DEF Busy, Kinds
    <2>4. events' \subseteq Kind \X Day
      BY <1>22, <2>3 DEF EmitEvent, TypeOK
    <2> QED BY <1>22, <2>2, <2>4 DEF EmitEvent, TypeOK, clock, rows
  <1>23. CASE Finish
    <2>1. call \in Busy
      BY <1>23 DEF Finish, Tracking
    <2>2. lastRun' \in Day \cup {0}
      BY <1>23, <2>1 DEF Finish, Busy, TypeOK
    <2> QED BY <1>23, <2>2 DEF Finish, TypeOK, clock, rows, track
  <1>24. CASE Crash
    BY <1>24, BreadthAssumption DEF Crash, TypeOK, clock, rows, track
  <1>25. CASE Evening
    BY <1>25 DEF Evening, TypeOK, rows, track
  <1>26. CASE Midnight
    <2>1. day' \in FirstDay..MaxDay
      BY <1>26, BreadthAssumption DEF Midnight, TypeOK
    <2> QED BY <1>26, <2>1 DEF Midnight, TypeOK, rows, track
  <1>27. CASE UNCHANGED vars
    BY <1>27 DEF vars, TypeOK, clock, rows, track
  <1> QED
    BY <1>2, <1>3, <1>4, <1>5, <1>6, <1>7, <1>8, <1>10, <1>11, <1>12, <1>13, <1>14,
       <1>15, <1>17, <1>18, <1>19, <1>20, <1>21, <1>22, <1>23, <1>24, <1>25, <1>26,
       <1>27 DEF Next, Step

-----------------------------------------------------------------------------
\* At most one divergence is open, and it is the one OpenType speaks of.
LEMMA OneOpen ==
    ASSUME EpisodesDisjoint, divs \in Seq(Divergence)
    PROVE  /\ \A i, j \in Opened : i = j
           /\ \A i \in Opened : OpenType = divs[i].type
           /\ Opened = {} => OpenType = "none"
  <1>1. ASSUME NEW i \in Opened, NEW j \in Opened
        PROVE  i = j
    <2>1. i \in Nat /\ j \in Nat /\ i \in DOMAIN divs /\ j \in DOMAIN divs
      BY DEF Opened
    <2>2. ~(i < j) /\ ~(j < i)
      BY <2>1 DEF EpisodesDisjoint, Opened
    <2> QED BY <2>1, <2>2
  <1>2. ASSUME NEW i \in Opened
        PROVE  OpenType = divs[i].type
    <2>1. (CHOOSE k \in Opened : TRUE) \in Opened
      OBVIOUS
    <2> QED BY <1>1, <2>1 DEF OpenType
  <1> QED BY <1>1, <1>2 DEF OpenType

\* A divergence dated by one day is dated by a later one.
LEMMA DatedLater ==
    ASSUME divs \in Seq(Divergence), NEW d \in Int, NEW e \in Int, d <= e, DatedBy(d)
    PROVE  DatedBy(e)
  <1>1. ASSUME NEW i \in DOMAIN divs
        PROVE  divs[i].detected \in Int /\ divs[i].resolved \in Int
    <2>1. divs[i] \in Divergence
      OBVIOUS
    <2> QED BY <2>1 DEF Divergence, Day
  <1> QED BY <1>1 DEF DatedBy

\* Steps that leave the divergences alone and do not yet know of them.
LEMMA BeforeTracking ==
    ASSUME Inv, UNCHANGED track, day' = day,
           \/ call' = Idle
           \/ call'.pc \in Early /\ call'.today <= day
           \/ call'.pc = "fill" /\ call'.today = day
    PROVE  Inv' \/ ~TypeOK'
  <1> USE DEF Inv, track
  <1>1. DatedBy(day)' /\ EpisodesDisjoint' /\ EventHasEpisode'
    BY DEF DatedBy, EpisodesDisjoint, EventHasEpisode
  <1>2. day \in Nat
    BY BreadthAssumption DEF TypeOK
  <1>3. CASE call' = Idle
    <2>1. call'.pc = "idle"
      BY <1>3 DEF Idle
    <2> QED BY <1>1, <1>3, <2>1 DEF StepsKnow, TrackingAgrees, At
  <1>4. CASE call'.pc \in Early /\ call'.today <= day
    BY <1>1, <1>4 DEF StepsKnow, TrackingAgrees, At, Early, Tracking, Found
  <1>5. CASE call'.pc = "fill" /\ call'.today = day
    <2>1. DatedBy(call.today)'
      BY <1>1, <1>5 DEF DatedBy
    <2> QED BY <1>1, <1>2, <1>5, <2>1 DEF StepsKnow, TrackingAgrees, At, Found
  <1> QED BY <1>3, <1>4, <1>5

\* Every step keeps the invariant.
LEMMA NextInv == Inv /\ [Next]_vars => Inv'
  <1> SUFFICES ASSUME Inv, [Next]_vars PROVE Inv'
    OBVIOUS
  <1>t. TypeOK' /\ TypeOK
    BY NextTypes DEF Inv
  <1>d. day \in Nat /\ day \in Day /\ divs \in Seq(Divergence)
    BY <1>t, BreadthAssumption DEF TypeOK, Day
  <1>c. call \in Busy => call.today \in Day /\ call.today <= day /\ call # Idle
    BY <1>t, CallCases DEF Inv, StepsKnow, Busy
  <1>1. CASE StartWorker \/ StartCrew
    <2>1. call'.pc \in Early /\ call'.today = day
      <3>1. PICK by \in {"worker", "crew"}, now \in FirstDay..day : Begin(by, now)
        BY <1>1, <1>t, BreadthAssumption DEF StartWorker, StartCrew, TypeOK
      <3>2. call'.pc = "nyse" /\ call'.today = day
        BY <3>1 DEF Begin
      <3> QED BY <3>2 DEF Early
    <2>2. UNCHANGED track /\ day' = day
      BY <1>1 DEF StartWorker, StartCrew, clock
    <2> QED BY <2>1, <2>2, <1>t, <1>d, BeforeTracking
  <1>2. CASE Fail
    BY <1>2, <1>t, BeforeTracking DEF Fail, clock
  <1>3. ASSUME NEW e \in Exchange, ServeRows(e)
        PROVE  Inv'
    <2>1. call \in Busy /\ e \in {"nyse", "nasdaq"}
      BY <1>3, <1>t, CallCases, BreadthAssumption DEF ServeRows, Early
    <2>2. call'.pc \in Early /\ call'.today = call.today
      BY <1>3, <2>1 DEF ServeRows, AfterRows, Early, Busy
    <2> QED BY <1>3, <1>t, <1>c, <2>1, <2>2, BeforeTracking DEF ServeRows, clock
  <1>4. ASSUME NEW e \in Exchange, Sweep(e)
        PROVE  Inv'
    <2>1. call \in Busy /\ e \in {"nyse", "nasdaq"}
      BY <1>4, <1>t, CallCases, BreadthAssumption DEF Sweep, Early
    <2>2. call'.pc \in Early /\ call'.today = day
      BY <1>4, <2>1 DEF Sweep, Writing, Early, Busy
    <2> QED BY <1>4, <1>t, <1>d, <2>2, BeforeTracking DEF Sweep, clock
  <1>5. ASSUME NEW e \in Exchange, WriteRow(e) \/ RowsWritten(e)
        PROVE  Inv'
    <2>1. call \in Busy
      BY <1>5, <1>t, CallCases, BreadthAssumption
         DEF WriteRow, RowsWritten, Writing, Early, At
    <2>2. call'.pc \in Early /\ call'.today = call.today
      BY <1>5, <2>1, BreadthAssumption
         DEF WriteRow, RowsWritten, Writing, Goto, AfterRows, Early, Busy, At
    <2> QED BY <1>5, <1>t, <1>c, <2>1, <2>2, BeforeTracking DEF WriteRow, RowsWritten, clock
  <1>6. CASE SpyDownload \/ WriteSpy
    <2>1. call \in Busy
      BY <1>6, <1>t, CallCases DEF SpyDownload, WriteSpy, Early
    <2>2. call'.pc \in Early /\ call'.today = call.today
      BY <1>6, <2>1 DEF SpyDownload, WriteSpy, Early, Busy, At
    <2> QED BY <1>6, <1>t, <1>c, <2>1, <2>2, BeforeTracking DEF SpyDownload, WriteSpy, clock
  <1>7. CASE SpyCached \/ SpyWritten \/ SpyUnavailable
    <2>1. call \in Busy
      BY <1>7, <1>t, CallCases DEF SpyCached, SpyWritten, SpyUnavailable, Early
    <2>2. call'.pc = "fill" /\ call'.today = day
      BY <1>7, <2>1 DEF SpyCached, SpyWritten, SpyUnavailable, Read, Busy
    <2> QED BY <1>7, <1>t, <2>2, BeforeTracking DEF SpyCached, SpyWritten, SpyUnavailable, clock
  <1>8. CASE FillForward
    <2>1. call \in Busy /\ call' = call /\ day' = day /\ last' = last /\ events' = events
      BY <1>8, <1>t, CallCases DEF FillForward, Tracking, clock
    <2>2. /\ DOMAIN divs' = DOMAIN divs
          /\ \A i \in DOMAIN divs : /\ divs'[i].type = divs[i].type
                                   /\ divs'[i].detected = divs[i].detected
                                   /\ divs'[i].resolved = divs[i].resolved
      <3>0. PICK k \in DOMAIN divs :
               \E filled : divs' = [divs EXCEPT ![k] = [divs[k] EXCEPT !.change = filled]]
        BY <1>8 DEF FillForward
      <3>1. PICK filled : divs' = [divs EXCEPT ![k] = [divs[k] EXCEPT !.change = filled]]
        BY <3>0
      <3>2. \A i \in DOMAIN divs : divs[i] \in Divergence
        BY <1>d
      <3> QED BY <3>1, <3>2, <1>d DEF Divergence
    <2>3. DatedBy(day)' /\ EpisodesDisjoint' /\ EventHasEpisode'
      BY <2>1, <2>2 DEF Inv, DatedBy, EpisodesDisjoint, EventHasEpisode
    <2>4. DatedBy(call.today)'
      BY <1>8, <2>1, <2>2, <1>c DEF Inv, StepsKnow, Tracking, DatedBy, FillForward, At
    <2>5. StepsKnow' /\ TrackingAgrees'
      BY <1>8, <1>c, <2>1, <2>4 DEF FillForward, StepsKnow, TrackingAgrees, At, Found, Idle
    <2> QED BY <1>t, <2>3, <2>5 DEF Inv
  <1>9. CASE ForwardFilled \/ SetLast \/ FindActive
    <2>1. call \in Busy /\ day' = day /\ divs' = divs /\ events' = events
      BY <1>9, <1>t, CallCases DEF ForwardFilled, SetLast, FindActive, Tracking, clock, track
    <2>2. /\ call'.today = call.today /\ call'.type = call.type /\ call' # Idle
          /\ call.pc \in Tracking /\ call'.pc \in Tracking
      BY <1>9, <2>1 DEF ForwardFilled, SetLast, FindActive, Goto, Busy, Idle, At, Tracking
    <2>3. DatedBy(day)' /\ EpisodesDisjoint' /\ EventHasEpisode' /\ DatedBy(call.today)'
      BY <2>1, <2>2, <1>c DEF Inv, StepsKnow, DatedBy, EpisodesDisjoint, EventHasEpisode
    <2>4. CASE ForwardFilled
      <3>1. call'.pc = "meta"
        BY <2>1, <2>4 DEF ForwardFilled, Goto, Busy
      <3> QED BY <1>c, <1>t, <2>1, <2>2, <2>3, <3>1 DEF Inv, StepsKnow, TrackingAgrees, At, Found
    <2>5. CASE SetLast
      <3>1. call'.pc = "find" /\ last' = call.type
        BY <2>1, <2>5 DEF SetLast, Goto, Busy
      <3> QED BY <1>c, <1>t, <2>1, <2>2, <2>3, <3>1 DEF Inv, StepsKnow, TrackingAgrees, At, Found
    <2>6. CASE FindActive
      <3>1. call'.pc = CASE Opened # {} /\ OpenType = call.type -> "finish"
                         [] Opened # {} /\ OpenType # call.type -> "resolve"
                         [] Opened = {} /\ call.type = "none" -> "finish"
                         [] OTHER -> "insert"
        BY <2>1, <2>6 DEF FindActive, Goto, Busy
      <3>2. last = call.type /\ last' = last
        BY <2>6, <2>1, <1>c DEF FindActive, Inv, StepsKnow, At, Found, track
      <3>3. Opened' = Opened /\ OpenType' = OpenType
        BY <2>1 DEF Opened, OpenType
      <3>4. \/ call'.pc = "finish" /\ OpenType = call.type
            \/ call'.pc = "resolve" /\ Opened # {}
            \/ call'.pc = "insert" /\ Opened = {} /\ call.type # "none"
        BY <3>1, <1>d, OneOpen DEF Inv
      <3> QED BY <1>c, <1>t, <2>1, <2>2, <2>3, <3>2, <3>3, <3>4
              DEF Inv, StepsKnow, TrackingAgrees, At, Found
    <2> QED BY <1>9, <2>4, <2>5, <2>6
  <1>10. CASE Resolve
    <2>1. call \in Busy /\ day' = day /\ events' = events /\ last' = last /\ last = call.type
      BY <1>10, <1>t, <1>c, CallCases DEF Resolve, Tracking, clock, Inv, StepsKnow, At, Found
    <2>2. PICK k \in Opened : divs' = [divs EXCEPT ![k].resolved = call.today]
      BY <1>10 DEF Resolve
    <2>3. /\ DOMAIN divs' = DOMAIN divs /\ k \in DOMAIN divs /\ divs[k].resolved = 0
          /\ divs'[k].resolved = call.today
      <3>1. k \in DOMAIN divs /\ divs[k].resolved = 0
        BY <2>2 DEF Opened
      <3>2. divs[k] \in Divergence
        BY <3>1, <1>d
      <3>3. divs' = [divs EXCEPT ![k] = [divs[k] EXCEPT !.resolved = call.today]]
        BY <2>2
      <3> QED BY <3>1, <3>2, <3>3, <1>d DEF Divergence
    <2>a. ASSUME NEW i \in DOMAIN divs
          PROVE  /\ divs'[i].type = divs[i].type /\ divs'[i].detected = divs[i].detected
                 /\ i # k => divs'[i].resolved = divs[i].resolved
      <3>1. divs[i] \in Divergence
        BY <1>d
      <3> QED BY <3>1, <2>2, <1>d DEF Divergence
    <2>4. \A i \in Opened : i = k
      BY <2>2, <1>d, OneOpen DEF Inv
    <2>5. call.today # 0 /\ call.today \in Nat
      BY <2>1, <1>c DEF Day
    <2>6. Opened' = {}
      <3>1. ASSUME NEW i \in DOMAIN divs
            PROVE  divs'[i].resolved # 0
        <4>1. CASE i = k
          BY <4>1, <2>3, <2>5
        <4>2. CASE i # k
          BY <3>1, <4>2, <2>a, <2>4 DEF Opened
        <4> QED BY <4>1, <4>2
      <3> QED BY <3>1, <2>3 DEF Opened
    <2>7. DatedBy(call.today)
      BY <1>10, <2>1, <1>c DEF Inv, StepsKnow, Tracking, Resolve, At
    <2>8. /\ call'.today = call.today /\ call'.type = call.type
          /\ call'.pc = IF call.type = "none" THEN "finish" ELSE "insert"
      BY <1>10, <2>1 DEF Resolve, Goto, Busy
    <2>9. DatedBy(call.today)'
      <3>1. ASSUME NEW i \in DOMAIN divs
            PROVE  /\ divs'[i].detected <= call.today /\ divs'[i].resolved <= call.today
                   /\ divs'[i].resolved # 0 => divs'[i].detected <= divs'[i].resolved
        <4>1. CASE i = k
          BY <3>1, <4>1, <2>3, <2>a, <2>5, <2>7 DEF DatedBy
        <4>2. CASE i # k
          BY <3>1, <4>2, <2>a, <2>7 DEF DatedBy
        <4> QED BY <4>1, <4>2
      <3> QED BY <3>1, <2>3, <2>8 DEF DatedBy
    <2>10. DatedBy(day)'
      <3>1. divs' \in Seq(Divergence) /\ call'.today <= day
        BY <1>t, <1>c, <2>1, <2>8 DEF TypeOK
      <3>2. ASSUME NEW i \in DOMAIN divs'
            PROVE  divs'[i].detected \in Int /\ divs'[i].resolved \in Int
        <4>1. divs'[i] \in Divergence
          BY <3>1, <3>2
        <4> QED BY <4>1 DEF Divergence, Day
      <3> QED BY <2>1, <2>5, <2>8, <2>9, <3>1, <3>2, <1>d DEF DatedBy
    <2>11. EpisodesDisjoint'
      <3>1. ASSUME NEW i \in DOMAIN divs, NEW j \in DOMAIN divs, i < j
            PROVE  /\ divs'[i].resolved # 0 /\ divs'[i].detected <= divs'[i].resolved
                   /\ divs'[i].resolved <= divs'[j].detected
        <4>1. divs[i].resolved # 0
          BY <3>1 DEF Inv, EpisodesDisjoint
        <4>2. i # k
          BY <4>1, <2>3
        <4>3. divs'[i].resolved = divs[i].resolved /\ divs'[i].detected = divs[i].detected /\ divs'[j].detected = divs[j].detected
          BY <3>1, <4>2, <2>a
        <4> QED BY <3>1, <4>3 DEF Inv, EpisodesDisjoint
      <3>2. DOMAIN divs' = DOMAIN divs
        BY <2>3
      <3> QED BY <3>1, <3>2 DEF EpisodesDisjoint
    <2>12. EventHasEpisode'
      <3>1. ASSUME NEW ev \in events
            PROVE  \E i \in DOMAIN divs : divs'[i].type = ev[1] /\ divs'[i].detected = ev[2]
        <4>1. PICK i \in DOMAIN divs : divs[i].type = ev[1] /\ divs[i].detected = ev[2]
          BY <3>1 DEF Inv, EventHasEpisode
        <4> QED BY <4>1, <2>a
      <3> QED BY <3>1, <2>1, <2>3 DEF EventHasEpisode
    <2>13. StepsKnow' /\ TrackingAgrees'
      <3>1. OpenType' = "none"
        BY <2>6 DEF OpenType
      <3> QED BY <1>c, <2>1, <2>6, <2>8, <2>9, <3>1 DEF StepsKnow, TrackingAgrees, At, Found
    <2> QED BY <1>t, <2>10, <2>11, <2>12, <2>13 DEF Inv
  <1>11. CASE Insert
    <2>1. call \in Busy /\ day' = day /\ events' = events /\ last' = last /\ last = call.type
      BY <1>11, <1>t, <1>c, CallCases DEF Insert, Tracking, clock, Inv, StepsKnow, At, Found
    <2>2. Opened = {} /\ call.type # "none" /\ DatedBy(call.today)
      BY <1>11, <2>1, <1>c DEF Insert, Inv, StepsKnow, At, Tracking
    <2> DEFINE n == Len(divs) + 1
               new == [type |-> call.type, detected |-> call.today, resolved |-> 0,
                       change |-> [m \in Forward |-> 0]]
    <2>3. divs' = Append(divs, new) /\ new \in Divergence
      BY <1>11, <1>t, <2>1, <2>2, NewDivergence DEF Insert
    <2>4. /\ DOMAIN divs' = DOMAIN divs \cup {n} /\ n \notin DOMAIN divs
          /\ divs'[n] = new /\ n \in Nat /\ n > 0
          /\ \A i \in DOMAIN divs : i \in Nat /\ i < n /\ divs'[i] = divs[i]
      BY <2>3, <1>d
    <2>5. call.today \in Nat /\ call.today <= day /\ call.today # 0
      BY <2>1, <1>c DEF Day
    <2>6. Opened' = {n}
      BY <2>2, <2>4 DEF Opened
    <2>7. /\ call'.today = call.today /\ call'.type = call.type /\ call'.pc = "emit"
      BY <1>11, <2>1 DEF Insert, Goto, Busy
    <2> HIDE DEF n
    <2>8. new.detected = call.today /\ new.resolved = 0 /\ new.type = call.type
      OBVIOUS
    <2> HIDE DEF new
    <2>9. DatedBy(call.today)'
      BY <2>2, <2>4, <2>5, <2>7, <2>8 DEF DatedBy
    <2>10. DatedBy(day)'
      <3>1. ASSUME NEW i \in DOMAIN divs'
            PROVE  /\ divs'[i].detected <= day /\ divs'[i].resolved <= day
                   /\ divs'[i].resolved # 0 => divs'[i].detected <= divs'[i].resolved
        <4>1. CASE i = n
          BY <4>1, <2>4, <2>5, <2>8, <1>d
        <4>2. CASE i \in DOMAIN divs
          BY <4>2, <2>4 DEF Inv, DatedBy
        <4> QED BY <3>1, <4>1, <4>2, <2>4
      <3> QED BY <3>1, <2>1 DEF DatedBy
    <2>11. EpisodesDisjoint'
      <3>1. ASSUME NEW i \in DOMAIN divs', NEW j \in DOMAIN divs', i < j
            PROVE  /\ divs'[i].resolved # 0 /\ divs'[i].detected <= divs'[i].resolved
                   /\ divs'[i].resolved <= divs'[j].detected
        <4>1. i \in DOMAIN divs /\ divs[i].resolved # 0
          BY <3>1, <2>2, <2>4 DEF Opened
        <4>2. CASE j = n
          BY <4>1, <4>2, <2>2, <2>4, <2>8 DEF DatedBy
        <4>3. CASE j \in DOMAIN divs
          BY <3>1, <4>1, <4>3, <2>4 DEF Inv, EpisodesDisjoint
        <4> QED BY <4>2, <4>3, <2>4
      <3> QED BY <3>1 DEF EpisodesDisjoint
    <2>12. EventHasEpisode'
      BY <2>1, <2>4 DEF Inv, EventHasEpisode
    <2>13. JustInserted'
      BY <2>4, <2>7, <2>8 DEF JustInserted
    <2>14. StepsKnow' /\ TrackingAgrees'
      BY <1>c, <2>1, <2>2, <2>7, <2>9, <2>13 DEF StepsKnow, TrackingAgrees, At, Found
    <2> QED BY <1>t, <2>10, <2>11, <2>12, <2>14 DEF Inv
  <1>12. CASE EmitEvent
    <2>1. call \in Busy /\ day' = day /\ divs' = divs /\ last' = last /\ last = call.type
      BY <1>12, <1>t, <1>c, CallCases DEF EmitEvent, Tracking, clock, Inv, StepsKnow, At, Found
    <2>2. JustInserted /\ DatedBy(call.today)
      BY <1>12, <2>1, <1>c DEF EmitEvent, Inv, StepsKnow, At, Tracking
    <2>3. /\ call'.today = call.today /\ call'.type = call.type /\ call'.pc = "finish"
          /\ events' = events \cup {<<call.type, call.today>>}
      BY <1>12, <2>1 DEF EmitEvent, Goto, Busy
    <2>4. EventHasEpisode'
      <3>1. ASSUME NEW ev \in events'
            PROVE  \E i \in DOMAIN divs : divs[i].type = ev[1] /\ divs[i].detected = ev[2]
        <4>1. CASE ev \in events
          BY <4>1 DEF Inv, EventHasEpisode
        <4>2. CASE ev = <<call.type, call.today>>
          BY <4>2, <2>2 DEF JustInserted
        <4> QED BY <4>1, <4>2, <2>3
      <3> QED BY <3>1, <2>1 DEF EventHasEpisode
    <2>5. OpenType = call.type
      BY <2>2, <1>d, OneOpen DEF Inv, JustInserted, Opened
    <2>6. OpenType' = OpenType
      BY <2>1 DEF OpenType, Opened
    <2>7. StepsKnow' /\ TrackingAgrees' /\ DatedBy(day)' /\ EpisodesDisjoint'
      BY <1>c, <2>1, <2>2, <2>3, <2>5, <2>6
         DEF Inv, StepsKnow, TrackingAgrees, At, Found, DatedBy, EpisodesDisjoint
    <2> QED BY <1>t, <2>4, <2>7 DEF Inv
  <1>13. CASE Finish \/ Crash
    BY <1>13, <1>t, BeforeTracking DEF Finish, Crash, clock
  <1>14. CASE Evening
    BY <1>14, <1>t DEF Evening, rows, track, Inv, DatedBy, StepsKnow, EpisodesDisjoint,
       EventHasEpisode, TrackingAgrees, JustInserted, At, Opened, OpenType
  <1>15. CASE Midnight
    <2>1. day' = day + 1 /\ UNCHANGED <<track, call>>
      BY <1>15 DEF Midnight
    <2>2. DatedBy(day + 1)
      BY <1>d, DatedLater DEF Inv
    <2>3. StepsKnow'
      BY <2>1, <1>c, <1>d, <1>t, CallCases
         DEF Inv, StepsKnow, track, DatedBy, JustInserted, At, Opened, Day
    <2>4. EpisodesDisjoint' /\ EventHasEpisode' /\ TrackingAgrees' /\ DatedBy(day)'
      BY <2>1, <2>2 DEF Inv, track, EpisodesDisjoint, EventHasEpisode, TrackingAgrees,
         OpenType, Opened, At, DatedBy
    <2> QED BY <1>t, <2>3, <2>4 DEF Inv
  <1>16. CASE UNCHANGED vars
    BY <1>16, <1>t DEF vars, clock, track, Inv, DatedBy, StepsKnow, EpisodesDisjoint,
       EventHasEpisode, TrackingAgrees, JustInserted, At, Opened, OpenType
  <1> QED
    BY <1>1, <1>2, <1>3, <1>4, <1>5, <1>6, <1>7, <1>8, <1>9, <1>10, <1>11, <1>12, <1>13,
       <1>14, <1>15, <1>16 DEF Next, Step

\* It holds at the start.
LEMMA InitInv == Init => Inv
  <1> SUFFICES ASSUME Init PROVE Inv
    OBVIOUS
  <1> QED BY InitTypes DEF Init, Inv, Idle, DatedBy, StepsKnow, EpisodesDisjoint,
             EventHasEpisode, TrackingAgrees, At

LEMMA InvHolds == Spec => []Inv
  BY InitInv, NextInv, PTL DEF Spec

-----------------------------------------------------------------------------
\* Every variable keeps its type, the bounds included.
THEOREM TypeCorrect == Spec => []TypeOK
  <1>1. Inv => TypeOK
    BY DEF Inv
  <1> QED BY <1>1, InvHolds, PTL

\* breadth_divergences: episodes never overlap, whatever dies or is unavailable
\* and whenever midnight falls, so the find_one of an open one is unambiguous.
THEOREM EpisodesNeverOverlap == Spec => []EpisodesDisjoint
  <1>1. Inv => EpisodesDisjoint
    BY DEF Inv
  <1> QED BY <1>1, InvHolds, PTL

\* market_flow_events: every card in the feed is about a divergence on record,
\* of that type and detected on that day.
THEOREM EventsAreOnRecord == Spec => []EventHasEpisode
  <1>1. Inv => EventHasEpisode
    BY DEF Inv
  <1> QED BY <1>1, InvHolds, PTL

\* update_divergence_tracking repairs what an interrupted call left: at the end
\* of each call the open divergence is the one the call has read.
THEOREM TrackingIsRepaired == Spec => []TrackingAgrees
  <1>1. Inv => TrackingAgrees
    BY DEF Inv
  <1> QED BY <1>1, InvHolds, PTL

-----------------------------------------------------------------------------
\* The windows, as sets of sessions.
LEMMA SessionsFinite ==
    /\ Session \subseteq Nat
    /\ \A S \in SUBSET Session : IsFiniteSet(S) /\ Cardinality(S) \in Nat
    /\ \A S, T \in SUBSET Session : S \subseteq T => Cardinality(S) <= Cardinality(T)
  <1>1. IsFiniteSet(1..MaxDay) /\ Session \subseteq 1..MaxDay
    BY FS_Interval, BreadthAssumption
  <1>2. IsFiniteSet(Session)
    BY <1>1, FS_Subset
  <1>3. \A S \in SUBSET Session : IsFiniteSet(S)
    BY <1>2, FS_Subset
  <1>4. \A S \in SUBSET Session : Cardinality(S) \in Nat
    BY <1>3, FS_CardinalityType
  <1>5. ASSUME NEW S \in SUBSET Session, NEW T \in SUBSET Session, S \subseteq T
        PROVE  Cardinality(S) <= Cardinality(T)
    BY <1>3, <1>5, FS_Subset
  <1> QED BY <1>1, <1>3, <1>4, <1>5, BreadthAssumption

\* A window holds sessions up to its end.
LEMMA CoveredUpTo ==
    ASSUME NEW b
    PROVE  \A s \in Covered(b) : s \in Session /\ s <= b
  BY DEF Covered, Newest

\* The window holds every session between one of its own and its end.
LEMMA CoveredIsSuffix ==
    ASSUME NEW b \in Nat, NEW r \in Covered(b), NEW s \in Session, r <= s, s <= b
    PROVE  s \in Covered(b)
  <1> DEFINE After(x) == {e \in {t \in Session : t <= b} : e > x}
  <1>0. r \in Nat /\ s \in Nat /\ Session \subseteq Nat
    BY CoveredUpTo, SessionsFinite
  <1>1. ASSUME NEW e \in After(s) PROVE e \in After(r)
    <2>1. e \in Session /\ e \in Nat /\ e <= b /\ e > s
      BY <1>0
    <2>2. e > r
      BY <1>0, <2>1
    <2> QED BY <2>1, <2>2
  <1>2. Cardinality(After(s)) <= Cardinality(After(r))
    <2>1. After(s) \subseteq After(r) /\ After(s) \in SUBSET Session /\ After(r) \in SUBSET Session
      BY <1>1
    <2> QED BY <2>1, SessionsFinite
  <1>3. Cardinality(After(r)) < Lookback
    BY DEF Covered, Newest
  <1>4. Cardinality(After(s)) \in Nat /\ Cardinality(After(r)) \in Nat /\ Lookback \in Nat
    BY SessionsFinite, BreadthAssumption
  <1>5. Cardinality(After(s)) < Lookback
    BY <1>2, <1>3, <1>4
  <1> QED BY <1>5 DEF Covered, Newest

\* A window that ends later starts no earlier.
LEMMA CoveredMovesOn ==
    ASSUME NEW b \in Nat, NEW c \in Nat, b <= c, NEW s \in Covered(c), s <= b
    PROVE  s \in Covered(b)
  <1> DEFINE After(x) == {e \in {t \in Session : t <= x} : e > s}
  <1>0. s \in Session /\ Session \subseteq Nat
    BY CoveredUpTo, SessionsFinite
  <1>1. ASSUME NEW e \in After(b) PROVE e \in After(c)
    <2>1. e \in Session /\ e \in Nat /\ e <= b /\ e > s
      BY <1>0
    <2>2. e <= c
      BY <2>1
    <2> QED BY <2>1, <2>2
  <1>2. Cardinality(After(b)) <= Cardinality(After(c))
    <2>1. After(b) \subseteq After(c) /\ After(b) \in SUBSET Session /\ After(c) \in SUBSET Session
      BY <1>1
    <2> QED BY <2>1, SessionsFinite
  <1>3. Cardinality(After(c)) < Lookback
    BY DEF Covered, Newest
  <1>4. Cardinality(After(b)) \in Nat /\ Cardinality(After(c)) \in Nat /\ Lookback \in Nat
    BY SessionsFinite, BreadthAssumption
  <1>5. Cardinality(After(b)) < Lookback
    BY <1>2, <1>3, <1>4
  <1> QED BY <1>0, <1>5 DEF Covered, Newest

\* A row of the window is among the newest rows, when no row is past its end.
LEMMA CoveredIsNewest ==
    ASSUME NEW b \in Nat, NEW R \in SUBSET Session, \A d \in R : d <= b,
           NEW s \in R, s \in Covered(b)
    PROVE  s \in Newest(Lookback, R)
  <1> DEFINE After == {e \in {t \in Session : t <= b} : e > s}
             Later == {e \in R : e > s}
  <1>1. Cardinality(Later) <= Cardinality(After)
    BY SessionsFinite
  <1>2. Cardinality(After) < Lookback
    BY DEF Covered, Newest
  <1>3. Cardinality(Later) \in Nat /\ Cardinality(After) \in Nat /\ Lookback \in Nat
    BY SessionsFinite, BreadthAssumption
  <1>4. Cardinality(Later) < Lookback
    BY <1>1, <1>2, <1>3
  <1> QED BY <1>4 DEF Newest

-----------------------------------------------------------------------------
\* What breadth_cache and the stored bars know of each other, and a sweep and
\* a reading of them.

Prefix == \A d \in Rows("nyse") : \A s \in Covered(bars["nyse"]) :
             s <= d => s \in Rows("nyse")

Printing == /\ bars["nyse"] <= Printed
            /\ \A d \in Rows("nyse") : d <= bars["nyse"]

SweepKnows == At("nyse write") =>
    /\ call.left \subseteq Covered(bars["nyse"])
    /\ \A s \in Covered(bars["nyse"]) \ call.left :
          s \in Rows("nyse") /\ \A d \in call.left : s < d

ReadingKnows == call # Idle =>
    /\ \A d \in call.nymo : d <= bars["nyse"]
    /\ call.spy \subseteq call.nymo
    /\ \A d \in call.spy : \A s \in call.nymo : s <= d => s \in call.spy
    /\ call.pc \in Early \ {"spy write"} => call.spy = {}
    /\ call.pc \in Tracking => \A s \in call.spy : s <= call.today

Reads == Prefix /\ Printing /\ SweepKnows /\ ReadingKnows /\ ReadingHasNoHole

LEMMA InitReads == Init => Reads
  <1> SUFFICES ASSUME Init PROVE Reads
    OBVIOUS
  <1>1. "nyse" \in Exchange \cup {"SPY"} /\ "nyse" \in Exchange
    BY BreadthAssumption
  <1>2. bars["nyse"] = 0 /\ Rows("nyse") = {} /\ Printed \in Nat
    BY <1>1, BreadthAssumption DEF Init, Rows, Printed
  <1>3. call = Idle /\ ~At("nyse write")
    BY DEF Init, Idle, At
  <1>4. Prefix /\ SweepKnows /\ ReadingKnows /\ ReadingHasNoHole
    BY <1>2, <1>3 DEF Prefix, SweepKnows, ReadingKnows, ReadingHasNoHole
  <1>5. Printing
    BY <1>2 DEF Printing
  <1> QED BY <1>4, <1>5 DEF Reads

\* Of the call, a step may start over, take the closes of SPY up to a day, or
\* go on with what is read.
UpTo(b) == {d \in call.nymo : d <= b}

TakesSpy ==
    \/ call'.spy = {} \/ call'.spy = call.spy \/ call'.spy = call.nymo
    \/ \E b \in Nat : call'.spy = UpTo(b)

GoesOn ==
    /\ call # Idle /\ call'.nymo = call.nymo /\ TakesSpy
    /\ call'.pc \in Early \ {"spy write"} =>
          call'.spy = call.spy /\ call.pc \in Early \ {"spy write"}
    /\ call'.pc \in Tracking =>
          \/ call'.today = day
          \/ call.pc \in Tracking /\ call'.spy = call.spy /\ call'.today = call.today

CallKept ==
    call' # Idle =>
       /\ call'.pc = "nyse write" => At("nyse write") /\ call'.left = call.left
       /\ GoesOn \/ (call'.nymo = {} /\ call'.spy = {})

\* Steps that change neither the rows nor the bars of nyse.
LEMMA RowsUntouched ==
    ASSUME TypeOK, TypeOK', Reads, CallKept,
           bars'["nyse"] = bars["nyse"], cache'["nyse"] = cache["nyse"],
           UNCHANGED <<day, evening>> \/ Evening \/ Midnight
    PROVE  Reads'
  <1>1. Rows("nyse")' = Rows("nyse")
    BY DEF Rows
  <1>2. bars["nyse"] \in Nat /\ day \in Nat /\ Printed \in Int /\ Printed <= day
    <2>1. "nyse" \in Exchange /\ bars["nyse"] \in Day \cup {0} /\ day \in Nat
      BY BreadthAssumption DEF TypeOK
    <2> QED BY <2>1, BreadthAssumption DEF Day, Printed
  <1>3. Printed <= Printed' /\ Printed' \in Int
    <2>1. CASE UNCHANGED <<day, evening>>
      BY <2>1, <1>2 DEF Printed
    <2>2. CASE Evening
      BY <2>2, <1>2 DEF Printed, Evening
    <2>3. CASE Midnight
      BY <2>3, <1>2 DEF Printed, Midnight
    <2> QED BY <2>1, <2>2, <2>3
  <1>4. Prefix' /\ Printing'
    <2>1. Covered(bars["nyse"])' = Covered(bars["nyse"])
      BY DEF Covered, Newest
    <2>2. Prefix'
      BY <1>1, <2>1 DEF Reads, Prefix
    <2>3. bars'["nyse"] <= Printed'
      BY <1>2, <1>3 DEF Reads, Printing
    <2>4. \A d \in Rows("nyse")' : d <= bars'["nyse"]
      BY <1>1 DEF Reads, Printing
    <2> QED BY <2>2, <2>3, <2>4 DEF Printing
  <1>5. SweepKnows'
    <2> SUFFICES ASSUME call'.pc = "nyse write" PROVE SweepKnows'
      BY DEF SweepKnows, At
    <2>1. call' # Idle
      <3>1. Idle.pc = "idle"
        BY DEF Idle
      <3> QED BY <3>1
    <2>2. At("nyse write") /\ call'.left = call.left
      BY <2>1 DEF CallKept
    <2> QED BY <2>2, <1>1 DEF Reads, SweepKnows, Covered, Newest
  <1>6. CASE call' = Idle
    BY <1>4, <1>5, <1>6 DEF Reads, ReadingKnows, ReadingHasNoHole
  <1>7. CASE call' # Idle /\ call'.nymo = {} /\ call'.spy = {}
    BY <1>4, <1>5, <1>7 DEF Reads, ReadingKnows, ReadingHasNoHole
  <1>8. CASE call' # Idle /\ GoesOn
    <2>1. call # Idle /\ call'.nymo = call.nymo /\ TakesSpy
      BY <1>8 DEF GoesOn
    <2>2. ReadingHasNoHole'
      BY <2>1 DEF Reads, ReadingHasNoHole, Covered, Newest
    <2>3. \A d \in call.nymo : d \in Nat /\ d <= bars["nyse"] /\ d <= day
      <3>1. call.nymo \subseteq Session
        BY <2>1 DEF TypeOK, Busy
      <3>2. \A d \in call.nymo : d \in Nat /\ d <= bars["nyse"]
        BY <3>1, <2>1, SessionsFinite DEF Reads, ReadingKnows
      <3>3. bars["nyse"] <= Printed
        BY DEF Reads, Printing
      <3> QED BY <3>2, <3>3, <1>2
    <2>4. /\ call'.spy \subseteq call.nymo
          /\ \A d \in call'.spy : \A x \in call.nymo : x <= d => x \in call'.spy
      <3>1. CASE call'.spy = call.spy
        BY <3>1, <2>1 DEF Reads, ReadingKnows
      <3>2. CASE call'.spy = {} \/ call'.spy = call.nymo
        BY <3>2
      <3>3. CASE \E b \in Nat : call'.spy = UpTo(b)
        <4>1. PICK b \in Nat : call'.spy = UpTo(b)
          BY <3>3
        <4>2. ASSUME NEW d \in UpTo(b), NEW x \in call.nymo, x <= d
              PROVE  x \in UpTo(b)
          <5>1. d \in call.nymo /\ d <= b
            BY DEF UpTo
          <5>2. d \in Nat /\ x \in Nat
            BY <5>1, <2>3
          <5>3. x <= b
            BY <5>1, <5>2, <4>2
          <5> QED BY <5>3 DEF UpTo
        <4> QED BY <4>1, <4>2 DEF UpTo
      <3> QED BY <2>1, <3>1, <3>2, <3>3 DEF TakesSpy
    <2>5. call'.pc \in Early \ {"spy write"} => call'.spy = {}
      BY <1>8 DEF GoesOn, Reads, ReadingKnows
    <2>6. call'.pc \in Tracking => \A x \in call'.spy : x <= call'.today
      BY <1>8, <2>3, <2>4 DEF GoesOn, Reads, ReadingKnows
    <2>7. ReadingKnows'
      BY <2>1, <2>3, <2>4, <2>5, <2>6 DEF ReadingKnows
    <2> QED BY <1>4, <1>5, <2>2, <2>7 DEF Reads
  <1> QED BY <1>6, <1>7, <1>8 DEF CallKept

\* A reading served from the rows of nyse has what they have of the window.
LEMMA ServedIsPrefix ==
    ASSUME TypeOK, TypeOK', Inv, Reads, ServeRows("nyse")
    PROVE  Reads'
  <1>1. call \in Busy /\ call # Idle /\ call.pc = "nyse" /\ "nyse" \in Exchange
    BY CallCases, BreadthAssumption DEF ServeRows, Early, At
  <1>2. /\ call'.pc \in {"nasdaq", "spy"} /\ call'.spy = call.spy
        /\ call'.nymo = Newest(Lookback, Rows("nyse"))
        /\ UNCHANGED <<clock, rows>>
    BY <1>1 DEF ServeRows, Busy, AfterRows, Reading
  <1>3. bars["nyse"] \in Nat /\ Rows("nyse") \subseteq Session
    BY <1>1 DEF TypeOK, Day, Rows
  <1>4. Rows("nyse")' = Rows("nyse") /\ Covered(bars["nyse"])' = Covered(bars["nyse"])
    BY <1>2 DEF rows, Rows, Covered, Newest
  <1>5. Prefix' /\ Printing'
    BY <1>2, <1>4 DEF Reads, Prefix, Printing, rows, clock, Printed
  <1>6. ~At("nyse write")' /\ call' # Idle
    <2>1. Idle.pc = "idle"
      BY DEF Idle
    <2> QED BY <1>2, <2>1 DEF At
  <1>7. call.spy = {}
    BY <1>1 DEF Reads, ReadingKnows, Early
  <1>8. ReadingKnows'
    <2>1. \A d \in call'.nymo : d <= bars'["nyse"]
      BY <1>2 DEF Newest, Reads, Printing, rows
    <2> QED BY <2>1, <1>2, <1>7 DEF ReadingKnows, Early, Tracking
  <1>9. ReadingHasNoHole'
    <2> SUFFICES ASSUME NEW d \in Newest(Lookback, Rows("nyse")),
                        NEW s \in Covered(bars["nyse"]), s <= d
                 PROVE  s \in Newest(Lookback, Rows("nyse"))
      BY <1>2, <1>4 DEF ReadingHasNoHole
    <2>1. s \in Rows("nyse")
      BY DEF Newest, Reads, Prefix
    <2> QED BY <2>1, <1>3, CoveredIsNewest DEF Reads, Printing
  <1> QED BY <1>5, <1>6, <1>8, <1>9 DEF Reads, SweepKnows

\* A sweep reads the whole window of the bars it has extended.
LEMMA SweptIsWindow ==
    ASSUME TypeOK, TypeOK', Inv, Reads, Sweep("nyse")
    PROVE  Reads'
  <1>1. call \in Busy /\ call # Idle /\ call.pc = "nyse" /\ "nyse" \in Exchange
    BY CallCases, BreadthAssumption DEF Sweep, Early, At
  <1> DEFINE b == bars["nyse"]
             c == bars'["nyse"]
  <1>2. /\ call'.pc = "nyse write" /\ call'.spy = call.spy /\ call'.left = Covered(c)
        /\ call'.nymo = Covered(c) /\ UNCHANGED <<clock, cache>>
    BY <1>1 DEF Sweep, Busy, Writing, Reading
  <1>3. b \in Nat /\ c \in Nat /\ Printed \in Int /\ day \in Nat
    BY <1>1, BreadthAssumption DEF TypeOK, Day, Printed
  <1>4. c = b \/ c = Printed
    BY <1>1 DEF Sweep, TypeOK
  <1>5. Rows("nyse")' = Rows("nyse") /\ Printed' = Printed /\ b <= Printed
    BY <1>2 DEF Rows, Reads, Printing, clock, Printed
  <1>6. b <= c /\ c <= Printed
    BY <1>3, <1>4, <1>5
  <1>7. call' # Idle
    <2>1. Idle.pc = "idle"
      BY DEF Idle
    <2> QED BY <1>2, <2>1
  <1>8. call.spy = {}
    BY <1>1 DEF Reads, ReadingKnows, Early
  <1>r. \A d \in Rows("nyse") : d \in Nat /\ d <= b
    <2>1. Rows("nyse") \subseteq Nat
      BY SessionsFinite DEF Rows
    <2> QED BY <2>1 DEF Reads, Printing
  <1>o. Reads
    OBVIOUS
  <1>w. \A x \in Nat : x <= b => x <= c
    BY <1>3, <1>6
  <1>m. ASSUME NEW s \in Covered(c), s <= b PROVE s \in Covered(b)
    BY <1>3, <1>6, <1>m, CoveredMovesOn
  <1>n. Covered(c) \subseteq Nat
    BY CoveredUpTo, SessionsFinite
  <1>p. \A d \in Rows("nyse") : \A s \in Covered(b) : s <= d => s \in Rows("nyse")
    BY DEF Reads, Prefix
  <1>9. Prefix'
    <2> SUFFICES ASSUME NEW d \in Rows("nyse"), NEW s \in Covered(c), s <= d
                 PROVE  s \in Rows("nyse")
      <3>1. Covered(bars["nyse"])' = Covered(c)
        BY DEF Covered, Newest
      <3> QED BY <3>1, <1>5 DEF Prefix
    <2> HIDE DEF b, c
    <2>1. s <= b
      BY <1>r, <1>n, <1>3
    <2> QED BY <2>1, <1>m, <1>p
  <1>10. Printing'
    <2>1. \A d \in Rows("nyse")' : d <= c
      BY <1>5, <1>r, <1>w
    <2> QED BY <2>1, <1>5, <1>6 DEF Printing
  <1>11. SweepKnows'
    <2>1. Covered(bars["nyse"])' = Covered(c)
      BY DEF Covered, Newest
    <2> QED BY <2>1, <1>2 DEF SweepKnows, At
  <1>12. ReadingKnows'
    BY <1>2, <1>8, CoveredUpTo DEF ReadingKnows, Tracking
  <1>13. ReadingHasNoHole'
    <2>1. Covered(bars["nyse"])' = Covered(c)
      BY DEF Covered, Newest
    <2> QED BY <2>1, <1>2 DEF ReadingHasNoHole
  <1> QED BY <1>9, <1>10, <1>11, <1>12, <1>13 DEF Reads

\* A row is written when all the older ones of the window are.
LEMMA WrittenInOrder ==
    ASSUME TypeOK, TypeOK', Inv, Reads, WriteRow("nyse")
    PROVE  Reads'
  <1>1. call \in Busy /\ call # Idle /\ call.pc = "nyse write" /\ "nyse" \in Exchange
    BY CallCases, BreadthAssumption DEF WriteRow, Early, At, Writing
  <1>2. PICK d \in call.left :
           /\ \A o \in call.left : d <= o
           /\ cache' = [cache EXCEPT !["nyse"][d] = call.today]
           /\ call' = [call EXCEPT !.left = @ \ {d}]
    BY DEF WriteRow
  <1>3. UNCHANGED <<clock, bars>>
    BY DEF WriteRow
  <1>4. /\ call'.pc = "nyse write" /\ call'.spy = call.spy /\ call'.nymo = call.nymo
        /\ call'.left = call.left \ {d}
    BY <1>1, <1>2 DEF Busy
  <1> DEFINE W == Covered(bars["nyse"])
  <1>5. /\ call.left \subseteq W /\ d \in W /\ d \in Session
        /\ \A s \in W \ call.left : s \in Rows("nyse") /\ \A x \in call.left : s < x
    BY <1>1, <1>2, CoveredUpTo DEF Reads, SweepKnows, At
  <1>6. Rows("nyse")' = Rows("nyse") \cup {d}
    <2>1. call.today \in Day /\ call.today # 0
      <3>1. call.today \in Day
        BY <1>1 DEF Busy
      <3>2. 0 \notin Day
        BY BreadthAssumption DEF Day
      <3> QED BY <3>1, <3>2
    <2>2. cache'["nyse"] = [cache["nyse"] EXCEPT ![d] = call.today]
      BY <1>1, <1>2 DEF TypeOK
    <2>3. cache["nyse"] \in [Session -> Day \cup {0}]
      BY <1>1 DEF TypeOK
    <2> QED BY <2>1, <2>2, <2>3, <1>5 DEF Rows
  <1>7. Covered(bars["nyse"])' = W
    BY <1>3 DEF Covered, Newest
  <1>n. W \subseteq Nat /\ Rows("nyse") \subseteq Nat
    BY CoveredUpTo, SessionsFinite DEF Rows
  <1>8. Prefix'
    <2> SUFFICES ASSUME NEW r \in Rows("nyse") \cup {d}, NEW s \in W, s <= r
                 PROVE  s \in Rows("nyse") \cup {d}
      BY <1>6, <1>7 DEF Prefix
    <2>1. CASE r \in Rows("nyse")
      BY <2>1 DEF Reads, Prefix
    <2>2. CASE r = d /\ s \in call.left
      <3>1. d <= s /\ s <= d /\ s \in Nat /\ d \in Nat
        BY <2>2, <1>2, <1>5, <1>n
      <3>2. s = d
        BY <3>1
      <3> QED BY <3>2
    <2>3. CASE r = d /\ s \notin call.left
      BY <2>3, <1>5
    <2> QED BY <2>1, <2>2, <2>3
  <1>9. Printing'
    <2>1. d <= bars["nyse"]
      BY <1>5, CoveredUpTo
    <2> QED BY <2>1, <1>3, <1>6 DEF Reads, Printing, clock, Printed
  <1>10. SweepKnows'
    <2>1. ASSUME NEW s \in W \ call'.left
          PROVE  s \in Rows("nyse")' /\ \A x \in call'.left : s < x
      <3>1. CASE s \notin call.left
        BY <3>1, <1>4, <1>5, <1>6
      <3>2. CASE s = d
        <4>1. ASSUME NEW x \in call'.left PROVE d < x
          <5>1. d <= x /\ d # x /\ d \in Nat /\ x \in Nat
            BY <1>2, <1>4, <1>5, <1>n
          <5> QED BY <5>1
        <4> QED BY <4>1, <3>2, <1>6
      <3> QED BY <3>1, <3>2, <1>4
    <2> QED BY <2>1, <1>4, <1>5, <1>7 DEF SweepKnows
  <1>11. ReadingKnows' /\ ReadingHasNoHole'
    BY <1>1, <1>3, <1>4, <1>7 DEF Reads, ReadingKnows, ReadingHasNoHole, Tracking, Early
  <1> QED BY <1>8, <1>9, <1>10, <1>11 DEF Reads

\* The other steps keep the rows and the reading.
LEMMA NextReads == Inv /\ Inv' /\ Reads /\ [Next]_vars => Reads'
  <1> SUFFICES ASSUME Inv, Inv', Reads, [Next]_vars PROVE Reads'
    OBVIOUS
  <1>t. TypeOK /\ TypeOK' /\ "nyse" \in Exchange
    BY BreadthAssumption DEF Inv
  <1>1. CASE StartWorker \/ StartCrew
    <2>1. PICK by \in {"worker", "crew"}, now \in Nat : Begin(by, now)
      BY <1>1, <1>t, BreadthAssumption DEF StartWorker, StartCrew, TypeOK
    <2>2. call'.pc = "nyse" /\ call'.nymo = {} /\ call'.spy = {}
      BY <2>1 DEF Begin
    <2> QED BY <1>1, <1>t, <2>2, RowsUntouched DEF StartWorker, StartCrew, CallKept, clock, rows
  <1>2. CASE Fail \/ Finish \/ Crash
    BY <1>2, <1>t, RowsUntouched DEF Fail, Finish, Crash, CallKept, clock, rows
  <1>3. CASE ServeRows("nyse") \/ Sweep("nyse") \/ WriteRow("nyse")
    BY <1>3, <1>t, ServedIsPrefix, SweptIsWindow, WrittenInOrder
  <1>4. ASSUME NEW e \in Exchange, e # "nyse", ServeRows(e) \/ Sweep(e) \/ WriteRow(e)
        PROVE  Reads'
    <2>1. e = "nasdaq"
      BY <1>4, BreadthAssumption
    <2>2. call \in Busy /\ call # Idle /\ call.pc \in {"nasdaq", "nasdaq write"}
      BY <1>4, <1>t, <2>1, CallCases DEF ServeRows, Sweep, WriteRow, Early, At, Writing
    <2>3. /\ call'.nymo = call.nymo /\ call'.spy = call.spy
          /\ call'.pc \in {"nasdaq write", "spy"}
      BY <1>4, <2>1, <2>2 DEF ServeRows, Sweep, WriteRow, Busy, AfterRows, Writing, Reading, At
    <2>4. bars'["nyse"] = bars["nyse"] /\ cache'["nyse"] = cache["nyse"] /\ UNCHANGED clock
      BY <1>4, <1>t, <2>1 DEF ServeRows, Sweep, WriteRow, rows, TypeOK
    <2>5. CallKept
      BY <2>2, <2>3 DEF CallKept, GoesOn, TakesSpy, Early, Tracking
    <2> QED BY <1>t, <2>4, <2>5, RowsUntouched DEF clock
  <1>5. ASSUME NEW e \in Exchange, RowsWritten(e)
        PROVE  Reads'
    <2>1. e \in {"nyse", "nasdaq"}
      BY BreadthAssumption
    <2>2. call \in Busy /\ call # Idle /\ call.pc \in {"nyse write", "nasdaq write"}
      BY <1>5, <1>t, <2>1, CallCases DEF RowsWritten, Early, At, Writing
    <2>3. /\ call'.nymo = call.nymo /\ call'.spy = call.spy
          /\ call'.pc \in {"nasdaq", "spy"}
      BY <1>5, <2>1, <2>2 DEF RowsWritten, Goto, Busy, AfterRows
    <2>5. CallKept
      BY <2>2, <2>3 DEF CallKept, GoesOn, TakesSpy, Early, Tracking
    <2> QED BY <1>5, <1>t, <2>5, RowsUntouched DEF RowsWritten, clock, rows
  <1>6. CASE SpyCached \/ SpyDownload \/ SpyUnavailable
    <2>1. call \in Busy /\ call # Idle /\ call.pc = "spy"
      BY <1>6, <1>t, CallCases DEF SpyCached, SpyDownload, SpyUnavailable, Early, At
    <2>2. call'.nymo = call.nymo /\ UNCHANGED <<clock, cache>>
      BY <1>6, <2>1 DEF SpyCached, SpyDownload, SpyUnavailable, Read, Busy, rows
    <2>3. bars'["nyse"] = bars["nyse"]
      BY <1>6, <1>t, BreadthAssumption DEF SpyCached, SpyDownload, SpyUnavailable, rows, TypeOK
    <2>4. TakesSpy
      <3>1. CASE SpyDownload
        <4>1. bars'["SPY"] \in Nat
          BY <1>t DEF TypeOK, Day
        <4>2. call'.spy = UpTo(bars'["SPY"])
          BY <3>1, <2>1 DEF SpyDownload, Busy, UpTo
        <4> QED BY <4>1, <4>2 DEF TakesSpy
      <3>2. CASE SpyCached \/ SpyUnavailable
        BY <3>2, <2>1 DEF SpyCached, SpyUnavailable, Read, Busy, TakesSpy
      <3> QED BY <1>6, <3>1, <3>2
    <2>5. \/ call'.pc = "fill" /\ call'.today = day
          \/ call'.pc = "spy write"
      BY <1>6, <2>1 DEF SpyCached, SpyDownload, SpyUnavailable, Read, Busy
    <2>6. CallKept
      BY <2>1, <2>2, <2>4, <2>5 DEF CallKept, GoesOn, Early, Tracking
    <2> QED BY <1>t, <2>2, <2>3, <2>6, RowsUntouched DEF clock
  <1>7. CASE WriteSpy \/ SpyWritten
    <2>1. call \in Busy /\ call # Idle /\ call.pc = "spy write"
      BY <1>7, <1>t, CallCases DEF WriteSpy, SpyWritten, Early, At
    <2>2. /\ call'.nymo = call.nymo /\ call'.spy = call.spy
          /\ \/ call'.pc = "fill" /\ call'.today = day
             \/ call'.pc = "spy write"
      BY <1>7, <2>1 DEF WriteSpy, SpyWritten, Read, Busy
    <2>3. CallKept
      BY <2>1, <2>2 DEF CallKept, GoesOn, TakesSpy, Early, Tracking
    <2> QED BY <1>7, <1>t, <2>3, RowsUntouched DEF WriteSpy, SpyWritten, clock, rows
  <1>8. CASE FillForward \/ ForwardFilled \/ SetLast \/ FindActive \/ Resolve \/ Insert \/ EmitEvent
    <2>1. call \in Busy /\ call # Idle /\ call.pc \in Tracking
      BY <1>8, <1>t, CallCases DEF FillForward, ForwardFilled, SetLast, FindActive, Resolve,
                                   Insert, EmitEvent, Tracking, At
    <2>2. UNCHANGED <<clock, bars, cache>>
      BY <1>8 DEF FillForward, ForwardFilled, SetLast, FindActive, Resolve,
                  Insert, EmitEvent, clock, rows
    <2>3. /\ call'.nymo = call.nymo /\ call'.spy = call.spy /\ call'.today = call.today
          /\ call'.pc \in Tracking
      BY <1>8, <2>1 DEF FillForward, ForwardFilled, SetLast, FindActive, Resolve,
                        Insert, EmitEvent, Goto, Busy, Tracking
    <2>4. CallKept
      BY <2>1, <2>3 DEF CallKept, GoesOn, TakesSpy, Early, Tracking
    <2> QED BY <1>t, <2>2, <2>4, RowsUntouched DEF clock
  <1>9. CASE Evening \/ Midnight \/ UNCHANGED vars
    <2>1. UNCHANGED <<call, bars, cache>>
      BY <1>9 DEF Evening, Midnight, vars, rows
    <2>2. CallKept
      BY <2>1 DEF CallKept, GoesOn, TakesSpy, Early, Tracking, At
    <2> QED BY <1>9, <1>t, <2>1, <2>2, RowsUntouched DEF vars, clock
  <1> QED BY <1>1, <1>2, <1>3, <1>4, <1>5, <1>6, <1>7, <1>8, <1>9 DEF Next, Step

LEMMA ReadsHolds == Spec => []Reads
  BY InvHolds, InitReads, NextReads, PTL DEF Spec

\* breadth_cache: a divergence is read from a window without holes, whichever
\* sweeps died half way and whichever rows a later call serves.
THEOREM ReadingsHaveNoHoles == Spec => []ReadingHasNoHole
  <1>1. Reads => ReadingHasNoHole
    BY DEF Reads
  <1> QED BY <1>1, ReadsHolds, PTL

-----------------------------------------------------------------------------
\* Among enough sessions there is an n-th one after a given one.
LEMMA NthAfter ==
    ASSUME NEW S \in SUBSET Session, NEW r \in S, NEW n \in Nat \ {0},
           Cardinality({s \in S : s > r}) >= n
    PROVE  ForwardChange(S, r, n) # {}
  <1> DEFINE To(d) == {e \in S : r <= e /\ e <= d}
             After == {s \in S : s > r}
             Enough == {d \in S : d >= r /\ Cardinality(To(d)) >= n + 1}
  <1>1. S \subseteq Nat /\ S \subseteq 0..MaxDay /\ MaxDay \in Nat /\ r \in Nat
    BY SessionsFinite, BreadthAssumption
  <1>2. /\ \A d \in S : IsFiniteSet(To(d)) /\ Cardinality(To(d)) \in Nat
        /\ IsFiniteSet(After) /\ Cardinality(After) \in Nat
    BY SessionsFinite
  <1>3. Enough # {}
    <2>1. /\ Max(S) \in S /\ \A x \in S : x <= Max(S)
      BY <1>1, Largest
    <2>2. To(Max(S)) = After \cup {r} /\ r \notin After
      <3>1. ASSUME NEW s \in S
            PROVE  s \in To(Max(S)) <=> s \in After \cup {r}
        <4>1. s \in Nat /\ s <= Max(S) /\ r \in Nat
          BY <1>1, <2>1
        <4>2. r <= s <=> s > r \/ s = r
          BY <4>1
        <4> QED BY <4>1, <4>2
      <3>2. To(Max(S)) \subseteq S /\ After \cup {r} \subseteq S
        OBVIOUS
      <3>3. r \notin After
        BY <1>1
      <3> HIDE DEF To, After
      <3> QED BY <3>1, <3>2, <3>3
    <2> HIDE DEF To, After
    <2>3. Cardinality(To(Max(S))) = Cardinality(After) + 1
      BY <1>2, <2>2, FS_AddElement
    <2>4. Cardinality(After) >= n
      BY DEF After
    <2>5. Cardinality(To(Max(S))) >= n + 1
      BY <2>3, <2>4, <1>2
    <2>6. Max(S) >= r
      BY <1>1, <2>1
    <2> QED BY <2>1, <2>5, <2>6
  <1>4. PICK d \in Enough : \A x \in Enough : d <= x
    BY <1>1, <1>3, Smallest
  <1>5. Cardinality(To(d)) <= n + 1
    <2>1. CASE d = r
      <3>1. To(d) = {r}
        <4>1. ASSUME NEW s \in S PROVE s \in To(d) <=> s = r
          <5>1. s \in Nat /\ r \in Nat
            BY <1>1
          <5>2. (r <= s /\ s <= r) <=> s = r
            BY <5>1
          <5> QED BY <2>1, <5>2
        <4> QED BY <4>1
      <3>2. Cardinality({r}) = 1
        BY FS_Singleton
      <3> QED BY <3>1, <3>2
    <2>2. CASE d # r
      <3> DEFINE Before == {e \in S : r <= e /\ e < d}
      <3>0. d \in Nat /\ r \in Nat /\ d >= r
        BY <1>1
      <3>1. d \in Nat /\ d > r /\ r \in Before /\ Before \subseteq 0..MaxDay
        <4>1. d > r /\ r <= r
          BY <3>0, <2>2
        <4> QED BY <1>1, <3>0, <4>1
      <3>2. Max(Before) \in Before /\ \A x \in Before : x <= Max(Before)
        BY <1>1, <3>1, Largest
      <3>3. PICK p \in Before : \A x \in Before : x <= p
        BY <3>2
      <3>4. To(d) = To(p) \cup {d} /\ d \notin To(p)
        <4>1. ASSUME NEW s \in S PROVE s \in To(d) <=> s \in To(p) \cup {d}
          <5>1. s \in Nat /\ p \in Nat /\ p < d
            BY <1>1, <3>3
          <5>2. CASE s \in Before
            <6>1. s <= p /\ r <= s /\ s < d
              BY <3>3, <5>2
            <6> QED BY <5>1, <6>1, <3>0
          <5>3. CASE s \notin Before
            <6>1. ~(r <= s /\ s < d)
              BY <5>3
            <6>2. r <= s /\ s <= d <=> s = d
              BY <6>1, <5>1, <3>0
            <6>3. ~(r <= s /\ s <= p)
              BY <6>1, <5>1, <3>0
            <6> QED BY <6>2, <6>3
          <5> QED BY <5>2, <5>3
        <4>2. ~(d <= p)
          BY <1>1, <3>0, <3>3
        <4> QED BY <4>1, <4>2
      <3>5. p \notin Enough
        BY <1>1, <1>4, <3>1, <3>3
      <3>6. p \in S /\ p >= r
        BY <1>1, <3>3
      <3>7. ~(Cardinality(To(p)) >= n + 1) /\ Cardinality(To(p)) \in Nat
        BY <3>5, <3>6, <1>2
      <3> HIDE DEF To
      <3>8. Cardinality(To(d)) = Cardinality(To(p)) + 1
        BY <1>2, <3>4, <3>6, FS_AddElement
      <3> QED BY <3>7, <3>8
    <2> QED BY <2>1, <2>2
  <1>6. Cardinality(To(d)) = n + 1
    BY <1>2, <1>4, <1>5
  <1> QED BY <1>4, <1>6 DEF ForwardChange

\* When the closes have every session in between, the n-th of them is n
\* sessions on.
LEMMA NthIsExact ==
    ASSUME NEW S \in SUBSET Session, NEW r, NEW n \in Nat, NEW d \in ForwardChange(S, r, n),
           \A s \in Session : r <= s /\ s <= d => s \in S
    PROVE  Cardinality({s \in Session : r < s /\ s <= d}) = n
  <1> DEFINE To == {e \in S : r <= e /\ e <= d}
             Past == {s \in Session : r < s /\ s <= d}
  <1>1. r \in S /\ d \in S /\ d >= r /\ Cardinality(To) = n + 1
    BY DEF ForwardChange
  <1>2. r \in Nat /\ d \in Nat /\ Session \subseteq Nat
    BY <1>1, SessionsFinite
  <1>3. ASSUME NEW s \in Session PROVE s \in To <=> s \in Past \cup {r}
    <2>1. s \in Nat /\ r <= r /\ (r <= s <=> r < s \/ s = r)
      BY <1>2
    <2>2. r <= s /\ s <= d => s \in S
      OBVIOUS
    <2> QED BY <1>1, <2>1, <2>2
  <1>4. To = Past \cup {r} /\ r \notin Past
    <2>1. To \subseteq Session /\ Past \cup {r} \subseteq Session
      BY <1>1
    <2>2. r \notin Past
      BY <1>2
    <2> HIDE DEF To, Past
    <2> QED BY <1>3, <2>1, <2>2
  <1>5. IsFiniteSet(Past) /\ Cardinality(Past) \in Nat
    BY SessionsFinite
  <1> HIDE DEF To, Past
  <1>6. Cardinality(To) = Cardinality(Past) + 1
    BY <1>4, <1>5, FS_AddElement
  <1>7. Cardinality(Past) = n
    BY <1>1, <1>5, <1>6
  <1> QED BY <1>7 DEF Past

-----------------------------------------------------------------------------
\* What the divergences on record know of their follow-through: none has a
\* return before the session it is resolved on is read, and once a call has
\* filled the returns, all that its closes allow are there.

NoneBefore == \A i \in DOMAIN divs : \A n \in Forward :
    divs[i].change[n] # 0 => divs[i].resolved # 0 /\ divs[i].resolved <= bars["nyse"]

Due(i, n) == /\ divs[i].resolved # 0 /\ divs[i].resolved \in call.spy
             /\ Cardinality({s \in call.spy : s > divs[i].resolved}) >= n

Filled == call # Idle /\ call.pc \in Tracking \ {"fill"} =>
    \A i \in DOMAIN divs : \A n \in Forward : Due(i, n) => divs[i].change[n] # 0

Measures == NoneBefore /\ ForwardIsExact /\ Filled

\* Nothing to fill means that all there is to measure is measured.
LEMMA NothingFillable ==
    ASSUME TypeOK, call \in Busy, NEW i \in DOMAIN divs, Fillable(i) = {},
           NEW n \in Forward, Due(i, n)
    PROVE  divs[i].change[n] # 0
  <1>1. call.spy \in SUBSET Session /\ n \in Nat \ {0}
    BY BreadthAssumption DEF Busy
  <1>2. ForwardChange(call.spy, divs[i].resolved, n) # {}
    BY <1>1, NthAfter DEF Due
  <1> QED BY <1>2 DEF Fillable, Due

\* A return that is filled in is exact, for a resolution in the window.
LEMMA FilledIsExact ==
    ASSUME TypeOK, Reads, call \in Busy, NEW i \in DOMAIN divs, NEW n \in Forward,
           NEW d \in ForwardChange(call.spy, divs[i].resolved, n),
           divs[i].resolved \in Covered(bars["nyse"])
    PROVE  Cardinality({s \in Session : divs[i].resolved < s /\ s <= d}) = n
  <1> DEFINE r == divs[i].resolved
             b == bars["nyse"]
  <1>1. call.spy \in SUBSET Session /\ call.spy \subseteq call.nymo /\ call # Idle /\ n \in Nat
    BY CallCases, BreadthAssumption DEF Reads, ReadingKnows, Busy
  <1>2. d \in call.spy /\ d \in call.nymo /\ d <= b /\ d \in Nat
    <2>1. d \in call.spy /\ d \in call.nymo
      BY <1>1 DEF ForwardChange
    <2> QED BY <1>1, <2>1, SessionsFinite DEF Reads, ReadingKnows
  <1>3. b \in Nat
    BY BreadthAssumption DEF TypeOK, Day
  <1>4. ASSUME NEW s \in Session, r <= s, s <= d
        PROVE  s \in call.spy
    <2>1. s \in Nat /\ s <= b
      BY <1>2, <1>3, <1>4, SessionsFinite
    <2>2. s \in Covered(b)
      BY <1>3, <1>4, <2>1, CoveredIsSuffix
    <2>3. s \in call.nymo
      BY <1>1, <1>2, <1>4, <2>2 DEF Reads, ReadingHasNoHole
    <2> QED BY <1>1, <1>2, <1>4, <2>3 DEF Reads, ReadingKnows
  <1> QED BY <1>1, <1>4, NthIsExact

\* Steps that leave the divergences alone.
LEMMA DivsUntouched ==
    ASSUME Inv, Inv', Reads, Reads', Measures, UNCHANGED divs,
           bars["nyse"] <= bars'["nyse"],
           \/ call' = Idle
           \/ call'.pc \in Early \cup {"fill"}
           \/ /\ call # Idle /\ call'.spy = call.spy
              /\ call.pc \in Tracking \ {"fill"}
           \/ /\ call \in Busy /\ call'.spy = call.spy
              /\ \A i \in DOMAIN divs : Fillable(i) = {}
    PROVE  Measures'
  <1>0. /\ bars["nyse"] \in Nat /\ bars'["nyse"] \in Nat
        /\ \A i \in DOMAIN divs : divs[i].resolved \in Nat
    <2>1. bars["nyse"] \in Nat /\ bars'["nyse"] \in Nat
      BY BreadthAssumption DEF Inv, TypeOK, Day
    <2>2. ASSUME NEW i \in DOMAIN divs PROVE divs[i].resolved \in Nat
      <3>1. divs[i] \in Divergence
        BY DEF Inv, TypeOK
      <3> QED BY <3>1 DEF Divergence, Day
    <2> QED BY <2>1, <2>2
  <1>1. NoneBefore'
    BY <1>0 DEF Measures, NoneBefore
  <1>2. ForwardIsExact'
    <2>1. bars["nyse"] \in Nat /\ bars'["nyse"] \in Nat
      BY <1>0
    <2>2. ASSUME NEW i \in DOMAIN divs, NEW n \in Forward, divs[i].change[n] # 0,
                 divs[i].resolved \in Covered(bars'["nyse"])
          PROVE  divs[i].resolved \in Covered(bars["nyse"])
      <3>2. divs[i].resolved <= bars["nyse"]
        BY <2>2 DEF Measures, NoneBefore
      <3> QED BY <2>1, <2>2, <3>2, CoveredMovesOn
    <2>3. Covered(bars["nyse"])' = Covered(bars'["nyse"])
      BY DEF Covered, Newest
    <2> QED BY <2>2, <2>3 DEF Measures, ForwardIsExact
  <1>3. Filled'
    <2>1. CASE call' = Idle \/ call'.pc \in Early \cup {"fill"}
      BY <2>1 DEF Filled, Early, Tracking
    <2>2. CASE /\ call # Idle /\ call'.spy = call.spy
               /\ call.pc \in Tracking \ {"fill"}
      BY <2>2 DEF Measures, Filled, Due
    <2>3. CASE /\ call \in Busy /\ call'.spy = call.spy
               /\ \A i \in DOMAIN divs : Fillable(i) = {}
      <3>1. \A i \in DOMAIN divs : \A n \in Forward : Due(i, n) => divs[i].change[n] # 0
        BY <2>3, NothingFillable DEF Inv
      <3> QED BY <3>1, <2>3 DEF Filled, Due
    <2> QED BY <2>1, <2>2, <2>3
  <1> QED BY <1>1, <1>2, <1>3 DEF Measures

\* The bars of a series only get longer.
LEMMA BarsGrow ==
    ASSUME Inv, Inv', Reads, [Next]_vars
    PROVE  bars["nyse"] <= bars'["nyse"]
  <1>1. bars["nyse"] \in Nat /\ "nyse" \in Exchange
    BY BreadthAssumption DEF Inv, TypeOK, Day
  <1>2. bars["nyse"] <= Printed
    BY DEF Reads, Printing
  <1>3. bars'["nyse"] = bars["nyse"] \/ bars'["nyse"] = Printed
    <2>1. CASE \E e \in Exchange : Sweep(e)
      BY <2>1, <1>1 DEF Sweep, Inv, TypeOK
    <2>2. CASE SpyDownload
      BY <2>2, BreadthAssumption DEF SpyDownload, Inv, TypeOK
    <2>3. CASE UNCHANGED bars
      BY <2>3
    <2> QED BY <2>1, <2>2, <2>3
            DEF Next, Step, StartWorker, StartCrew, Fail, ServeRows, WriteRow, RowsWritten,
                SpyCached, SpyUnavailable, WriteSpy, SpyWritten, FillForward, ForwardFilled,
                SetLast, FindActive, Resolve, Insert, EmitEvent, Finish, Crash, Evening,
                Midnight, vars, rows
  <1> QED BY <1>1, <1>2, <1>3

\* _fill_forward_returns fills in what is exact.
LEMMA FillIsExact ==
    ASSUME Inv, Inv', Reads, Measures, FillForward
    PROVE  Measures'
  <1>1. call \in Busy /\ call # Idle /\ UNCHANGED <<call, bars>> /\ call.pc = "fill"
    BY CallCases DEF Inv, FillForward, Tracking, rows, At
  <1>2. PICK i \in DOMAIN divs :
           divs' = [divs EXCEPT ![i].change =
               [n \in Forward |->
                   IF n \in Fillable(i)
                   THEN CHOOSE d \in ForwardChange(call.spy, divs[i].resolved, n) : TRUE
                   ELSE @[n]]]
    BY DEF FillForward
  <1>3. \A j \in DOMAIN divs : divs[j] \in Divergence
    BY DEF Inv, TypeOK
  <1>4. /\ DOMAIN divs' = DOMAIN divs
        /\ \A j \in DOMAIN divs : divs'[j].resolved = divs[j].resolved
        /\ \A j \in DOMAIN divs : j # i => divs'[j].change = divs[j].change
        /\ \A n \in Forward : n \notin Fillable(i) => divs'[i].change[n] = divs[i].change[n]
        /\ \A n \in Forward : n \in Fillable(i) =>
              divs'[i].change[n] = CHOOSE d \in ForwardChange(call.spy, divs[i].resolved, n) : TRUE
    BY <1>2, <1>3 DEF Inv, TypeOK, Divergence
  <1>5. ASSUME NEW n \in Fillable(i)
        PROVE  /\ n \in Forward /\ divs'[i].change[n] \in ForwardChange(call.spy, divs[i].resolved, n)
               /\ divs[i].resolved # 0 /\ divs[i].resolved <= bars["nyse"]
    <2>1. n \in Forward /\ divs[i].resolved # 0 /\ ForwardChange(call.spy, divs[i].resolved, n) # {}
      BY DEF Fillable
    <2>2. divs[i].resolved \in call.spy
      BY <2>1 DEF ForwardChange
    <2>3. divs[i].resolved <= bars["nyse"]
      BY <2>2, <1>1 DEF Reads, ReadingKnows
    <2> QED BY <2>1, <2>3, <1>4
  <1>6. NoneBefore'
    BY <1>1, <1>4, <1>5 DEF Measures, NoneBefore
  <1>7. ForwardIsExact'
    <2>1. Covered(bars["nyse"])' = Covered(bars["nyse"])
      BY <1>1 DEF Covered, Newest
    <2>2. ASSUME NEW j \in DOMAIN divs, NEW n \in Forward, divs'[j].change[n] # 0,
                 divs[j].resolved \in Covered(bars["nyse"])
          PROVE  Cardinality({s \in Session : divs[j].resolved < s /\ s <= divs'[j].change[n]}) = n
      <3>1. CASE j = i /\ n \in Fillable(i)
        <4>1. /\ n \in Forward /\ divs'[i].change[n] \in ForwardChange(call.spy, divs[i].resolved, n)
              /\ divs[i].resolved \in Covered(bars["nyse"]) /\ TypeOK
          BY <1>5, <2>2, <3>1 DEF Inv
        <4> QED BY <4>1, <1>1, <3>1, FilledIsExact
      <3>2. CASE ~(j = i /\ n \in Fillable(i))
        <4>1. divs'[j].change[n] = divs[j].change[n]
          BY <3>2, <1>4
        <4> QED BY <4>1, <2>2 DEF Measures, ForwardIsExact
      <3> QED BY <3>1, <3>2
    <2> QED BY <1>4, <2>1, <2>2 DEF ForwardIsExact
  <1>8. Filled'
    BY <1>1 DEF Filled
  <1> QED BY <1>6, <1>7, <1>8 DEF Measures

\* A divergence is resolved on a day after which the call has read no close.
LEMMA ResolveMeasuresNothing ==
    ASSUME Inv, Inv', Reads, Measures, Resolve
    PROVE  Measures'
  <1>1. /\ call \in Busy /\ call # Idle /\ UNCHANGED bars /\ call.pc = "resolve"
        /\ call'.spy = call.spy
    BY CallCases DEF Inv, Resolve, Tracking, rows, At, Goto, Busy
  <1>2. PICK k \in Opened : divs' = [divs EXCEPT ![k].resolved = call.today]
    BY DEF Resolve
  <1>3. k \in DOMAIN divs /\ divs[k].resolved = 0
    BY DEF Opened
  <1>4. \A j \in DOMAIN divs : divs[j] \in Divergence
    BY DEF Inv, TypeOK
  <1>5. /\ DOMAIN divs' = DOMAIN divs
        /\ \A j \in DOMAIN divs : divs'[j].change = divs[j].change
        /\ \A j \in DOMAIN divs : j # k => divs'[j].resolved = divs[j].resolved
        /\ divs'[k].resolved = call.today
    BY <1>2, <1>3, <1>4 DEF Inv, TypeOK, Divergence
  <1>6. \A n \in Forward : divs[k].change[n] = 0
    BY <1>3 DEF Measures, NoneBefore
  <1>7. NoneBefore' /\ ForwardIsExact'
    <2>1. Covered(bars["nyse"])' = Covered(bars["nyse"])
      BY <1>1 DEF Covered, Newest
    <2>2. ASSUME NEW j \in DOMAIN divs, NEW n \in Forward, divs'[j].change[n] # 0
          PROVE  j # k /\ divs[j].change[n] # 0 /\ divs'[j].resolved = divs[j].resolved
      BY <1>5, <1>6, <2>2
    <2>3. NoneBefore'
      BY <1>1, <1>5, <2>2 DEF Measures, NoneBefore
    <2>4. ForwardIsExact'
      BY <1>5, <2>1, <2>2 DEF Measures, ForwardIsExact
    <2> QED BY <2>3, <2>4
  <1>8. \A n \in Forward : ~Due(k, n)'
    <2> SUFFICES ASSUME NEW n \in Forward, Due(k, n)' PROVE FALSE
      OBVIOUS
    <2>1. Cardinality({s \in call.spy : s > call.today}) >= n
      BY <1>1, <1>5 DEF Due
    <2>2. ASSUME NEW s \in call.spy PROVE ~(s > call.today)
      <3>1. s <= call.today
        BY <1>1 DEF Reads, ReadingKnows, Tracking
      <3>2. s \in Nat /\ call.today \in Nat
        <4>1. s \in Session /\ call.today \in Day
          BY <1>1 DEF Busy
        <4> QED BY <4>1, SessionsFinite DEF Day
      <3> QED BY <3>1, <3>2
    <2>3. {s \in call.spy : s > call.today} = {}
      BY <2>2
    <2>4. Cardinality({}) = 0
      BY FS_EmptySet
    <2> QED BY <2>1, <2>3, <2>4, BreadthAssumption
  <1>9. Filled'
    <2>1. ASSUME NEW j \in DOMAIN divs, NEW n \in Forward, j # k, Due(j, n)'
          PROVE  divs[j].change[n] # 0
      <3>1. Due(j, n)
        BY <1>1, <1>5, <2>1 DEF Due
      <3> QED BY <3>1, <1>1 DEF Measures, Filled, Tracking
    <2> QED BY <1>5, <1>8, <2>1 DEF Filled
  <1> QED BY <1>7, <1>9 DEF Measures

\* A divergence that opens has no return to measure.
LEMMA InsertMeasuresNothing ==
    ASSUME Inv, Inv', Reads, Measures, Insert
    PROVE  Measures'
  <1>1. /\ call \in Busy /\ call # Idle /\ UNCHANGED bars /\ call.pc = "insert"
        /\ call'.spy = call.spy
    BY CallCases DEF Inv, Insert, Tracking, rows, At, Goto, Busy
  <1>2. divs' = Append(divs, [type |-> call.type, detected |-> call.today, resolved |-> 0,
                              change |-> [n \in Forward |-> 0]])
    BY DEF Insert
  <1>3. divs \in Seq(Divergence)
    BY DEF Inv, TypeOK
  <1>4. \A i \in DOMAIN divs' :
           \/ i \in DOMAIN divs /\ divs'[i] = divs[i]
           \/ divs'[i].resolved = 0 /\ \A n \in Forward : divs'[i].change[n] = 0
    BY <1>2, <1>3
  <1>5. NoneBefore' /\ ForwardIsExact'
    <2>1. Covered(bars["nyse"])' = Covered(bars["nyse"])
      BY <1>1 DEF Covered, Newest
    <2>2. NoneBefore'
      BY <1>1, <1>4 DEF Measures, NoneBefore
    <2>3. ForwardIsExact'
      BY <1>4, <2>1 DEF Measures, ForwardIsExact
    <2> QED BY <2>2, <2>3
  <1>6. Filled'
    <2>1. ASSUME NEW i \in DOMAIN divs', NEW n \in Forward, Due(i, n)'
          PROVE  divs'[i].change[n] # 0
      <3>1. i \in DOMAIN divs /\ divs'[i] = divs[i]
        BY <1>4, <2>1 DEF Due
      <3>2. Due(i, n)
        BY <3>1, <2>1, <1>1 DEF Due
      <3> QED BY <3>1, <3>2, <1>1 DEF Measures, Filled, Tracking
    <2> QED BY <2>1 DEF Filled
  <1> QED BY <1>5, <1>6 DEF Measures

LEMMA NextMeasures == Inv /\ Inv' /\ Reads /\ Reads' /\ Measures /\ [Next]_vars => Measures'
  <1> SUFFICES ASSUME Inv, Inv', Reads, Reads', Measures, [Next]_vars PROVE Measures'
    OBVIOUS
  <1>b. bars["nyse"] <= bars'["nyse"]
    BY BarsGrow
  <1>t. TypeOK
    BY DEF Inv
  <1>1. CASE FillForward \/ Resolve \/ Insert
    BY <1>1, FillIsExact, ResolveMeasuresNothing, InsertMeasuresNothing
  <1>2. CASE StartWorker \/ StartCrew
    <2>1. call'.pc \in Early
      <3>1. call'.pc = "nyse"
        BY <1>2 DEF StartWorker, StartCrew, Begin
      <3> QED BY <3>1 DEF Early
    <2> QED BY <1>2, <1>b, <2>1, DivsUntouched DEF StartWorker, StartCrew, track
  <1>3. CASE Fail \/ Finish \/ Crash
    BY <1>3, <1>b, DivsUntouched DEF Fail, Finish, Crash, track
  <1>4. ASSUME NEW e \in Exchange, ServeRows(e) \/ Sweep(e) \/ WriteRow(e) \/ RowsWritten(e)
        PROVE  Measures'
    <2>1. e \in {"nyse", "nasdaq"}
      BY BreadthAssumption
    <2>2. call \in Busy
      BY <1>4, <1>t, <2>1, CallCases DEF ServeRows, Sweep, WriteRow, RowsWritten, Early, At, Writing
    <2>3. call'.pc \in Early
      BY <1>4, <2>1, <2>2 DEF ServeRows, Sweep, WriteRow, RowsWritten, Goto, Busy, AfterRows,
                              Writing, Early, At
    <2> QED BY <1>4, <1>b, <2>3, DivsUntouched DEF ServeRows, Sweep, WriteRow, RowsWritten, track
  <1>5. CASE SpyCached \/ SpyDownload \/ SpyUnavailable \/ WriteSpy \/ SpyWritten
    <2>1. call \in Busy
      BY <1>5, <1>t, CallCases DEF SpyCached, SpyDownload, SpyUnavailable, WriteSpy, SpyWritten, Early
    <2>2. call'.pc \in Early \cup {"fill"}
      BY <1>5, <2>1 DEF SpyCached, SpyDownload, SpyUnavailable, WriteSpy, SpyWritten, Read,
                        Busy, Early, At
    <2> QED BY <1>5, <1>b, <2>2, DivsUntouched
            DEF SpyCached, SpyDownload, SpyUnavailable, WriteSpy, SpyWritten, track
  <1>6. CASE ForwardFilled
    <2>1. call \in Busy /\ call'.spy = call.spy
      BY <1>6, <1>t, CallCases DEF ForwardFilled, Tracking, Goto, Busy
    <2>2. UNCHANGED divs /\ \A i \in DOMAIN divs : Fillable(i) = {}
      BY <1>6 DEF ForwardFilled, track
    <2> QED BY <1>b, <2>1, <2>2, DivsUntouched
  <1>7. CASE SetLast \/ FindActive \/ EmitEvent
    <2>1. call \in Busy /\ call # Idle /\ call.pc \in Tracking \ {"fill"}
      BY <1>7, <1>t, CallCases DEF SetLast, FindActive, EmitEvent, Tracking, At
    <2>2. call'.spy = call.spy
      BY <1>7, <2>1 DEF SetLast, FindActive, EmitEvent, Goto, Busy
    <2> QED BY <1>7, <1>b, <2>1, <2>2, DivsUntouched DEF SetLast, FindActive, EmitEvent, track
  <1>8. CASE Evening \/ Midnight \/ UNCHANGED vars
    <2>1. UNCHANGED <<call, divs, bars>>
      BY <1>8 DEF Evening, Midnight, vars, rows, track
    <2>2. Covered(bars["nyse"])' = Covered(bars["nyse"])
      BY <2>1 DEF Covered, Newest
    <2>3. NoneBefore' /\ Filled'
      BY <2>1 DEF Measures, NoneBefore, Filled, Due
    <2>4. ForwardIsExact'
      BY <2>1, <2>2 DEF Measures, ForwardIsExact
    <2> QED BY <2>3, <2>4 DEF Measures
  <1> QED BY <1>1, <1>2, <1>3, <1>4, <1>5, <1>6, <1>7, <1>8 DEF Next, Step

\* breadth_divergences: a follow-through return is measured over exactly its
\* number of sessions, and the first call that has read enough of them fills it.
THEOREM FollowThroughHolds == Spec => []FollowThroughIsExact
  <1>1. Init => Measures
    <2>1. Init => /\ DOMAIN divs = {} /\ call = Idle
      BY DEF Init
    <2> QED BY <2>1 DEF Measures, NoneBefore, ForwardIsExact, Filled
  <1>2. Inv /\ Reads /\ Measures => FollowThroughIsExact
    <2> SUFFICES ASSUME Inv, Reads, Measures PROVE FollowThroughFills
      BY DEF FollowThroughIsExact, Measures
    <2> SUFFICES ASSUME At("finish") PROVE FollowThroughFills
      BY DEF FollowThroughFills
    <2>1. call # Idle /\ call.pc \in Tracking \ {"fill"}
      BY CallCases DEF Inv, At, Tracking
    <2> QED BY <2>1 DEF Measures, Filled, Due, FollowThroughFills
  <1> QED BY <1>1, <1>2, InvHolds, ReadsHolds, NextMeasures, PTL DEF Spec

-----------------------------------------------------------------------------
\* The divergences that the feed has not announced.  The call that is about to
\* announce one owes it; every other was owed by a call that died.

Owes == At("emit") /\ <<call.type, call.today>> \notin events

Paid == Cardinality(Unannounced) <= crashes + (IF Owes THEN 1 ELSE 0)

LEMMA UnannouncedFinite ==
    ASSUME TypeOK
    PROVE  IsFiniteSet(Unannounced) /\ Cardinality(Unannounced) \in Nat /\ crashes \in Nat
  <1>1. divs \in Seq(Divergence) /\ Len(divs) \in Nat
    BY DEF TypeOK
  <1>2. IsFiniteSet(1..Len(divs))
    BY <1>1, FS_Interval
  <1>3. Unannounced \subseteq 1..Len(divs)
    BY <1>1 DEF Unannounced
  <1>4. crashes \in Nat
    BY BreadthAssumption DEF TypeOK
  <1> QED BY <1>2, <1>3, <1>4, FS_Subset, FS_CardinalityType

\* A divergence that opens adds one, unless the feed has a like one of the day.
LEMMA InsertOwes ==
    ASSUME Inv, Inv', Paid, Insert
    PROVE  Paid'
  <1>1. call \in Busy /\ ~Owes /\ UNCHANGED <<events, crashes>>
    BY CallCases DEF Inv, Insert, Tracking, At, Owes
  <1>2. call'.pc = "emit" /\ call'.type = call.type /\ call'.today = call.today
    BY <1>1 DEF Insert, Goto, Busy
  <1> DEFINE n == Len(divs) + 1
  <1>3. divs \in Seq(Divergence)
    BY DEF Inv, TypeOK
  <1>4. /\ DOMAIN divs' = DOMAIN divs \cup {n}
        /\ divs'[n].type = call.type /\ divs'[n].detected = call.today
        /\ \A i \in DOMAIN divs : divs'[i] = divs[i]
        /\ n \notin DOMAIN divs
    <2> DEFINE new == [type |-> call.type, detected |-> call.today, resolved |-> 0,
                       change |-> [m \in Forward |-> 0]]
    <2>1. divs' = Append(divs, new)
      BY DEF Insert
    <2>2. new.type = call.type /\ new.detected = call.today
      OBVIOUS
    <2> HIDE DEF new
    <2> QED BY <1>3, <2>1, <2>2
  <1> HIDE DEF n
  <1>5. Unannounced' = IF <<call.type, call.today>> \in events THEN Unannounced
                       ELSE Unannounced \cup {n}
    BY <1>1, <1>4 DEF Unannounced
  <1>6. n \notin Unannounced
    BY <1>4 DEF Unannounced
  <1>7. IsFiniteSet(Unannounced) /\ Cardinality(Unannounced) \in Nat /\ crashes \in Nat
    BY UnannouncedFinite DEF Inv
  <1>8. Cardinality(Unannounced) <= crashes
    BY <1>1, <1>7 DEF Paid
  <1>9. CASE <<call.type, call.today>> \in events
    <2>1. Unannounced' = Unannounced /\ ~Owes'
      BY <1>1, <1>2, <1>5, <1>9 DEF Owes
    <2> QED BY <1>1, <1>7, <1>8, <2>1 DEF Paid
  <1>10. CASE <<call.type, call.today>> \notin events
    <2>1. Unannounced' = Unannounced \cup {n}
      BY <1>5, <1>10
    <2>2. Owes'
      BY <1>1, <1>2, <1>10 DEF Owes, At
    <2>3. Cardinality(Unannounced') = Cardinality(Unannounced) + 1
      BY <1>6, <1>7, <2>1, FS_AddElement
    <2>4. Paid' <=> Cardinality(Unannounced') <= crashes + 1
      BY <1>1, <2>2 DEF Paid
    <2> QED BY <1>7, <1>8, <2>3, <2>4
  <1> QED BY <1>9, <1>10

\* Announcing it pays.
LEMMA EmitPays ==
    ASSUME Inv, Inv', Paid, EmitEvent
    PROVE  Paid'
  <1>1. call \in Busy /\ call.pc = "emit" /\ UNCHANGED <<divs, crashes>>
    BY CallCases DEF Inv, EmitEvent, Tracking, At
  <1>2. call'.pc = "finish" /\ events' = events \cup {<<call.type, call.today>>}
    BY <1>1 DEF EmitEvent, Goto, Busy
  <1>3. PICK i \in DOMAIN divs : divs[i].type = call.type /\ divs[i].detected = call.today
    BY <1>1, CallCases DEF Inv, StepsKnow, JustInserted, At
  <1>4. Unannounced' \subseteq Unannounced /\ i \notin Unannounced'
    BY <1>1, <1>2, <1>3 DEF Unannounced
  <1>5. /\ IsFiniteSet(Unannounced) /\ Cardinality(Unannounced) \in Nat /\ crashes \in Nat
        /\ Cardinality(Unannounced') \in Nat
    <2>1. IsFiniteSet(Unannounced) /\ Cardinality(Unannounced) \in Nat /\ crashes \in Nat
      BY UnannouncedFinite DEF Inv
    <2> QED BY <2>1, <1>4, FS_Subset, FS_CardinalityType
  <1>6. ~Owes'
    BY <1>2 DEF Owes, At
  <1>7. Paid' <=> Cardinality(Unannounced') <= crashes
    BY <1>1, <1>5, <1>6 DEF Paid
  <1>8. CASE <<call.type, call.today>> \in events
    <2>1. ~Owes
      BY <1>8 DEF Owes
    <2>2. Cardinality(Unannounced) <= crashes
      BY <2>1, <1>5 DEF Paid
    <2>3. Cardinality(Unannounced') <= Cardinality(Unannounced)
      BY <1>4, <1>5, FS_Subset
    <2> QED BY <1>5, <1>7, <2>2, <2>3
  <1>9. CASE <<call.type, call.today>> \notin events
    <2>1. Owes
      BY <1>1, <1>9 DEF Owes, At
    <2>2. Cardinality(Unannounced) <= crashes + 1
      BY <2>1 DEF Paid
    <2>3. i \in Unannounced
      BY <1>3, <1>9 DEF Unannounced
    <2>4. Cardinality(Unannounced \ {i}) = Cardinality(Unannounced) - 1
          /\ IsFiniteSet(Unannounced \ {i})
      BY <2>3, <1>5, FS_RemoveElement
    <2>5. Unannounced' \subseteq Unannounced \ {i}
      BY <1>4
    <2>6. Cardinality(Unannounced') <= Cardinality(Unannounced \ {i})
      BY <2>4, <2>5, FS_Subset
    <2> QED BY <1>5, <1>7, <2>2, <2>4, <2>6
  <1> QED BY <1>8, <1>9

LEMMA NextPaid == Inv /\ Inv' /\ Paid /\ [Next]_vars => Paid'
  <1> SUFFICES ASSUME Inv, Inv', Paid, [Next]_vars PROVE Paid'
    OBVIOUS
  <1>t. Cardinality(Unannounced) \in Nat /\ crashes \in Nat
    BY UnannouncedFinite DEF Inv
  <1>1. CASE Insert \/ EmitEvent
    BY <1>1, InsertOwes, EmitPays
  <1>2. CASE Crash
    <2>1. Unannounced' = Unannounced /\ crashes' = crashes + 1
      BY <1>2 DEF Crash, track, Unannounced
    <2>2. Idle.pc = "idle"
      BY DEF Idle
    <2>3. ~Owes'
      BY <1>2, <2>2 DEF Crash, Owes, At
    <2>4. Cardinality(Unannounced) <= crashes + 1
      BY <1>t DEF Paid
    <2> QED BY <1>t, <2>1, <2>3, <2>4 DEF Paid
  <1>3. CASE Evening \/ Midnight \/ UNCHANGED vars
    BY <1>3 DEF Evening, Midnight, vars, track, Unannounced, Paid, Owes, At
  <1>4. CASE FillForward \/ Resolve
    <2>1. \A i \in DOMAIN divs : divs[i] \in Divergence
      BY DEF Inv, TypeOK
    <2>2. /\ DOMAIN divs' = DOMAIN divs
          /\ \A i \in DOMAIN divs : divs'[i].type = divs[i].type /\ divs'[i].detected = divs[i].detected
      <3>1. CASE FillForward
        <4>1. PICK k \in DOMAIN divs :
                 \E filled : divs' = [divs EXCEPT ![k] = [divs[k] EXCEPT !.change = filled]]
          BY <3>1 DEF FillForward
        <4>2. PICK filled : divs' = [divs EXCEPT ![k] = [divs[k] EXCEPT !.change = filled]]
          BY <4>1
        <4> QED BY <2>1, <4>2 DEF Divergence
      <3>2. CASE Resolve
        <4>1. PICK k \in DOMAIN divs :
                 divs' = [divs EXCEPT ![k] = [divs[k] EXCEPT !.resolved = call.today]]
          BY <3>2 DEF Resolve, Opened
        <4> QED BY <2>1, <4>1 DEF Divergence
      <3> QED BY <1>4, <3>1, <3>2
    <2>3. Unannounced' = Unannounced /\ UNCHANGED crashes /\ ~Owes
      BY <1>4, <2>2 DEF FillForward, Resolve, Unannounced, Owes, At
    <2> QED BY <1>t, <2>3 DEF Paid
  <1>5. CASE ~At("emit") /\ UNCHANGED <<divs, events, crashes>>
    <2>1. Unannounced' = Unannounced /\ ~Owes
      BY <1>5 DEF Unannounced, Owes
    <2> QED BY <1>5, <1>t, <2>1 DEF Paid
  <1>6. ASSUME NEW e \in Exchange, ServeRows(e) \/ Sweep(e) \/ WriteRow(e) \/ RowsWritten(e)
        PROVE  Paid'
    <2>1. e \in {"nyse", "nasdaq"}
      BY BreadthAssumption
    <2> QED BY <1>5, <1>6, <2>1
            DEF ServeRows, Sweep, WriteRow, RowsWritten, At, Writing, track
  <1>7. CASE StartWorker \/ StartCrew
    <2>1. Idle.pc = "idle"
      BY DEF Idle
    <2> QED BY <1>5, <1>7, <2>1 DEF StartWorker, StartCrew, At, track
  <1>8. CASE Fail
    BY <1>5, <1>8, BreadthAssumption DEF Fail, At, track
  <1>9. CASE \/ SpyCached \/ SpyDownload \/ SpyUnavailable \/ WriteSpy \/ SpyWritten
             \/ ForwardFilled \/ SetLast \/ FindActive \/ Finish
    BY <1>5, <1>9 DEF SpyCached, SpyDownload, SpyUnavailable, WriteSpy, SpyWritten,
                      ForwardFilled, SetLast, FindActive, Finish, At, track
  <1> QED BY <1>1, <1>2, <1>3, <1>4, <1>6, <1>7, <1>8, <1>9 DEF Next, Step

\* market_flow_events: the feed misses no more announcements than the process
\* has died times, however often divergences open, close and open again.
THEOREM DeathCostsOneEvent == Spec => []CrashCostsOneEvent
  <1>1. Init => Paid
    <2> SUFFICES ASSUME Init PROVE Paid
      OBVIOUS
    <2>1. Unannounced = {} /\ crashes = 0
      BY DEF Init, Unannounced
    <2>2. Cardinality({}) = 0
      BY FS_EmptySet
    <2> QED BY <2>1, <2>2 DEF Paid
  <1>2. Inv /\ Paid => CrashCostsOneEvent
    <2> SUFFICES ASSUME Inv, Paid PROVE CrashCostsOneEvent
      OBVIOUS
    <2>1. Cardinality(Unannounced) \in Nat /\ crashes \in Nat
      BY UnannouncedFinite DEF Inv
    <2> QED BY <2>1 DEF Paid, Owes, CrashCostsOneEvent
  <1> QED BY <1>1, <1>2, InvHolds, NextPaid, PTL DEF Spec
=============================================================================
