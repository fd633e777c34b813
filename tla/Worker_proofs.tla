---------------------------- MODULE Worker_proofs -----------------------------
(***************************************************************************)
(* Theorems about the loop of the agent runner, for any sessions, window   *)
(* widths, series, sectors, companies, hours and deaths.                   *)
(***************************************************************************)
EXTENDS Worker, Extrema, SequenceTheorems

(***************************************************************************)
(* Days and windows.                                                       *)
(***************************************************************************)
LEMMA DaysGrow ==
    ASSUME NEW h \in Nat, NEW k \in Nat, h <= k
    PROVE  Day(h) \in Nat /\ Day(k) \in Nat /\ Day(h) <= Day(k)
<1> USE WorkerAssumption
<1>1. h \div DayHours \in Nat /\ k \div DayHours \in Nat
  OBVIOUS
<1>2. h \div DayHours <= k \div DayHours
  OBVIOUS
<1> QED  BY <1>1, <1>2 DEF Day

LEMMA FirstDayIsNext == Day(DayHours) = FirstDay + 1
  BY WorkerAssumption DEF Day

\* A multiple leaves no remainder.
LEMMA MultiplesDivide ==
    ASSUME NEW w \in Nat \ {0}, NEW k \in Nat
    PROVE  (w * k) % w = 0
<1> DEFINE q == (w * k) \div w
<1>1. w * k \in Nat
  OBVIOUS
<1>2. q \in Nat /\ w * q <= w * k /\ w * k < w * q + w
  BY <1>1
<1> HIDE DEF q
<1>3. q = k
  <2>1. CASE q < k
    <3>1. PICK j \in Nat : k = q + 1 + j
      <4>1. k - q - 1 \in Nat
        BY <1>2, <2>1
      <4> QED  BY <1>2, <4>1
    <3>2. w * k = w * q + w + w * j /\ w * j \in Nat /\ w * q \in Nat
      BY <1>2, <3>1
    <3> QED  BY <1>1, <1>2, <3>2
  <2>2. CASE q > k
    <3>1. PICK j \in Nat : q = k + 1 + j
      <4>1. q - k - 1 \in Nat
        BY <1>2, <2>2
      <4> QED  BY <1>2, <4>1
    <3>2. w * q = w * k + w + w * j /\ w * j \in Nat
      BY <1>2, <3>1
    <3> QED  BY <1>1, <1>2, <3>2
  <2> QED  BY <1>2, <2>1, <2>2
<1>4. (w * k) % w = w * k - w * ((w * k) \div w)
  BY <1>1
<1> QED  BY <1>1, <1>3, <1>4 DEF q

\* The windows of a backfill leave out no day, the last one included; what lies
\* inside a window is honoured.
LEMMA WindowsCoverTheBackfill ==
    ASSUME NEW day \in Nat, NEW s \in Session, day - BackfillDays <= s, s <= day, s <= pub, pub \in Nat
    PROVE  \E w \in BackfillWindows(day) : s \in Honoured(w[1], w[2])
<1> DEFINE start == day - BackfillDays
           width == WindowDays + 1
           k == (s - start) \div width
           first == start + width * k
           last == IF first + WindowDays <= day THEN first + WindowDays ELSE day
<1> USE EconomicsAssumption
<1>1. width \in Nat \ {0} /\ start \in Int /\ s \in Nat /\ s - start \in Nat /\ BackfillDays \in Nat
  OBVIOUS
<1>2. k \in Nat /\ width * k <= s - start /\ s - start < width * k + width
  BY <1>1
<1>3. width * k \in Nat
  BY <1>1, <1>2
<1>4. (width * k) % width = 0
  BY <1>1, <1>2, MultiplesDivide
<1> HIDE DEF k
<1>5. first <= s /\ s <= first + WindowDays /\ first \in Int /\ start <= first
  BY <1>1, <1>2, <1>3
<1>6. first < day
  <2> SUFFICES ASSUME first >= day PROVE FALSE
    BY <1>5
  <2>1. first = day
    BY <1>5, <1>1
  <2>2. width * k = BackfillDays
    BY <2>1, <1>1, <1>3
  <2> QED  BY <1>4, <2>2
<1>7. first - start = width * k
  BY <1>1, <1>3
<1>8. first \in {f \in day - BackfillDays .. day - 1 : (f - (day - BackfillDays)) % (WindowDays + 1) = 0}
  BY <1>1, <1>4, <1>5, <1>6, <1>7
<1>9. Min({first + WindowDays, day}) = last
  BY <1>5 DEF Min
<1> HIDE DEF first
<1>10. <<first, last>> \in BackfillWindows(day)
  BY <1>8, <1>9 DEF BackfillWindows
<1>11. s \in Honoured(first, last)
  <2>1. Max({first, last - WindowDays}) = first
    <3>1. last - WindowDays <= first /\ last \in Int
      BY <1>5
    <3> QED  BY <1>5, <3>1 DEF Max
  <2>2. s \in Asked(first, last)
    BY <1>5 DEF Asked
  <2> QED  BY <2>1, <2>2 DEF Honoured
<1> QED  BY <1>10, <1>11

-----------------------------------------------------------------------------
(***************************************************************************)
(* The Treasury sessions.  Once the backfill is done the stored sessions   *)
(* reach from the first one to the last without a hole, but for those cut  *)
(* off; that, and not only what a success says, is what a pull keeps.      *)
(***************************************************************************)
ClockTypes == hour \in DayHours .. MaxHour
Known == {s \in Session : s <= pub}
TreasuryTypes ==
    /\ pub \in Session /\ pub <= Today
    /\ rates \subseteq Known /\ backfilled \in BOOLEAN /\ cutOff \subseteq Known
MetaTypes ==
    /\ meta \in [status : {"none", "success", "failed"}, at : 0 .. Day(MaxHour),
                 pub : {0} \cup Session]
    /\ meta.pub <= pub

HasTo(p) == \A s \in Session : s <= p /\ (\E r \in rates : r <= s) => s \in rates \cup cutOff
Gapless == backfilled => \A q \in rates : HasTo(q)
\* With nothing stored a request reaches back as far as a backfill.
AskedTo(p) ==
    rates = {} => \A s \in Session : Today - BackfillDays <= s /\ s <= p => s \in cutOff
SuccessIsDone == meta.status = "success" => backfilled /\ HasTo(meta.pub) /\ AskedTo(meta.pub)

LEMMA TodayIsADay == ASSUME ClockTypes PROVE hour \in Nat /\ Today \in 0 .. Day(MaxHour) /\ Today \in Nat
<1>1. hour \in Nat /\ MaxHour \in Nat /\ hour <= MaxHour
  BY WorkerAssumption DEF ClockTypes
<1> QED  BY <1>1, DaysGrow DEF Today

\* A backfill that is answered as a whole.
LEMMA BackfillFills ==
    ASSUME ClockTypes, TreasuryTypes, ~backfilled, PullTreasury(Today, TRUE), UNCHANGED <<pub, hour>>
    PROVE  HasTo(pub)' /\ AskedTo(pub)'
<1>1. /\ rates' = rates \cup UNION {Honoured(w[1], w[2]) : w \in BackfillWindows(Today)}
      /\ cutOff' = cutOff \cup PassedBy(Today)
  BY DEF PullTreasury, Filled
<1>2. Today \in Nat /\ pub \in Nat /\ pub <= Today /\ rates \subseteq Known
  BY TodayIsADay, EconomicsAssumption DEF TreasuryTypes
<1>3. \A w \in BackfillWindows(Today) : \A s \in Honoured(w[1], w[2]) : s >= Today - BackfillDays
  <2> TAKE w \in BackfillWindows(Today)
  <2> TAKE s \in Honoured(w[1], w[2])
  <2>0. PICK f \in {g \in Today - BackfillDays .. Today - 1 :
                        (g - (Today - BackfillDays)) % (WindowDays + 1) = 0} :
            w = <<f, Min({f + WindowDays, Today})>>
    BY DEF BackfillWindows
  <2>1. f \in Int /\ w[1] = f /\ f >= Today - BackfillDays /\ w[2] = Min({f + WindowDays, Today})
    BY <1>2, <2>0, EconomicsAssumption
  <2>2. w[2] \in Int
    <3>1. Min({f + WindowDays, Today}) = IF f + WindowDays <= Today THEN f + WindowDays ELSE Today
      BY <1>2, EconomicsAssumption DEF Min
    <3> QED  BY <2>1, <3>1, <1>2, EconomicsAssumption
  <2>3. Max({f, w[2] - WindowDays}) = IF f >= w[2] - WindowDays THEN f ELSE w[2] - WindowDays
    BY <2>2, EconomicsAssumption DEF Max
  <2>4. s \in Session /\ Max({f, w[2] - WindowDays}) <= s
    BY <2>1 DEF Honoured, Asked
  <2> QED  BY <1>2, <2>1, <2>2, <2>3, <2>4, EconomicsAssumption
<1>4. ASSUME NEW s \in Session, s <= pub, NEW r \in rates', r <= s
      PROVE  s \in rates' \cup cutOff'
  <2>1. s \in Nat /\ BackfillDays \in Nat
    BY EconomicsAssumption
  <2>2. CASE Today - BackfillDays <= s
    BY <1>1, <1>2, <1>4, <2>1, <2>2, WindowsCoverTheBackfill
  <2>3. CASE s < Today - BackfillDays
    <3>1. r \in Session
      BY <1>1, <1>2, <1>4 DEF Known, Honoured, Asked
    <3>2. r \in Nat /\ r < Today - BackfillDays
      BY <1>2, <1>4, <2>1, <2>3, <3>1, EconomicsAssumption
    <3>3. r \in rates
      BY <1>1, <1>2, <1>3, <1>4, <2>1, <3>2
    <3>4. s \in rates \/ s \in PassedBy(Today)
      BY <1>4, <2>1, <2>3, <3>2, <3>3 DEF PassedBy
    <3> QED  BY <1>1, <3>4
  <2> QED  BY <1>2, <2>1, <2>2, <2>3
<1>5. ASSUME NEW s \in Session, s <= pub, Today - BackfillDays <= s
      PROVE  s \in rates'
  <2>1. s \in Nat /\ s <= Today
    BY <1>2, <1>5, EconomicsAssumption
  <2> QED  BY <1>1, <1>2, <1>5, <2>1, WindowsCoverTheBackfill
<1>6. Today' = Today
  BY DEF Today
<1> QED  BY <1>4, <1>5, <1>6 DEF HasTo, AskedTo

\* A day's request, from the last stored session on.
LEMMA DayFills ==
    ASSUME ClockTypes, TreasuryTypes, Gapless, backfilled, PullTreasury(Today, TRUE),
           UNCHANGED <<pub, hour>>
    PROVE  HasTo(pub)' /\ AskedTo(pub)'
<1>1. /\ rates' = rates \cup Honoured(TreasuryFrom(Today), Today)
      /\ cutOff' = cutOff \cup (Asked(TreasuryFrom(Today), Today) \ rates')
  BY DEF PullTreasury
<1>2. /\ Today \in Nat /\ pub \in Nat /\ pub <= Today /\ rates \subseteq Known
      /\ rates \subseteq Nat /\ BackfillDays \in Nat /\ WindowDays \in Nat
  BY TodayIsADay, EconomicsAssumption DEF TreasuryTypes, Known
<1>3. rates # {} => Max(rates) \in rates /\ \A r \in rates : r <= Max(rates)
  <2>1. rates \subseteq 0 .. pub
    BY <1>2 DEF Known
  <2> QED  BY <1>2, <2>1, Largest
<1>4. TreasuryFrom(Today) \in Int
  <2>1. CASE rates = {}
    BY <1>2, <2>1 DEF TreasuryFrom
  <2>2. CASE rates # {}
    <3>1. TreasuryFrom(Today) = Max(rates)
      BY <2>2 DEF TreasuryFrom
    <3>2. Max(rates) \in rates
      BY <1>3, <2>2
    <3>3. Max(rates) \in Nat
      BY <1>2, <3>2
    <3> QED  BY <3>1, <3>3
  <2> QED  BY <2>1, <2>2
<1>5. \A s \in Honoured(TreasuryFrom(Today), Today) : s \in Session /\ s >= TreasuryFrom(Today)
  <2>1. Max({TreasuryFrom(Today), Today - WindowDays}) =
            IF TreasuryFrom(Today) >= Today - WindowDays THEN TreasuryFrom(Today) ELSE Today - WindowDays
    BY <1>2, <1>4 DEF Max
  <2> QED  BY <1>2, <1>4, <2>1, EconomicsAssumption DEF Honoured, Asked
<1>6. ASSUME NEW s \in Session, s <= pub, NEW r \in rates', r <= s
      PROVE  s \in rates' \cup cutOff'
  <2>0. s \in Nat /\ r \in Nat
    BY <1>1, <1>2, <1>5, EconomicsAssumption
  <2>1. CASE TreasuryFrom(Today) <= s
    <3>1. s \in Asked(TreasuryFrom(Today), Today)
      BY <1>2, <1>6, <2>0, <2>1 DEF Asked
    <3> QED  BY <1>1, <3>1
  <2>2. CASE s < TreasuryFrom(Today)
    <3>1. r \in rates
      BY <1>1, <1>4, <1>5, <1>6, <2>0, <2>2
    <3>2. Max(rates) \in rates /\ s <= Max(rates)
      <4>1. TreasuryFrom(Today) = Max(rates) /\ Max(rates) \in rates
        BY <1>3, <3>1 DEF TreasuryFrom
      <4>2. Max(rates) \in Nat
        BY <1>2, <4>1
      <4> QED  BY <2>0, <2>2, <4>1, <4>2
    <3>3. s \in rates \cup cutOff
      BY <1>6, <3>1, <3>2 DEF Gapless, HasTo
    <3> QED  BY <1>1, <3>3
  <2> QED  BY <1>4, <2>0, <2>1, <2>2
<1>7. ASSUME rates' = {}, NEW s \in Session, s <= pub, Today - BackfillDays <= s
      PROVE  s \in cutOff'
  <2>1. TreasuryFrom(Today) = Today - BackfillDays
    BY <1>1, <1>7 DEF TreasuryFrom
  <2>2. s \in Asked(TreasuryFrom(Today), Today)
    BY <1>2, <1>7, <2>1, EconomicsAssumption DEF Asked
  <2> QED  BY <1>1, <1>7, <2>2
<1>8. Today' = Today
  BY DEF Today
<1> QED  BY <1>6, <1>7, <1>8 DEF HasTo, AskedTo

\* A store that is cut short.  What is new is not older than the newest stored
\* session, and what lies before the newest of the new is noted.
LEMMA TreasuryIsCut ==
    ASSUME ClockTypes, TreasuryTypes, MetaTypes, Gapless, SuccessIsDone, TreasuryCut(Today),
           UNCHANGED <<pub, hour, meta>>
    PROVE  /\ rates' \subseteq Known /\ cutOff' \subseteq Known /\ backfilled' = backfilled
           /\ Gapless' /\ SuccessIsDone'
<1>1. \A from, to : Asked(from, to) \subseteq Known /\ Honoured(from, to) \subseteq Known
  BY DEF Asked, Honoured, Known
<1>2. rates \subseteq Known /\ cutOff \subseteq Known /\ Today' = Today
  BY DEF TreasuryTypes, Today
<1>3. CASE ~backfilled
  <2>1. PICK done, begun \in Begun(Today) : \E part \in SUBSET Filled(begun \ done) :
            rates' = rates \cup Filled(done) \cup part
    BY <1>3 DEF TreasuryCut
  <2>2. \A w : Filled(w) \subseteq Known
    BY <1>1 DEF Filled
  <2>3. rates' \subseteq Known
    BY <1>2, <2>1, <2>2
  <2>4. backfilled' = backfilled /\ cutOff' = cutOff /\ meta' = meta
    BY <1>3 DEF TreasuryCut
  <2> QED  BY <1>2, <1>3, <2>3, <2>4 DEF Gapless, SuccessIsDone
<1>4. CASE backfilled
  <2> DEFINE from == TreasuryFrom(Today)
  <2>1. PICK part \in SUBSET Honoured(from, Today) :
            /\ rates' = rates \cup part
            /\ cutOff' = cutOff \cup {s \in Asked(from, Today) \ rates' : \E r \in part : s < r}
    BY <1>4 DEF TreasuryCut
  <2>2. backfilled' = backfilled
    BY <1>4 DEF TreasuryCut
  <2>3. rates' \subseteq Known /\ cutOff' \subseteq Known
    BY <1>1, <1>2, <2>1
  <2>4. /\ Today \in Nat /\ pub \in Nat /\ pub <= Today
        /\ Session \subseteq Nat /\ rates \subseteq Nat /\ BackfillDays \in Nat /\ WindowDays \in Nat
    BY TodayIsADay, EconomicsAssumption DEF TreasuryTypes, Known
  <2>5. rates # {} => from \in rates /\ from \in Nat /\ \A r \in rates : r <= from
    <3>1. rates \subseteq 0 .. pub
      BY <2>4 DEF TreasuryTypes, Known
    <3> QED  BY <2>4, <3>1, Largest DEF TreasuryFrom
  <2>6. from \in Int /\ (rates = {} => from = Today - BackfillDays)
    <3>1. CASE rates = {}
      BY <2>4, <3>1 DEF TreasuryFrom
    <3> QED  BY <2>5, <3>1
  <2> HIDE DEF from
  <2>7. \A r \in part : r \in Session /\ r \in Nat /\ r >= from
    <3>1. Max({from, Today - WindowDays}) = IF from >= Today - WindowDays THEN from ELSE Today - WindowDays
      BY <2>4, <2>6 DEF Max
    <3> QED  BY <2>4, <2>6, <3>1 DEF Honoured, Asked
  <2>8. ASSUME NEW q \in rates', NEW s \in Session, s <= q, NEW r \in rates', r <= s
        PROVE  s \in rates' \cup cutOff'
    <3>1. s \in Nat /\ r \in Nat /\ q \in Nat
      BY <2>1, <2>4, <2>7, <2>8
    <3>2. CASE r \in rates
      <4>1. from \in rates
        BY <2>5, <3>2
      <4>2. CASE s <= from
        BY <1>4, <2>1, <2>8, <3>2, <4>1, <4>2 DEF Gapless, HasTo
      <4>3. CASE from < s
        <5>1. q \in part
          <6> SUFFICES ASSUME q \in rates PROVE FALSE
            BY <2>1, <2>8
          <6>1. q <= from /\ from \in Nat
            BY <2>5
          <6> QED  BY <2>8, <3>1, <4>3, <6>1
        <5>2. s \in Asked(from, Today)
          <6>1. q \in Asked(from, Today)
            BY <2>4, <2>3, <2>6, <2>7, <3>1, <5>1 DEF Known, Asked
          <6> QED  BY <2>4, <2>6, <2>8, <3>1, <4>3, <6>1 DEF Asked
        <5> QED  BY <2>1, <2>8, <3>1, <5>1, <5>2
      <4> QED  BY <2>6, <3>1, <4>2, <4>3
    <3>3. CASE r \in part
      <4>1. from <= r /\ from <= s
        BY <2>6, <2>7, <2>8, <3>1, <3>3
      <4>2. CASE q \in part
        <5>1. q \in Honoured(from, Today)
          BY <2>1, <4>2
        <5>2. q <= pub /\ q <= Today
          BY <5>1 DEF Honoured, Asked
        <5>3. s \in Asked(from, Today)
          BY <2>4, <2>6, <2>8, <3>1, <4>1, <5>2 DEF Asked
        <5>4. s = q \/ s < q
          BY <2>8, <3>1
        <5> QED  BY <2>1, <2>8, <4>2, <5>3, <5>4
      <4>3. CASE q \in rates
        <5>1. q <= from
          BY <2>5, <4>3
        <5>2. s = q
          BY <2>6, <2>8, <3>1, <4>1, <5>1
        <5> QED  BY <2>8, <5>2
      <4> QED  BY <2>1, <2>8, <4>2, <4>3
    <3> QED  BY <2>1, <2>8, <3>2, <3>3
  <2>9. Gapless'
    BY <2>8 DEF Gapless, HasTo
  <2>10. ASSUME meta.status = "success" PROVE HasTo(meta.pub)' /\ AskedTo(meta.pub)'
    <3>1. HasTo(meta.pub) /\ AskedTo(meta.pub) /\ meta' = meta
      BY <2>10 DEF SuccessIsDone
    <3>2. AskedTo(meta.pub)'
      BY <1>2, <2>1, <3>1 DEF AskedTo
    <3>3. meta.pub \in Nat
      <4>1. meta.pub \in {0} \cup Session
        BY DEF MetaTypes
      <4>2. CASE meta.pub = 0
        BY <4>2
      <4>3. CASE meta.pub \in Session
        BY <2>4, <4>3
      <4> QED  BY <4>1, <4>2, <4>3
    <3>4. ASSUME NEW s \in Session, s <= meta.pub, NEW r \in rates', r <= s
          PROVE  s \in rates' \cup cutOff'
      <4>1. s \in Nat
        BY <2>4
      <4>2. CASE r \in rates
        BY <2>1, <3>1, <3>4, <4>2 DEF HasTo
      <4>3. CASE r \in part /\ rates # {}
        <5>1. from \in rates /\ from <= s
          BY <2>5, <2>7, <3>4, <4>1, <4>3
        <5> QED  BY <2>1, <3>1, <3>4, <5>1 DEF HasTo
      <4>4. CASE r \in part /\ rates = {}
        <5>1. Today - BackfillDays <= s
          BY <2>4, <2>6, <2>7, <3>4, <4>1, <4>4
        <5> QED  BY <2>1, <3>1, <3>4, <4>4, <5>1 DEF AskedTo
      <4> QED  BY <2>1, <3>4, <4>2, <4>3, <4>4
    <3> QED  BY <3>1, <3>2, <3>4 DEF HasTo
  <2> QED  BY <1>4, <2>2, <2>3, <2>9, <2>10 DEF SuccessIsDone
<1> QED  BY <1>3, <1>4

\* Whatever a pull's requests are answered.
LEMMA TreasuryIsPulled ==
    ASSUME ClockTypes, TreasuryTypes, Gapless, NEW ok \in BOOLEAN, PullTreasury(Today, ok),
           UNCHANGED <<pub, hour>>
    PROVE  /\ rates' \subseteq Known /\ cutOff' \subseteq Known /\ backfilled' \in BOOLEAN
           /\ backfilled => backfilled'
           /\ ok => backfilled' /\ HasTo(pub)' /\ AskedTo(pub)'
           /\ ~ok => backfilled' = FALSE \/ UNCHANGED <<rates, cutOff, backfilled>>
<1>1. \A from, to : Asked(from, to) \subseteq Known /\ Honoured(from, to) \subseteq Known
  BY DEF Asked, Honoured, Known
<1>2. rates \subseteq Known /\ cutOff \subseteq Known
  BY DEF TreasuryTypes
<1>3. CASE ~backfilled
  <2>1. PICK done \in SUBSET BackfillWindows(Today) :
            rates' = rates \cup UNION {Honoured(w[1], w[2]) : w \in done}
    BY <1>3 DEF PullTreasury, Begun, Filled
  <2>2. rates' \subseteq Known
    BY <1>1, <1>2, <2>1
  <2>3. backfilled' = ok /\ cutOff' = IF ok THEN cutOff \cup PassedBy(Today) ELSE cutOff
    BY <1>3 DEF PullTreasury
  <2>4. PassedBy(Today) \subseteq Known
    BY DEF PassedBy, Known
  <2> QED  BY <1>2, <1>3, <2>2, <2>3, <2>4, BackfillFills
<1>4. CASE backfilled
  <2>1. /\ rates' = IF ok THEN rates \cup Honoured(TreasuryFrom(Today), Today) ELSE rates
        /\ cutOff' = IF ok THEN cutOff \cup (Asked(TreasuryFrom(Today), Today) \ rates') ELSE cutOff
        /\ backfilled' = backfilled
    BY <1>4 DEF PullTreasury
  <2> QED  BY <1>1, <1>2, <1>4, <2>1, DayFills
<1> QED  BY <1>3, <1>4

Stored == ClockTypes /\ TreasuryTypes /\ MetaTypes /\ Gapless /\ SuccessIsDone

LEMMA StoredIsNatural ==
    ASSUME Stored
    PROVE  /\ pub \in Session /\ pub \in Nat /\ pub <= Today /\ Today \in 0 .. Day(MaxHour)
           /\ meta.pub \in {0} \cup Session /\ meta.pub \in Nat /\ meta.pub <= pub
           /\ Session \subseteq Nat
<1>1. Session \subseteq Nat
  BY EconomicsAssumption
<1>2. pub \in Session /\ pub <= Today /\ meta.pub \in {0} \cup Session /\ meta.pub <= pub
  BY DEF Stored, TreasuryTypes, MetaTypes
<1>3. Today \in 0 .. Day(MaxHour)
  BY TodayIsADay DEF Stored
<1>4. pub \in Nat
  BY <1>1, <1>2
<1>5. meta.pub \in Nat
  <2>1. CASE meta.pub = 0
    BY <2>1
  <2>2. CASE meta.pub \in Session
    BY <1>1, <2>2
  <2> QED  BY <1>2, <2>1, <2>2
<1> QED  BY <1>1, <1>2, <1>3, <1>4, <1>5

\* Who touches the collections.
LEMMA OnlyThePullWrites ==
    ASSUME [Next]_vars
    PROVE  \/ \E ok \in BOOLEAN : EconomicsTurn(ok) /\ ScheduledDue("economics", turn.now)
           \/ Tick \/ Provider
           \/ UNCHANGED <<economicsMarket, economicsStore, hour>>
<1>1. CASE \E ok \in BOOLEAN : EconomicsTurn(ok)
  BY <1>1 DEF EconomicsTurn, economicsStore, economicsMarket
<1>2. CASE Turn /\ ~(\E ok \in BOOLEAN : EconomicsTurn(ok))
  BY <1>2 DEF Turn, Succeeds, Fails, FlowTurn, BreadthTurn, MacroTurn, FredTurn, FredRaises, ReadsTurn,
     ScanTurn, ScanEnd, JobTurn, Pass
<1>3. CASE Die \/ AskScan \/ AskFlow \/ AskJob \/ UNCHANGED vars
  BY <1>3 DEF Die, AskScan, AskFlow, AskJob, vars
<1> QED  BY <1>1, <1>2, <1>3 DEF Next

\* The pull and the death of one: both pull the Treasury, and note less or more.
LEMMA PullsAreOfTreasury ==
    ASSUME NEW ok \in BOOLEAN, EconomicsTurn(ok), ScheduledDue("economics", turn.now)
    PROVE  /\ UNCHANGED <<economicsMarket, hour>>
           /\ \/ \E treasury \in BOOLEAN :
                    /\ PullTreasury(Today, treasury)
                    /\ \/ treasury /\ meta' = [status |-> "success", at |-> Today, pub |-> pub]
                       \/ meta' = [meta EXCEPT !.status = "failed"]
                       \/ meta' = meta
              \/ TreasuryCut(Today) /\ meta' = meta
           /\ \/ \E calendar \in BOOLEAN : PullCalendar(Today, calendar)
              \/ rows' \in {rows, CalendarUpserted(Today)}
           /\ (\E failing \in SUBSET Series : PullIndicators(failing)) \/ readings' = readings
<1>1. UNCHANGED <<economicsMarket, hour>>
  BY DEF EconomicsTurn
<1>2. CASE ok
  <2>1. EconomicsPull(Today)
    BY <1>2 DEF EconomicsTurn
  <2> QED  BY <1>1, <2>1 DEF EconomicsPull
<1>3. CASE ~ok
  <2>1. EconomicsCrash(Today)
    BY <1>3 DEF EconomicsTurn
  <2> QED  BY <1>1, <2>1 DEF EconomicsCrash
<1> QED  BY <1>2, <1>3

LEMMA PullStores ==
    ASSUME Stored, NEW ok \in BOOLEAN, EconomicsTurn(ok), ScheduledDue("economics", turn.now)
    PROVE  Stored'
<1>1. UNCHANGED <<economicsMarket, hour>>
  BY PullsAreOfTreasury
<1>3. pub' = pub /\ Today' = Today /\ Known' = Known
  BY <1>1 DEF economicsMarket, Today, Known
<1>0. CASE TreasuryCut(Today) /\ meta' = meta
  <2>1. rates' \subseteq Known /\ cutOff' \subseteq Known /\ backfilled' = backfilled /\ Gapless' /\ SuccessIsDone'
    BY <1>0, <1>1, <1>3, TreasuryIsCut DEF Stored
  <2> QED  BY <1>0, <1>1, <1>3, <2>1 DEF Stored, ClockTypes, TreasuryTypes, MetaTypes
<1> SUFFICES ASSUME ~(TreasuryCut(Today) /\ meta' = meta) PROVE Stored'
  BY <1>0
<1>2. PICK treasury \in BOOLEAN :
          /\ PullTreasury(Today, treasury)
          /\ \/ treasury /\ meta' = [status |-> "success", at |-> Today, pub |-> pub]
             \/ meta' = [meta EXCEPT !.status = "failed"]
             \/ meta' = meta
  BY PullsAreOfTreasury
<1>4. /\ rates' \subseteq Known /\ cutOff' \subseteq Known /\ backfilled' \in BOOLEAN
      /\ backfilled => backfilled'
      /\ treasury => backfilled' /\ HasTo(pub)' /\ AskedTo(pub)'
      /\ ~treasury => backfilled' = FALSE \/ UNCHANGED <<rates, cutOff, backfilled>>
  BY <1>1, <1>2, <1>3, TreasuryIsPulled DEF Stored
<1>5. ClockTypes' /\ TreasuryTypes'
  BY <1>1, <1>3, <1>4 DEF Stored, ClockTypes, TreasuryTypes
<1>6. pub \in Nat /\ rates' \subseteq Nat /\ \A q \in rates' : q <= pub
  BY <1>4, EconomicsAssumption DEF Stored, TreasuryTypes, Known
<1>7. HasTo(pub)' => \A p \in Nat : p <= pub => HasTo(p)'
  BY <1>3, <1>6, EconomicsAssumption DEF HasTo
<1>8. Gapless'
  <2>1. CASE treasury
    BY <1>4, <1>6, <1>7, <2>1 DEF Gapless
  <2>2. CASE ~treasury
    BY <1>4, <2>2 DEF Stored, Gapless, HasTo
  <2> QED  BY <2>1, <2>2
<1>9. meta.pub \in Nat /\ meta.pub <= pub /\ Today \in 0 .. Day(MaxHour) /\ pub \in Session
  BY StoredIsNatural
<1>10. MetaTypes'
  <2>1. CASE meta' = [status |-> "success", at |-> Today, pub |-> pub]
    BY <1>3, <1>6, <1>9, <2>1 DEF MetaTypes
  <2>2. CASE meta' = [meta EXCEPT !.status = "failed"] \/ meta' = meta
    BY <1>3, <2>2 DEF Stored, MetaTypes
  <2> QED  BY <1>2, <2>1, <2>2
<1>11. SuccessIsDone'
  <2>1. CASE treasury /\ meta' = [status |-> "success", at |-> Today, pub |-> pub]
    <3>1. meta'.pub = pub
      BY <2>1
    <3>2. backfilled' /\ HasTo(pub)' /\ AskedTo(pub)'
      BY <1>4, <2>1
    <3>3. HasTo(meta.pub)' /\ AskedTo(meta.pub)'
      BY <3>1, <3>2, <1>3 DEF HasTo, AskedTo
    <3> QED  BY <3>2, <3>3 DEF SuccessIsDone
  <2>2. CASE meta' = [meta EXCEPT !.status = "failed"]
    BY <2>2 DEF SuccessIsDone, Stored, MetaTypes
  <2>3. CASE meta' = meta
    <3> SUFFICES ASSUME meta.status = "success"
                 PROVE  backfilled' /\ HasTo(meta.pub)' /\ AskedTo(meta.pub)'
      BY <2>3 DEF SuccessIsDone
    <3>1. backfilled /\ HasTo(meta.pub) /\ AskedTo(meta.pub)
      BY DEF Stored, SuccessIsDone
    <3>2. CASE treasury
      <4>1. HasTo(pub)' /\ AskedTo(pub)'
        BY <1>4, <3>2
      <4>2. \A s \in Session : s <= meta.pub => s <= pub
        BY <1>6, <1>9, EconomicsAssumption
      <4> QED  BY <1>3, <1>4, <2>3, <3>2, <4>1, <4>2 DEF HasTo, AskedTo
    <3>3. CASE ~treasury
      BY <1>3, <1>4, <2>3, <3>1, <3>3 DEF HasTo, AskedTo
    <3> QED  BY <3>2, <3>3
  <2> QED  BY <1>2, <2>1, <2>2, <2>3
<1> QED  BY <1>5, <1>8, <1>10, <1>11 DEF Stored

\* Sessions come out in order, on their day or later.
LEMMA SessionsComeOut ==
    ASSUME Stored, PublishSession(Today)
    PROVE  pub' \in Session /\ pub < pub' /\ pub' <= Today
<1>1. PICK s \in Session : pub < s /\ s <= Today /\ pub' = Min({t \in Session : pub < t})
  BY DEF PublishSession
<1> DEFINE later == {t \in Session : pub < t}
<1>2. later \subseteq Nat /\ s \in later
  BY <1>1, EconomicsAssumption
<1>3. Min(later) \in later /\ Min(later) <= s
  BY <1>2, Smallest
<1>4. pub \in Nat /\ Today \in Nat /\ s \in Nat /\ pub' \in Nat
  BY <1>1, <1>2, <1>3, EconomicsAssumption, TodayIsADay DEF Stored, TreasuryTypes
<1> QED  BY <1>1, <1>3, <1>4

LEMMA StepStores ==
    ASSUME Stored, [Next]_vars
    PROVE  Stored'
<1>1. CASE \E ok \in BOOLEAN : EconomicsTurn(ok) /\ ScheduledDue("economics", turn.now)
  BY <1>1, PullStores
<1>2. CASE Tick
  <2>1. UNCHANGED <<pub, rates, backfilled, cutOff, meta>> /\ hour' = hour + 1 /\ hour < MaxHour
    BY <1>2 DEF Tick, economicsMarket, economicsStore
  <2>2. hour \in Nat /\ ClockTypes'
    BY <2>1, WorkerAssumption DEF Stored, ClockTypes
  <2>3. Today' \in Nat /\ Today \in Nat /\ Today <= Today'
    BY <2>1, <2>2, DaysGrow DEF Today
  <2>4. TreasuryTypes'
    BY <2>1, <2>3, EconomicsAssumption DEF Stored, TreasuryTypes, Known
  <2>5. AskedTo(meta.pub) => AskedTo(meta.pub)'
    BY <2>1, <2>3, EconomicsAssumption DEF AskedTo
  <2> QED  BY <2>1, <2>2, <2>4, <2>5 DEF Stored, MetaTypes, Gapless, SuccessIsDone, HasTo
<1>3. CASE Provider
  <2>1. UNCHANGED <<rates, backfilled, cutOff, meta, hour>>
    BY <1>3 DEF Provider, economicsStore
  <2>2. ClockTypes' /\ Today' = Today
    BY <2>1 DEF Stored, ClockTypes, Today
  <2>3. pub' \in Session /\ pub <= pub' /\ pub' <= Today
    <3>1. CASE PublishSession(Today)
      <4>1. pub' \in Session /\ pub < pub' /\ pub' <= Today
        BY <3>1, SessionsComeOut
      <4> QED  BY <4>1, StoredIsNatural
    <3>2. CASE pub' = pub
      BY <3>2, StoredIsNatural
    <3> QED  BY <1>3, <3>1, <3>2 DEF Provider, ReportEvent, MoveEvent, PrintSeries
  <2>4. Known \subseteq Known'
    BY <2>3, StoredIsNatural DEF Known
  <2>5. TreasuryTypes'
    BY <2>1, <2>2, <2>3, <2>4 DEF Stored, TreasuryTypes
  <2>6. MetaTypes'
    <3>1. pub' \in Nat /\ meta.pub <= pub'
      BY <2>3, StoredIsNatural
    <3> QED  BY <2>1, <3>1 DEF Stored, MetaTypes
  <2> QED  BY <2>1, <2>2, <2>5, <2>6 DEF Stored, Gapless, SuccessIsDone, HasTo, AskedTo
<1>4. CASE UNCHANGED <<economicsMarket, economicsStore, hour>>
  BY <1>4 DEF economicsMarket, economicsStore, Stored, ClockTypes, TreasuryTypes, Known, MetaTypes, Gapless,
     SuccessIsDone, HasTo, AskedTo, Today
<1> QED  BY <1>1, <1>2, <1>3, <1>4, OnlyThePullWrites

LEMMA StartsStored == ASSUME Init PROVE Stored
<1>1. hour = DayHours /\ EconomicsInit(Day(DayHours))
  BY DEF Init
<1>2. ClockTypes /\ Today = FirstDay + 1
  BY <1>1, FirstDayIsNext, WorkerAssumption DEF ClockTypes, Today
<1>3. /\ pub = Max({s \in Session : s < FirstDay + 1})
      /\ rates = {} /\ backfilled = FALSE /\ cutOff = {}
      /\ meta = [status |-> "none", at |-> 0, pub |-> 0]
  BY <1>1, FirstDayIsNext DEF EconomicsInit
<1> DEFINE before == {s \in Session : s < FirstDay + 1}
<1>0. Session \subseteq Nat /\ FirstDay \in Nat /\ \E s \in Session : s <= FirstDay
  BY EconomicsAssumption, WorkerAssumption
<1>4. before \subseteq 0 .. FirstDay /\ before # {}
  <2>1. PICK s \in Session : s <= FirstDay
    BY <1>0
  <2>2. s \in before
    BY <1>0, <2>1
  <2>3. \A t \in before : t \in 0 .. FirstDay
    BY <1>0
  <2> QED  BY <2>2, <2>3
<1>5. pub \in before
  BY <1>3, <1>4, Largest, WorkerAssumption
<1>6. pub \in Session /\ pub \in Nat /\ pub <= Today
  BY <1>2, <1>5, EconomicsAssumption, WorkerAssumption
<1>7. Day(MaxHour) \in Nat
  BY DaysGrow, WorkerAssumption
<1>8. TreasuryTypes
  BY <1>3, <1>6 DEF TreasuryTypes
<1>9. MetaTypes
  BY <1>3, <1>6, <1>7 DEF MetaTypes
<1> QED  BY <1>2, <1>3, <1>8, <1>9 DEF Stored, Gapless, SuccessIsDone

LEMMA StoredHolds == Spec => []Stored
<1>1. Init => Stored
  BY StartsStored
<1>2. Stored /\ [Next]_vars => Stored'
  BY StepStores
<1> QED  BY <1>1, <1>2, PTL DEF Spec

\* What the meta calls a success has every Treasury session that was out then,
\* from the first one stored on, but for those cut off: however many pulls
\* failed, died or were partial before (economics.run_economics_pull).
THEOREM SuccessHasEverySession == Spec => []SuccessIsComplete
<1>1. Stored => SuccessIsComplete
  BY DEF Stored, SuccessIsDone, HasTo, SuccessIsComplete
<1> QED  BY <1>1, StoredHolds, PTL

-----------------------------------------------------------------------------
(***************************************************************************)
(* The curve and the change of a session.                                  *)
(***************************************************************************)
\* A row of sessions that misses none from its first on picks what the whole
\* picks, or nothing.
LEMMA OverlayFindsTheSession ==
    ASSUME NEW all, all \subseteq Nat, NEW top \in all, \A s \in all : s <= top,
           NEW some, some \subseteq all, top \in some,
           \A r \in some : \A s \in all : r <= s => s \in some,
           MonthDays \in Nat
    PROVE  CurveOverlay(some) \in {0, CurveOverlay(all)}
<1>1. top \in Nat /\ some \subseteq Nat /\ all # {} /\ some # {}
  OBVIOUS
<1>2. Max(all) = top /\ Max(some) = top
  BY <1>1, LargestIs
<1> DEFINE t == top - MonthDays
           ofAll == {0} \cup {d \in all : d <= t}
           ofSome == {0} \cup {d \in some : d <= t}
<1>3. CurveOverlay(all) = Max(ofAll) /\ CurveOverlay(some) = Max(ofSome)
  BY <1>1, <1>2 DEF CurveOverlay, NearestSession
<1>4. t \in Int /\ ofAll \subseteq 0 .. top /\ ofSome \subseteq 0 .. top /\ ofSome \subseteq ofAll
  <2>1. t \in Int
    BY <1>1
  <2>2. \A d \in all : d \in 0 .. top
    BY <1>1
  <2>3. 0 \in 0 .. top
    BY <1>1
  <2> QED  BY <2>1, <2>2, <2>3
<1>5. Max(ofAll) \in ofAll /\ (\A x \in ofAll : x <= Max(ofAll))
  BY <1>1, <1>4, Largest
<1>6. Max(ofSome) \in ofSome /\ (\A x \in ofSome : x <= Max(ofSome))
  BY <1>1, <1>4, Largest
<1> DEFINE a == Max(ofAll)
           m == Max(ofSome)
<1>7. ASSUME m # 0 PROVE m = a
  <2>1. m \in some /\ m \in ofAll /\ m \in Nat
    BY <1>4, <1>6, <1>7
  <2>2. m <= a /\ a \in Nat
    BY <1>4, <1>5, <2>1
  <2>3. a \in all /\ a <= t
    BY <1>5, <1>7, <2>1, <2>2
  <2>4. a \in some
    BY <2>1, <2>2, <2>3
  <2>5. a <= m
    BY <1>6, <2>3, <2>4
  <2> QED  BY <2>1, <2>2, <2>5
<1> QED  BY <1>3, <1>7

LEMMA ChangeFindsTheSession ==
    ASSUME NEW all, all \subseteq Session, Session \subseteq Nat, NEW top \in all, \A s \in all : s <= top,
           NEW some, some \subseteq all, top \in some,
           \A r \in some : \A s \in all : r <= s => s \in some
    PROVE  ChangeSince(some, Session) \in {0, ChangeSince(all, Session)}
<1>1. all \subseteq Nat /\ some \subseteq Nat /\ top \in Nat
  OBVIOUS
<1>2. Max(all) = top /\ Max(some) = top
  BY <1>1, LargestIs
<1>3. some \cap Session = some /\ all \cap Session = all
  OBVIOUS
<1>4. all \subseteq 0 .. top
  BY <1>1
<1>5. IsFiniteSet(0 .. top)
  BY <1>1, FS_Interval
<1>6. IsFiniteSet(all) /\ IsFiniteSet(some)
  BY <1>4, <1>5, FS_Subset
<1>7. Cardinality(some) <= Cardinality(all) /\ Cardinality(some) \in Nat /\ Cardinality(all) \in Nat
  BY <1>6, FS_Subset, FS_CardinalityType
<1>8. CASE Cardinality(some) < 2
  BY <1>3, <1>8 DEF ChangeSince
<1>9. CASE Cardinality(some) >= 2
  <2>1. ChangeSince(some, Session) = Max(some \ {top}) /\ ChangeSince(all, Session) = Max(all \ {top})
    BY <1>2, <1>3, <1>7, <1>9 DEF ChangeSince
  <2>2. some \ {top} # {}
    <3> SUFFICES ASSUME some = {top} PROVE FALSE
      OBVIOUS
    <3>1. Cardinality({top}) = 1
      BY FS_Singleton
    <3> QED  BY <1>9, <3>1
  <2>3. Max(some \ {top}) \in some \ {top} /\ \A x \in some \ {top} : x <= Max(some \ {top})
    BY <1>1, <1>4, <2>2, Largest
  <2>4. Max(all \ {top}) \in all \ {top} /\ \A x \in all \ {top} : x <= Max(all \ {top})
    BY <1>1, <1>4, <2>2, Largest
  <2> DEFINE m == Max(some \ {top})
             a == Max(all \ {top})
  <2>5. m \in Nat /\ a \in Nat /\ m <= a
    BY <1>1, <2>3, <2>4
  <2>6. a \in some \ {top}
    BY <2>3, <2>4, <2>5
  <2>7. a <= m
    BY <2>3, <2>6
  <2> QED  BY <2>1, <2>5, <2>7
<1> QED  BY <1>7, <1>8, <1>9

LEMMA OverlayIsRight == ASSUME Stored PROVE OverlayIsTheProviders
<1> DEFINE all == {s \in Session : s <= Max(rates)} \ (cutOff \ rates)
<1> SUFFICES ASSUME backfilled, rates # {}
             PROVE  /\ CurveOverlay(rates) \in {0, CurveOverlay(all)}
                    /\ ChangeSince(rates, Session) \in {0, ChangeSince(all, Session)}
  BY DEF OverlayIsTheProviders
<1>1. rates \subseteq 0 .. pub /\ rates \subseteq Session /\ pub \in Nat /\ Session \subseteq Nat
  BY StoredIsNatural DEF Stored, TreasuryTypes, Known
<1>2. Max(rates) \in rates /\ \A r \in rates : r <= Max(rates)
  BY <1>1, Largest
<1>3. all \subseteq Nat /\ all \subseteq Session /\ rates \subseteq all /\ Max(rates) \in all
      /\ \A s \in all : s <= Max(rates)
  BY <1>1, <1>2
<1>4. \A r \in rates : \A s \in all : r <= s => s \in rates
  BY <1>2 DEF Stored, Gapless, HasTo
<1> HIDE DEF all
<1>5. CurveOverlay(rates) \in {0, CurveOverlay(all)}
  BY <1>2, <1>3, <1>4, EconomicsAssumption, OverlayFindsTheSession
<1>6. ChangeSince(rates, Session) \in {0, ChangeSince(all, Session)}
  BY <1>1, <1>2, <1>3, <1>4, ChangeFindsTheSession
<1> QED  BY <1>5, <1>6

-----------------------------------------------------------------------------
(***************************************************************************)
(* The calendar.  A row goes when a day's rows are replaced, so there is   *)
(* one a day, and of an event that has not moved there is one day.         *)
(***************************************************************************)
EventTypes ==
    /\ event \in [day : Nat, actual : BOOLEAN] /\ moved \in BOOLEAN
    /\ rows \subseteq [day : Nat, actual : BOOLEAN]
OneRowADay ==
    /\ \A q, r \in rows : q.day = r.day => q = r
    /\ ~moved => \A r \in rows : r.day = event.day
Listed == EventTypes /\ OneRowADay

LEMMA CalendarIsPulled ==
    ASSUME Listed, NEW day, UNCHANGED <<event, moved>>,
           (\E ok \in BOOLEAN : PullCalendar(day, ok)) \/ rows' \in {rows, CalendarUpserted(day)}
    PROVE  Listed'
<1>1. CASE rows' \subseteq rows
  BY <1>1 DEF Listed, EventTypes, OneRowADay
<1>2. CASE rows' \subseteq {q \in rows : q.day # event.day} \cup {event}
  BY <1>2 DEF Listed, EventTypes, OneRowADay
<1>3. rows' = rows \/ rows' \subseteq CalendarUpserted(day)
  BY DEF PullCalendar, CalendarRows
<1> QED  BY <1>1, <1>2, <1>3 DEF CalendarUpserted

LEMMA StepLists ==
    ASSUME Stored, Listed, [Next]_vars
    PROVE  Listed'
<1>1. ASSUME NEW ok \in BOOLEAN, EconomicsTurn(ok), ScheduledDue("economics", turn.now)
      PROVE  Listed'
  <2>1. \/ \E calendar \in BOOLEAN : PullCalendar(Today, calendar)
        \/ rows' \in {rows, CalendarUpserted(Today)}
    BY <1>1, PullsAreOfTreasury
  <2>2. UNCHANGED <<event, moved>>
    BY <1>1, PullsAreOfTreasury DEF economicsMarket
  <2> QED  BY <2>1, <2>2, CalendarIsPulled
<1>2. CASE Provider
  <2>1. rows' = rows
    BY <1>2 DEF Provider, economicsStore
  <2>2. CASE ReportEvent(Today)
    BY <2>1, <2>2 DEF ReportEvent, Listed, EventTypes, OneRowADay
  <2>3. CASE MoveEvent(Today)
    BY <2>1, <2>3 DEF MoveEvent, Listed, EventTypes, OneRowADay
  <2>4. CASE UNCHANGED <<event, moved>>
    BY <2>1, <2>4 DEF Listed, EventTypes, OneRowADay
  <2> QED  BY <1>2, <2>2, <2>3, <2>4 DEF Provider, PublishSession, PrintSeries
<1>3. CASE UNCHANGED <<economicsMarket, economicsStore>>
  BY <1>3 DEF economicsMarket, economicsStore, Listed, EventTypes, OneRowADay
<1> QED  BY <1>1, <1>2, <1>3, OnlyThePullWrites DEF Tick

LEMMA OneEventIsShown == ASSUME Listed PROVE EventIsShownOnce
<1> DEFINE shown == Reported(Today) \cup Upcoming(Today)
<1> SUFFICES ASSUME ~moved PROVE Cardinality(shown) <= 1
  BY DEF EventIsShownOnce
<1>1. shown \subseteq rows
  BY DEF Reported, Upcoming
<1>2. \A q, r \in shown : q = r
  BY <1>1 DEF Listed, OneRowADay
<1> HIDE DEF shown
<1>3. CASE shown = {}
  BY <1>3, FS_EmptySet
<1>4. CASE shown # {}
  <2>1. PICK r \in shown : TRUE
    BY <1>4
  <2>2. shown = {r}
    BY <1>2, <2>1
  <2>3. Cardinality({r}) = 1
    BY FS_Singleton
  <2> QED  BY <2>2, <2>3
<1> QED  BY <1>3, <1>4

LEMMA StartsListed == ASSUME Init PROVE Listed
<1> DEFINE d == Day(DayHours)
<1>0. event \in [day : {d, d + 1}, actual : {FALSE}]
  BY DEF Init, EconomicsInit
<1>1. d \in Nat /\ d + 1 \in Nat
  BY FirstDayIsNext, WorkerAssumption
<1> HIDE DEF d
<1>2. event \in [day : Nat, actual : BOOLEAN]
  <2>1. [day : {d, d + 1}, actual : {FALSE}] \subseteq [day : Nat, actual : BOOLEAN]
    BY <1>1
  <2> QED  BY <1>0, <2>1
<1>3. moved = FALSE /\ rows = {}
  BY DEF Init, EconomicsInit
<1> QED  BY <1>2, <1>3 DEF Listed, EventTypes, OneRowADay

LEMMA ListedHolds == Spec => []Listed
<1>1. Init => Listed
  BY StartsListed
<1>2. Stored /\ Listed /\ [Next]_vars => Listed'
  BY StepLists
<1> QED  BY <1>1, <1>2, StoredHolds, PTL DEF Spec

\* What the pages make of the collections is what the provider holds: a stored
\* row of sessions without a hole gives the curve and the change that all the
\* provider's sessions give, and an event that has not moved is shown once
\* (market.get_treasury_curve, session_change, get_economic_calendar).
THEOREM PagesAreRight == Spec => []PagesAreTheProviders
<1>1. Stored /\ Listed => PagesAreTheProviders
  BY OverlayIsRight, OneEventIsShown DEF PagesAreTheProviders
<1> QED  BY <1>1, StoredHolds, ListedHolds, PTL

-----------------------------------------------------------------------------
(***************************************************************************)
(* The FRED document.  A group that was fetched before the document was    *)
(* replaced was fetched with the document it then was in, because a        *)
(* document that lacks a group has not been replaced.                      *)
(***************************************************************************)
FredTypes == fred \in [at : 0 .. MaxHour, of : [Group -> 0 .. MaxHour]]
LacksNothingOld ==
    \A g, k \in Group : fred.of[g] = 0 => fred.of[k] \in {0, fred.at}
Fred == ClockTypes /\ FredTypes /\ LacksNothingOld /\ FredWithinTwoWindows

LEMMA HoursAreNatural ==
    /\ MaxHour \in Nat /\ DayHours \in Nat /\ DayHours > 0 /\ DayHours <= MaxHour
    /\ FredHours \in Nat /\ FredHours > 0
    /\ \A h \in DayHours .. MaxHour : h \in 0 .. MaxHour /\ h \in Nat /\ h > 0
  BY WorkerAssumption, MacroAssumption

LEMMA DocumentIsFetched ==
    ASSUME Fred, NEW groups \in SUBSET Group, GetMacroData(groups, hour), hour' = hour
    PROVE  Fred'
<1>1. CASE MissingGroups(groups, hour) = {}
  BY <1>1 DEF GetMacroData, Fred, ClockTypes, FredTypes, LacksNothingOld, FredWithinTwoWindows
<1>2. CASE MissingGroups(groups, hour) # {}
  <2> DEFINE missing == MissingGroups(groups, hour)
             held == Held(hour)
             of == [g \in Group |-> IF g \in missing THEN hour ELSE held[g]]
  <2>1. fred' = [at |-> hour, of |-> of]
    BY <1>2 DEF GetMacroData
  <2>2. PICK m \in missing : m \in Group /\ held[m] = 0
    BY <1>2 DEF MissingGroups
  <2>3. hour \in 0 .. MaxHour /\ hour \in Nat /\ hour > 0
    BY HoursAreNatural DEF Fred, ClockTypes
  <2>4. \A g \in Group : held[g] \in 0 .. MaxHour /\ (held[g] > 0 => hour - held[g] < FredHours)
    <3>1. CASE fred.at > 0 /\ hour - fred.at < FredHours
      <4>1. held = fred.of
        BY <3>1 DEF Held
      <4>2. \A g \in Group : fred.of[g] \in 0 .. MaxHour /\ fred.of[g] \in {0, fred.at}
        BY <2>2, <4>1 DEF Fred, FredTypes, LacksNothingOld
      <4> QED  BY <3>1, <4>1, <4>2
    <3>2. CASE ~(fred.at > 0 /\ hour - fred.at < FredHours)
      <4>1. held = [g \in Group |-> 0]
        BY <3>2 DEF Held
      <4> QED  BY <4>1, HoursAreNatural
    <3> QED  BY <3>1, <3>2
  <2>5. \A g \in Group : held[g] # 0 => g \notin missing
    BY DEF MissingGroups
  <2> HIDE DEF missing, held
  <2>6. of \in [Group -> 0 .. MaxHour]
    BY <2>3, <2>4
  <2>7. FredTypes'
    BY <2>1, <2>3, <2>6 DEF FredTypes
  <2>8. FredWithinTwoWindows'
    BY <2>1, <2>3, <2>4, HoursAreNatural DEF FredWithinTwoWindows
  <2>9. LacksNothingOld'
    <3> SUFFICES ASSUME NEW g \in Group, NEW k \in Group, of[g] = 0
                 PROVE  of[k] \in {0, hour}
      BY <2>1 DEF LacksNothingOld
    <3>1. g \notin missing /\ held[g] = 0
      BY <2>3
    <3>2. g # m /\ m \in missing
      BY <2>2, <3>1
    <3>3. CASE k = g
      BY <3>3
    <3>4. CASE k = m
      BY <3>2, <3>4
    <3> QED  BY <2>2, <3>2, <3>3, <3>4 DEF Group
  <2>10. ClockTypes'
    BY DEF Fred, ClockTypes
  <2> QED  BY <2>7, <2>8, <2>9, <2>10 DEF Fred
<1> QED  BY <1>1, <1>2

LEMMA StepFetches ==
    ASSUME Fred, [Next]_vars
    PROVE  Fred'
<1>1. CASE FredTurn
  <2>1. hour' = hour /\ (GetMacroData(Group, hour) \/ GetMacroData({"curve"}, hour))
    BY <1>1 DEF FredTurn
  <2> QED  BY <2>1, DocumentIsFetched DEF Group
<1>2. CASE Tick
  <2>1. ClockTypes'
    BY <1>2, HoursAreNatural DEF Tick, Fred, ClockTypes
  <2> QED  BY <1>2, <2>1 DEF Tick, macroVars, Fred, FredTypes, LacksNothingOld, FredWithinTwoWindows
<1>3. CASE UNCHANGED <<fred, hour>>
  BY <1>3 DEF Fred, ClockTypes, FredTypes, LacksNothingOld, FredWithinTwoWindows
<1>4. CASE \E ok \in BOOLEAN : FlowTurn(ok) \/ BreadthTurn(ok) \/ EconomicsTurn(ok)
  BY <1>3, <1>4 DEF FlowTurn, BreadthTurn, EconomicsTurn, macroVars
<1>5. CASE MacroTurn \/ FredRaises \/ ReadsTurn
  BY <1>3, <1>5 DEF MacroTurn, FredRaises, ReadsTurn, macroVars
<1>6. CASE ScanTurn \/ ScanEnd \/ JobTurn \/ Pass \/ Die
  BY <1>3, <1>6 DEF ScanTurn, ScanEnd, JobTurn, Pass, Die, macroVars
<1>7. CASE Provider \/ AskScan \/ AskFlow \/ AskJob
  BY <1>3, <1>7 DEF Provider, AskScan, AskFlow, AskJob, macroVars
<1>8. CASE UNCHANGED vars
  BY <1>3, <1>8 DEF vars, macroVars
<1> QED  BY <1>1, <1>2, <1>4, <1>5, <1>6, <1>7, <1>8 DEF Next, Turn, Succeeds, Fails

LEMMA StartsWithoutADocument == ASSUME Init PROVE Fred
<1>1. fred = [at |-> 0, of |-> [g \in Group |-> 0]] /\ hour = DayHours
  BY DEF Init, MacroInit
<1> QED  BY <1>1, HoursAreNatural DEF Fred, ClockTypes, FredTypes, LacksNothingOld, FredWithinTwoWindows

LEMMA FredHolds == Spec => []Fred
<1>1. Init => Fred
  BY StartsWithoutADocument
<1>2. Fred /\ [Next]_vars => Fred'
  BY StepFetches
<1> QED  BY <1>1, <1>2, PTL DEF Spec

\* The document never holds a group that was fetched a whole window before the
\* document's own hour, whichever calls completed it in whatever order
\* (macro.get_macro_data, get_yield_curve_status).
THEOREM NothingIsServedTwiceItsWindow == Spec => []FredWithinTwoWindows
<1>1. Fred => FredWithinTwoWindows
  BY DEF Fred
<1> QED  BY <1>1, FredHolds, PTL

-----------------------------------------------------------------------------
(***************************************************************************)
(* The scans.  There is a ranking of every finite set of companies, so the *)
(* one that run_scan writes is a ranking.                                  *)
(***************************************************************************)
LEMMA TenthsAreBounded == ASSUME NEW n \in Nat, n <= 1005 PROVE n \div 10 \in 0 .. 100
  OBVIOUS

LEMMA ScoresAreBounded == ASSUME NEW f \in Found PROVE Score(f) \in 0 .. 100
<1>1. /\ f.move \in Nat /\ f.beat \in 0 .. 100 /\ f.ups \in Nat /\ f.downs \in Nat
      /\ f.cluster \in BOOLEAN /\ f.buys \in Nat /\ f.accumulation \in 0 .. 5
  BY EarningsAssumption
<1> DEFINE move == IF f.move <= 15 THEN f.move ELSE 15
<1>2. Min({f.move, 15}) = move
  BY <1>1 DEF Min
<1>3. MovePts(f) \in 0 .. 250
  <2>1. move \in 0 .. 15
    BY <1>1
  <2>2. MovePts(f) = (move * 250 + 7) \div 15
    BY <1>2 DEF MovePts
  <2> HIDE DEF move
  <2> QED  BY <2>1, <2>2
<1>4. RevisionPts(f) \in 0 .. 200 /\ InsiderPts(f) \in 0 .. 200
  BY <1>1 DEF RevisionPts, InsiderPts
<1>5. f.beat * 2 \in 0 .. 200 /\ f.accumulation * 30 \in 0 .. 150
  BY <1>1
<1>6. (MovePts(f) + f.beat * 2 + RevisionPts(f) + InsiderPts(f) + f.accumulation * 30 + 5) \div 10
        \in 0 .. 100
  <2> DEFINE points == MovePts(f)
             beat == f.beat * 2
             revision == RevisionPts(f)
             insider == InsiderPts(f)
             bought == f.accumulation * 30
  <2>1. /\ points \in 0 .. 250 /\ beat \in 0 .. 200 /\ revision \in 0 .. 200 /\ insider \in 0 .. 200
        /\ bought \in 0 .. 150
    BY <1>3, <1>4, <1>5
  <2> HIDE DEF points, beat, revision, insider, bought
  <2>2. points + beat \in Nat /\ points + beat <= 450
    BY <2>1
  <2>3. points + beat + revision \in Nat /\ points + beat + revision <= 650
    BY <2>1, <2>2
  <2>4. points + beat + revision + insider \in Nat /\ points + beat + revision + insider <= 850
    BY <2>1, <2>3
  <2> DEFINE most == points + beat + revision + insider
  <2>5. most + bought + 5 \in Nat /\ most + bought + 5 <= 1005
    <3> HIDE DEF most
    <3>1. most \in Nat /\ most <= 850
      BY <2>4 DEF most
    <3> QED  BY <2>1, <3>1
  <2>6. (most + bought + 5) \div 10 \in 0 .. 100
    BY <2>5, TenthsAreBounded
  <2> QED  BY <2>6 DEF points, beat, revision, insider, bought
<1> QED  BY <1>6 DEF Score

LEMMA RankingExists ==
    ASSUME NEW D, IsFiniteSet(D), D \subseteq Nat, NEW sc \in [D -> Nat]
    PROVE  \E r \in [1 .. Cardinality(D) -> D] :
               /\ IsInjective(r)
               /\ \A i, j \in DOMAIN r : i < j =>
                     sc[r[i]] > sc[r[j]] \/ (sc[r[i]] = sc[r[j]] /\ r[i] < r[j])
<1> DEFINE n == Cardinality(D)
           Ahead(c, d) == sc[c] > sc[d] \/ (sc[c] = sc[d] /\ c < d)
           ahead == [d \in D |-> {c \in D : Ahead(c, d)}]
           rank == [d \in D |-> Cardinality(ahead[d]) + 1]
<1>1. n \in Nat /\ \A c \in D : c \in Nat /\ sc[c] \in Nat
  BY FS_CardinalityType
<1>2. \A c, d \in D : c # d => Ahead(c, d) \/ Ahead(d, c)
  BY <1>1
<1>3. \A c \in D : ~Ahead(c, c)
  BY <1>1
<1>4. \A b, c, d \in D : Ahead(b, c) /\ Ahead(c, d) => Ahead(b, d)
  BY <1>1
<1>a. \A c, d \in D : Ahead(c, d) => sc[c] > sc[d] \/ (sc[c] = sc[d] /\ c < d)
  OBVIOUS
<1> HIDE DEF Ahead
<1>5. \A d \in D : IsFiniteSet(ahead[d]) /\ Cardinality(ahead[d]) \in Nat /\ Cardinality(ahead[d]) < n
  <2> TAKE d \in D
  <2>1. ahead[d] \in SUBSET D /\ d \notin ahead[d]
    BY <1>3
  <2>2. /\ IsFiniteSet(ahead[d]) /\ Cardinality(ahead[d]) <= n
        /\ n = Cardinality(ahead[d]) => D = ahead[d]
    BY <2>1, FS_Subset
  <2>3. Cardinality(ahead[d]) \in Nat
    BY <2>2, FS_CardinalityType
  <2> QED  BY <1>1, <2>1, <2>2, <2>3
<1>6. rank \in [D -> 1 .. n] /\ \A d \in D : rank[d] = Cardinality(ahead[d]) + 1
  BY <1>1, <1>5
<1>7. ASSUME NEW c \in D, NEW d \in D, Ahead(c, d) PROVE rank[c] < rank[d]
  <2>1. ahead[c] \in SUBSET ahead[d] /\ c \in ahead[d] /\ c \notin ahead[c]
    BY <1>3, <1>4, <1>7
  <2>2. /\ Cardinality(ahead[c]) <= Cardinality(ahead[d])
        /\ Cardinality(ahead[d]) = Cardinality(ahead[c]) => ahead[d] = ahead[c]
    BY <1>5, <2>1, FS_Subset
  <2> HIDE DEF ahead, rank
  <2> QED  BY <1>5, <1>6, <2>1, <2>2
<1> HIDE DEF ahead, rank
<1>8. \A c, d \in D : rank[c] = rank[d] => c = d
  <2> SUFFICES ASSUME NEW c \in D, NEW d \in D, rank[c] = rank[d], c # d PROVE FALSE
    OBVIOUS
  <2>1. rank[c] \in Nat
    BY <1>1, <1>6
  <2>2. CASE Ahead(c, d)
    BY <1>7, <2>1, <2>2
  <2>3. CASE Ahead(d, c)
    BY <1>7, <2>1, <2>3
  <2> QED  BY <1>2, <2>2, <2>3
<1>9. \A k \in 1 .. n : \E d \in D : rank[d] = k
  <2> SUFFICES ASSUME NEW k \in 1 .. n, \A d \in D : rank[d] # k PROVE FALSE
    OBVIOUS
  <2> DEFINE others == (1 .. n) \ {k}
  <2>1. IsFiniteSet(1 .. n) /\ Cardinality(1 .. n) = n
    BY <1>1, FS_Interval
  <2>2. IsFiniteSet(others) /\ Cardinality(others) = n - 1
    BY <2>1, FS_RemoveElement
  <2>3. rank \in [D -> others]
    BY <1>6
  <2> HIDE DEF others
  <2>4. n - 1 < n
    BY <1>1
  <2>5. \E c, d \in D : c # d /\ rank[c] = rank[d]
    BY <2>2, <2>3, <2>4, FS_PigeonHole
  <2> QED  BY <1>8, <2>5
<1> DEFINE r == [k \in 1 .. n |-> CHOOSE d \in D : rank[d] = k]
<1>10. \A k \in 1 .. n : r[k] \in D /\ rank[r[k]] = k
  BY <1>9
<1>11. r \in [1 .. n -> D] /\ DOMAIN r = 1 .. n
  BY <1>10
<1> HIDE DEF r
<1>12. IsInjective(r)
  BY <1>10, <1>11 DEF IsInjective
<1>13. \A i, j \in 1 .. n : i < j => Ahead(r[i], r[j])
  <2> SUFFICES ASSUME NEW i \in 1 .. n, NEW j \in 1 .. n, i < j, ~Ahead(r[i], r[j]) PROVE FALSE
    OBVIOUS
  <2>1. r[i] # r[j]
    BY <1>10
  <2>2. Ahead(r[j], r[i])
    BY <1>2, <1>10, <2>1
  <2>3. rank[r[j]] < rank[r[i]]
    BY <1>7, <1>10, <2>2
  <2>4. j < i
    BY <1>10, <2>3
  <2> QED  BY <1>1, <2>4
<1>14. \A i, j \in DOMAIN r : i < j => sc[r[i]] > sc[r[j]] \/ (sc[r[i]] = sc[r[j]] /\ r[i] < r[j])
  BY <1>10, <1>11, <1>13, <1>a
<1> QED  BY <1>11, <1>12, <1>14

\* What run_scan writes: no company twice, and scores that never rise.
LEMMA RankedIsARanking ==
    ASSUME NEW done \in SUBSET Company, NEW enriched \in [done -> Found]
    PROVE  LET r == Ranked(enriched) IN
           IsRanking([k \in DOMAIN r |-> [company |-> r[k], score |-> Score(enriched[r[k]])]])
<1> DEFINE D == DOMAIN enriched
           n == Cardinality(D)
           sc == [c \in D |-> Score(enriched[c])]
           r == Ranked(enriched)
           list == [k \in DOMAIN r |-> [company |-> r[k], score |-> Score(enriched[r[k]])]]
<1>1. D = done /\ IsFiniteSet(D) /\ D \subseteq Nat /\ D \subseteq Company
  BY EarningsAssumption, FS_Subset
<1>2. \A c \in D : enriched[c] \in Found
  BY <1>1
<1>3. \A c \in D : sc[c] = Score(enriched[c]) /\ sc[c] \in 0 .. 100 /\ Score(enriched[c]) \in 0 .. 100
  BY <1>2, ScoresAreBounded
<1>4. sc \in [D -> Nat]
  BY <1>3
<1>5. n \in Nat
  BY <1>1, FS_CardinalityType
<1> HIDE DEF sc
<1>6. \E q \in [1 .. n -> D] :
          /\ IsInjective(q)
          /\ \A i, j \in DOMAIN q : i < j =>
                sc[q[i]] > sc[q[j]] \/ (sc[q[i]] = sc[q[j]] /\ q[i] < q[j])
  BY <1>1, <1>4, RankingExists
<1>7. \E q \in [1 .. n -> D] :
          /\ IsInjective(q)
          /\ \A i, j \in DOMAIN q : i < j =>
                \/ Score(enriched[q[i]]) > Score(enriched[q[j]])
                \/ Score(enriched[q[i]]) = Score(enriched[q[j]]) /\ q[i] < q[j]
  <2>1. PICK q \in [1 .. n -> D] :
          /\ IsInjective(q)
          /\ \A i, j \in DOMAIN q : i < j =>
                sc[q[i]] > sc[q[j]] \/ (sc[q[i]] = sc[q[j]] /\ q[i] < q[j])
    BY <1>6
  <2>2. \A i \in DOMAIN q : sc[q[i]] = Score(enriched[q[i]])
    <3> TAKE i \in DOMAIN q
    <3>1. q[i] \in D
      OBVIOUS
    <3> HIDE DEF D
    <3> QED  BY <1>3, <3>1
  <2>3. \A i, j \in DOMAIN q : i < j =>
                \/ Score(enriched[q[i]]) > Score(enriched[q[j]])
                \/ Score(enriched[q[i]]) = Score(enriched[q[j]]) /\ q[i] < q[j]
    BY <2>1, <2>2
  <2> HIDE DEF D
  <2> QED  BY <2>1, <2>3
<1>8. /\ r \in [1 .. n -> D] /\ IsInjective(r)
      /\ \A i, j \in DOMAIN r : i < j =>
                \/ Score(enriched[r[i]]) > Score(enriched[r[j]])
                \/ Score(enriched[r[i]]) = Score(enriched[r[j]]) /\ r[i] < r[j]
  BY <1>7 DEF Ranked
<1> HIDE DEF r, D
<1>9. DOMAIN r = 1 .. n /\ \A k \in 1 .. n : r[k] \in D
  BY <1>8
<1>10. \A k \in 1 .. n : list[k] = [company |-> r[k], score |-> Score(enriched[r[k]])]
  BY <1>9
<1>11. \A k \in 1 .. n : list[k] \in [company : Company, score : 0 .. 100]
  BY <1>1, <1>3, <1>9, <1>10
<1>12. list \in Seq([company : Company, score : 0 .. 100]) /\ DOMAIN list = 1 .. n
  <2>1. DOMAIN list = 1 .. n
    BY <1>9
  <2>2. list \in [1 .. n -> [company : Company, score : 0 .. 100]]
    BY <1>11, <2>1
  <2> HIDE DEF list
  <2> DEFINE R == [company : Company, score : 0 .. 100]
  <2>3. list \in [1 .. n -> R]
    BY <2>2
  <2> HIDE DEF R, n
  <2>4. list \in Seq(R)
    BY <1>5, <2>3
  <2> QED  BY <2>1, <2>4 DEF R
<1> HIDE DEF list
<1>13. \A j, k \in 1 .. n : j < k => list[j].score >= list[k].score /\ list[j].company # list[k].company
  <2> SUFFICES ASSUME NEW j \in 1 .. n, NEW k \in 1 .. n, j < k
               PROVE  list[j].score >= list[k].score /\ list[j].company # list[k].company
    OBVIOUS
  <2>1. Score(enriched[r[j]]) \in Nat /\ Score(enriched[r[k]]) \in Nat
    <3>1. r[j] \in D /\ r[k] \in D
      BY <1>9
    <3>2. Score(enriched[r[j]]) \in 0 .. 100 /\ Score(enriched[r[k]]) \in 0 .. 100
      BY <1>3, <3>1
    <3> QED  BY <3>2
  <2>2. r[j] # r[k]
    BY <1>8, <1>9 DEF IsInjective
  <2>3. Score(enriched[r[j]]) >= Score(enriched[r[k]])
    BY <1>8, <1>9, <2>1
  <2>4. /\ list[j].score = Score(enriched[r[j]]) /\ list[j].company = r[j]
        /\ list[k].score = Score(enriched[r[k]]) /\ list[k].company = r[k]
    <3>1. list[j] = [company |-> r[j], score |-> Score(enriched[r[j]])]
      BY <1>10
    <3>2. list[k] = [company |-> r[k], score |-> Score(enriched[r[k]])]
      BY <1>10
    <3> QED  BY <3>1, <3>2
  <2> QED  BY <2>2, <2>3, <2>4
<1> QED  BY <1>12, <1>13 DEF IsRanking, list, r

Rankings == {r \in Seq([company : Company, score : 0 .. 100]) : IsRanking(r)}
Documents == [status : {"pending", "running", "complete", "failed"}, ranked : Rankings]
ScanTypes == scans \in Seq(Documents) /\ lostScans \subseteq DOMAIN scans

LEMMA StatusChanges ==
    ASSUME ScanTypes, NEW i \in DOMAIN scans, NEW d \in Documents
    PROVE  /\ [scans EXCEPT ![i] = d] \in Seq(Documents)
           /\ DOMAIN [scans EXCEPT ![i] = d] = DOMAIN scans
           /\ \A s \in {"pending", "running", "complete", "failed"} :
                 [scans[i] EXCEPT !.status = s] \in Documents
<1>1. i \in 1 .. Len(scans) /\ scans[i] \in Documents
  BY DEF ScanTypes
<1> QED  BY <1>1, ExceptSeq DEF ScanTypes, Documents

LEMMA ScanIsClaimed == ASSUME ScanTypes, PendingScans # {}, ClaimScan PROVE ScanTypes'
<1> DEFINE i == Min(PendingScans)
<1>1. PendingScans \subseteq DOMAIN scans /\ PendingScans \subseteq Nat
  BY DEF PendingScans, ScanTypes
<1>2. i \in DOMAIN scans
  BY <1>1, Smallest
<1> HIDE DEF i
<1> DEFINE d == [scans[i] EXCEPT !.status = "running"]
<1>3. scans' = [scans EXCEPT ![i] = d] /\ lostScans' = lostScans
  BY DEF ClaimScan, i
<1>4. scans[i] \in Documents
  BY <1>2 DEF ScanTypes
<1>5. d \in Documents
  BY <1>4 DEF Documents
<1> HIDE DEF d
<1> QED  BY <1>2, <1>3, <1>5, StatusChanges DEF ScanTypes

LEMMA ScanIsFinished == ASSUME ScanTypes, FinishScan PROVE ScanTypes'
<1>0. lostScans' = lostScans
  BY DEF FinishScan
<1>1. PICK i \in RunningScans \ lostScans :
          \/ scans' = [scans EXCEPT ![i].status = "failed"]
          \/ \E calendar \in SUBSET Company : \E done \in SUBSET Pool(calendar) :
                \E enriched \in [done -> Found] :
                   LET r == Ranked(enriched) IN
                   scans' = [scans EXCEPT ![i] =
                       [status |-> "complete",
                        ranked |-> [k \in DOMAIN r |-> [company |-> r[k],
                                                        score |-> Score(enriched[r[k]])]]]]
  BY DEF FinishScan
<1>2. i \in DOMAIN scans /\ scans[i] \in Documents
  BY DEF RunningScans, ScanTypes
<1>3. ASSUME NEW d \in Documents, scans' = [scans EXCEPT ![i] = d] PROVE ScanTypes'
  BY <1>0, <1>2, <1>3, StatusChanges DEF ScanTypes
<1>4. CASE scans' = [scans EXCEPT ![i].status = "failed"]
  <2> DEFINE d == [scans[i] EXCEPT !.status = "failed"]
  <2>1. d \in Documents
    BY <1>2 DEF Documents
  <2> QED  BY <1>3, <1>4, <2>1
<1>5. ASSUME NEW calendar \in SUBSET Company, NEW done \in SUBSET Pool(calendar),
             NEW enriched \in [done -> Found],
             LET r == Ranked(enriched) IN
             scans' = [scans EXCEPT ![i] =
                 [status |-> "complete",
                  ranked |-> [k \in DOMAIN r |-> [company |-> r[k],
                                                  score |-> Score(enriched[r[k]])]]]]
      PROVE  ScanTypes'
  <2> DEFINE r == Ranked(enriched)
             list == [k \in DOMAIN r |-> [company |-> r[k], score |-> Score(enriched[r[k]])]]
  <2>1. done \in SUBSET Company
    BY DEF Pool
  <2>2. IsRanking(list)
    BY <2>1, RankedIsARanking
  <2>3. scans' = [scans EXCEPT ![i] = [status |-> "complete", ranked |-> list]]
    BY <1>5
  <2> HIDE DEF list
  <2>4. [status |-> "complete", ranked |-> list] \in Documents
    BY <2>2 DEF Documents, Rankings, IsRanking
  <2> QED  BY <1>3, <2>3, <2>4
<1> QED  BY <1>1, <1>4, <1>5

LEMMA ScanIsRequested == ASSUME ScanTypes, RequestScan PROVE ScanTypes'
<1>1. [status |-> "pending", ranked |-> <<>>] \in Documents
  BY DEF Documents, Rankings, IsRanking
<1> DEFINE d == [status |-> "pending", ranked |-> <<>>]
<1> HIDE DEF d
<1>2. scans' = Append(scans, d) /\ lostScans' = lostScans
  BY DEF RequestScan, d
<1>3. scans' \in Seq(Documents) /\ DOMAIN scans \subseteq DOMAIN scans'
  BY <1>1, <1>2 DEF ScanTypes, d
<1> QED  BY <1>2, <1>3 DEF ScanTypes

LEMMA StepScans ==
    ASSUME ScanTypes, [Next]_vars
    PROVE  ScanTypes'
<1>1. CASE ScanTurn
  BY <1>1, ScanIsClaimed DEF ScanTurn, scanVars, ScanTypes
<1>2. CASE ScanEnd
  BY <1>2, ScanIsFinished DEF ScanEnd
<1>3. CASE AskScan
  BY <1>3, ScanIsRequested DEF AskScan
<1>4. CASE Die
  BY <1>4 DEF Die, LoseScan, ScanTypes, RunningScans
<1>5. CASE UNCHANGED scanVars
  BY <1>5 DEF scanVars, ScanTypes
<1>6. CASE \E ok \in BOOLEAN : FlowTurn(ok) \/ BreadthTurn(ok) \/ EconomicsTurn(ok)
  BY <1>5, <1>6 DEF FlowTurn, BreadthTurn, EconomicsTurn
<1>7. CASE MacroTurn \/ FredTurn \/ FredRaises \/ ReadsTurn
  BY <1>5, <1>7 DEF MacroTurn, FredTurn, FredRaises, ReadsTurn
<1>8. CASE JobTurn \/ Pass \/ Tick \/ Provider \/ AskFlow \/ AskJob
  BY <1>5, <1>8 DEF JobTurn, Pass, Tick, Provider, AskFlow, AskJob
<1>9. CASE UNCHANGED vars
  BY <1>5, <1>9 DEF vars
<1> QED  BY <1>1, <1>2, <1>3, <1>4, <1>6, <1>7, <1>8, <1>9 DEF Next, Turn, Succeeds, Fails

-----------------------------------------------------------------------------
(***************************************************************************)
(* The types of the loop, and of what its workers keep.                    *)
(***************************************************************************)
Pcs == {"flow", "breadth", "macro", "fred", "curve", "reads", "economics", "scan", "scanning", "job"}
LoopTypes ==
    /\ focus \in Focus
    /\ turn \in [pc : Pcs, now : DayHours .. MaxHour, due : SUBSET Sector]
    /\ lastRun \in [Daily -> 0 .. MaxHour] /\ manual \in BOOLEAN
    /\ job \in {"none", "pending", "done"} /\ deaths \in 0 .. MaxDeaths
ReadTypes == reads \in [Sector -> 0 .. MaxHour] /\ swept \in 0 .. MaxHour
IndicatorTypes ==
    /\ prints \in [Series -> 0 .. Day(MaxHour)]
    /\ readings \in [Series -> SUBSET (1 .. Day(MaxHour))]
Loop == ClockTypes /\ LoopTypes /\ ReadTypes /\ IndicatorTypes

LEMMA TurnsGoOn ==
    ASSUME Loop, NEW pc \in Pcs
    PROVE  [turn EXCEPT !.pc = pc] \in [pc : Pcs, now : DayHours .. MaxHour, due : SUBSET Sector]
  BY DEF Loop, LoopTypes

LEMMA LoopTurns ==
    ASSUME Loop, Turn \/ Die
    PROVE  LoopTypes'
<1> USE HoursAreNatural DEF Loop, ClockTypes, Goto, At, Pcs
<1>1. turn.now \in 0 .. MaxHour /\ hour \in 0 .. MaxHour
  BY DEF LoopTypes
<1>2. /\ \A w \in Daily, ok \in BOOLEAN, h \in 0 .. MaxHour :
            Record(w, ok, h) => lastRun' \in [Daily -> 0 .. MaxHour]
      /\ lastRun \in [Daily -> 0 .. MaxHour]
  BY DEF Record, LoopTypes
<1>3. ASSUME NEW ok \in BOOLEAN, FlowTurn(ok) PROVE LoopTypes'
  <2>1. lastRun' \in [Daily -> 0 .. MaxHour]
    BY <1>1, <1>2, <1>3 DEF FlowTurn, Daily
  <2> QED  BY <1>3, <2>1 DEF FlowTurn, LoopTypes
<1>4. ASSUME NEW ok \in BOOLEAN, BreadthTurn(ok) PROVE LoopTypes'
  <2>1. lastRun' \in [Daily -> 0 .. MaxHour]
    BY <1>1, <1>2, <1>4 DEF BreadthTurn, Daily
  <2> QED  BY <1>4, <2>1, TurnsGoOn DEF BreadthTurn, LoopTypes
<1>5. ASSUME NEW ok \in BOOLEAN, EconomicsTurn(ok) PROVE LoopTypes'
  <2>1. lastRun' \in [Daily -> 0 .. MaxHour]
    BY <1>1, <1>2, <1>5 DEF EconomicsTurn, Daily
  <2> QED  BY <1>5, <2>1, TurnsGoOn DEF EconomicsTurn, LoopTypes
<1>6. CASE MacroTurn
  <2>1. DueSectors(turn.now) \in SUBSET Sector
    BY DEF DueSectors
  <2>2. turn' \in [pc : Pcs, now : DayHours .. MaxHour, due : SUBSET Sector]
    <3>1. [turn EXCEPT !.pc = "fred", !.due = DueSectors(turn.now)]
              \in [pc : Pcs, now : DayHours .. MaxHour, due : SUBSET Sector]
      BY <2>1 DEF LoopTypes
    <3>2. \/ turn' = [turn EXCEPT !.pc = "economics"]
          \/ turn' = [turn EXCEPT !.pc = "fred", !.due = DueSectors(turn.now)]
      BY <1>6 DEF MacroTurn
    <3> QED  BY <3>1, <3>2, TurnsGoOn
  <2> QED  BY <1>6, <2>2 DEF MacroTurn, LoopTypes, loopVars
<1>7. CASE ReadsTurn
  BY <1>7 DEF ReadsTurn, LoopTypes, loopVars
<1>8. CASE FredTurn \/ FredRaises
  BY <1>8, TurnsGoOn DEF FredTurn, FredRaises, LoopTypes, loopVars
<1>9. CASE ScanTurn \/ ScanEnd
  BY <1>9, TurnsGoOn DEF ScanTurn, ScanEnd, LoopTypes, loopVars
<1>10. CASE JobTurn
  BY <1>10, TurnsGoOn DEF JobTurn, LoopTypes
<1>11. CASE Pass
  BY <1>11, TurnsGoOn DEF Pass, SkipFlow, Skip, LoopTypes, loopVars
<1>12. CASE Die
  BY <1>12, TurnsGoOn, WorkerAssumption DEF Die, LoopTypes, loopVars
<1> QED
  BY <1>3, <1>4, <1>5, <1>6, <1>7, <1>8, <1>9, <1>10, <1>11, <1>12 DEF Turn, Succeeds, Fails

LEMMA OthersLeaveTheLoop ==
    ASSUME Loop, Tick \/ Provider \/ AskScan \/ AskFlow \/ AskJob \/ UNCHANGED vars
    PROVE  LoopTypes'
<1> USE DEF Loop, LoopTypes, loopVars
<1>1. CASE Tick \/ Provider \/ AskScan
  BY <1>1 DEF Tick, Provider, AskScan
<1>2. CASE AskFlow \/ AskJob
  BY <1>2 DEF AskFlow, AskJob
<1>3. CASE UNCHANGED vars
  BY <1>3 DEF vars
<1> QED  BY <1>1, <1>2, <1>3

LEMMA StepReads ==
    ASSUME Loop, [Next]_vars
    PROVE  ReadTypes'
<1>1. turn.now \in 0 .. MaxHour /\ hour \in 0 .. MaxHour
  BY HoursAreNatural DEF Loop, LoopTypes, ClockTypes
<1> USE DEF Loop, ReadTypes
<1>2. CASE MacroTurn
  BY <1>1, <1>2 DEF MacroTurn
<1>3. CASE ReadsTurn
  BY <1>1, <1>3 DEF ReadsTurn, RefreshReads
<1>4. CASE Die
  BY <1>4, HoursAreNatural DEF Die
<1>5. CASE UNCHANGED <<reads, swept>>
  BY <1>5
<1>6. CASE \E ok \in BOOLEAN : FlowTurn(ok) \/ BreadthTurn(ok) \/ EconomicsTurn(ok)
  BY <1>5, <1>6 DEF FlowTurn, BreadthTurn, EconomicsTurn, macroVars
<1>7. CASE FredTurn \/ FredRaises \/ ScanTurn \/ ScanEnd \/ JobTurn \/ Pass
  BY <1>5, <1>7 DEF FredTurn, FredRaises, ScanTurn, ScanEnd, JobTurn, Pass, macroVars
<1>8. CASE Tick \/ Provider \/ AskScan \/ AskFlow \/ AskJob
  BY <1>5, <1>8 DEF Tick, Provider, AskScan, AskFlow, AskJob, macroVars
<1>9. CASE UNCHANGED vars
  BY <1>5, <1>9 DEF vars, macroVars
<1> QED  BY <1>2, <1>3, <1>4, <1>6, <1>7, <1>8, <1>9 DEF Next, Turn, Succeeds, Fails

LEMMA StepPrints ==
    ASSUME Loop, [Next]_vars
    PROVE  IndicatorTypes'
<1> DEFINE last == Day(MaxHour)
<1>1. Today \in 0 .. last /\ Today \in Nat
  BY TodayIsADay DEF Loop
<1>2. prints \in [Series -> 0 .. last] /\ readings \in [Series -> SUBSET (1 .. last)]
  BY DEF Loop, IndicatorTypes
<1>3. IndicatorTypes' <=> prints' \in [Series -> 0 .. last] /\ readings' \in [Series -> SUBSET (1 .. last)]
  BY DEF IndicatorTypes, Day
<1> HIDE DEF last
<1>4. CASE \E ok \in BOOLEAN : EconomicsTurn(ok) /\ ScheduledDue("economics", turn.now)
  <2>1. prints' = prints
    BY <1>4 DEF EconomicsTurn, economicsMarket
  <2>2. readings' = readings \/ \E failing \in SUBSET Series : PullIndicators(failing)
    BY <1>4 DEF EconomicsTurn, EconomicsPull, EconomicsCrash
  <2>3. ASSUME NEW failing \in SUBSET Series, PullIndicators(failing)
        PROVE  readings' \in [Series -> SUBSET (1 .. last)]
    <3>1. \A s \in Series : prints[s] \in 0 .. last /\ readings[s] \in SUBSET (1 .. last)
      BY <1>2
    <3>2. \A s \in Series : prints[s] # 0 => readings[s] \cup {prints[s]} \in SUBSET (1 .. last)
      BY <3>1
    <3> QED  BY <2>3, <3>1, <3>2 DEF PullIndicators
  <2> QED  BY <1>2, <1>3, <2>1, <2>2, <2>3
<1>5. CASE Provider
  <2>1. readings' = readings
    BY <1>5 DEF Provider, economicsStore
  <2>2. prints' = prints \/ PrintSeries(Today)
    BY <1>5 DEF Provider, PublishSession, ReportEvent, MoveEvent
  <2>3. prints' \in [Series -> 0 .. last]
    BY <1>1, <1>2, <2>2 DEF PrintSeries
  <2> QED  BY <1>2, <1>3, <2>1, <2>3
<1>6. CASE UNCHANGED <<economicsMarket, economicsStore>>
  BY <1>2, <1>3, <1>6 DEF economicsMarket, economicsStore
<1> QED  BY <1>4, <1>5, <1>6, OnlyThePullWrites DEF Tick

LEMMA StepLoops ==
    ASSUME Loop, [Next]_vars
    PROVE  Loop'
<1>1. LoopTypes'
  BY LoopTurns, OthersLeaveTheLoop DEF Next
<1>2. ClockTypes'
  <2>1. CASE Tick
    BY <2>1, HoursAreNatural DEF Tick, Loop, ClockTypes
  <2>2. CASE hour' = hour
    BY <2>2 DEF Loop, ClockTypes
  <2> QED  BY <2>1, <2>2, OnlyThePullWrites DEF EconomicsTurn, Provider
<1> QED  BY <1>1, <1>2, StepReads, StepPrints DEF Loop

LEMMA StartsTyped == ASSUME Init PROVE Loop /\ ScanTypes
<1>1. Loop
  <2>1. Day(MaxHour) \in Nat
    BY DaysGrow, WorkerAssumption
  <2>2. IndicatorTypes
    BY <2>1 DEF Init, EconomicsInit, IndicatorTypes
  <2>3. ClockTypes /\ ReadTypes
    BY HoursAreNatural DEF Init, MacroInit, ClockTypes, ReadTypes
  <2>4. LoopTypes
    <3>1. /\ focus \in Focus /\ turn = [pc |-> "flow", now |-> DayHours, due |-> {}]
          /\ lastRun = [w \in Daily |-> 0] /\ manual = FALSE /\ job = "none" /\ deaths = 0
      BY DEF Init
    <3>2. turn \in [pc : Pcs, now : DayHours .. MaxHour, due : SUBSET Sector]
      BY <3>1, HoursAreNatural DEF Pcs
    <3>3. lastRun \in [Daily -> 0 .. MaxHour]
      BY <3>1, HoursAreNatural
    <3>4. 0 \in 0 .. MaxDeaths
      BY WorkerAssumption
    <3> QED  BY <3>1, <3>2, <3>3, <3>4 DEF LoopTypes
  <2> QED  BY <2>2, <2>3, <2>4 DEF Loop
<1>2. ScanTypes
  BY DEF Init, ScansInit, ScanTypes
<1> QED  BY <1>1, <1>2

\* What the loop and its workers keep has its type; above all, a scan's list is
\* a ranking, whatever companies were enriched and whatever was found of them
\* (earnings_scanner.run_scan).
THEOREM TypesHold == Spec => []TypeOK
<1>1. Init => Loop /\ ScanTypes
  BY StartsTyped
<1>2. Loop /\ ScanTypes /\ [Next]_vars => Loop' /\ ScanTypes'
  BY StepLoops, StepScans
<1>3. Stored /\ Listed /\ Fred /\ Loop /\ ScanTypes => TypeOK
  <2> SUFFICES ASSUME Stored, Listed, Fred, Loop, ScanTypes PROVE TypeOK
    OBVIOUS
  <2>1. EconomicsTypeOK(Day(MaxHour))
    BY DEF Stored, Listed, Loop, TreasuryTypes, Known, MetaTypes, EventTypes, IndicatorTypes, EconomicsTypeOK
  <2>2. MacroTypeOK(MaxHour)
    BY DEF Fred, FredTypes, Loop, ReadTypes, MacroTypeOK
  <2>3. ScansTypeOK
    <3>1. \A i \in DOMAIN scans : scans[i] \in Documents
      BY DEF ScanTypes
    <3> QED  BY <3>1 DEF ScanTypes, ScansTypeOK, Documents, Rankings
  <2> QED  BY <2>1, <2>2, <2>3 DEF Loop, LoopTypes, ClockTypes, Pcs, TypeOK
<1> QED  BY <1>1, <1>2, <1>3, StoredHolds, ListedHolds, FredHolds, PTL DEF Spec
=============================================================================
