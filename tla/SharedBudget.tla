----------------------------- MODULE SharedBudget -----------------------------
(***************************************************************************)
(* The two services side by side: the pulls of the agent runner and the    *)
(* requests of the backend that fetch for themselves, over one budget and  *)
(* one database.  The clock has days for the pulls and hours for the pages.*)
(***************************************************************************)
EXTENDS CrewPull, PageCaches

CONSTANTS DayHours,     \* the hours of a day
          LastHour      \* bound: the hour at which a behaviour of pages stops

ASSUME HoursAssumption == DayHours \in Nat \ {0} /\ LastHour \in Nat

VARIABLE hour           \* of today

allVars == <<vars, pageVars, hour>>

PageFocus == focus \cap PageName
Now == today * DayHours + hour

InitBoth == Init /\ PagesInit(DayHours - 1) /\ hour = 0

PullStep == CrewStep /\ NoneGiven /\ UNCHANGED <<cache, changes, request, hour>>

PagesStep ==
    /\ PageFocus # {}
    /\ PageStep(PageFocus, Now)
    /\ UNCHANGED <<pullVars, hour>>

PagesAllowTime == PageFocus # {} => Now < LastHour /\ OneTurn(Now)

NextHour ==
    /\ PageFocus # {} /\ PagesAllowTime
    /\ hour < DayHours - 1 /\ hour' = hour + 1
    /\ NoneGiven /\ UNCHANGED <<vars, cache, changes, request>>

Midnight ==
    /\ NextDay /\ hour' = 0 /\ PagesAllowTime
    /\ PageFocus # {} => hour = DayHours - 1
    /\ NoneGiven /\ UNCHANGED <<cache, changes, request>>

NextBoth == PullStep \/ PagesStep \/ NextHour \/ Midnight

SpecBoth == InitBoth /\ [][NextBoth]_allVars

TypeOKBoth == TypeOK /\ PagesTypeOK((MaxDay + 1) * DayHours) /\ hour \in 0 .. DayHours - 1
=============================================================================
