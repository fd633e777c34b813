-------------------------------- MODULE Macro --------------------------------
(***************************************************************************)
(* The macro reads: FRED series behind one cache document                  *)
(* (agent-runner/tools/macro.py) and one read per sector that is due       *)
(* (macro_worker.py, agents/macro_analyst.py).  The series are two groups: *)
(* the yield-curve ones, which are asked for on their own as well, and the *)
(* rest.  What a read says is left out.                                    *)
(***************************************************************************)
EXTENDS Integers, FiniteSetsExt

CONSTANTS Sector,       \* the sectors of the registry
          FredHours,    \* macro.CACHE_HOURS
          ReadHours     \* macro_analyst.CACHE_DAYS

ASSUME MacroAssumption == FredHours \in Nat \ {0} /\ ReadHours \in Nat

VARIABLES fred,         \* macro_cache: hour of the document and of each group
          reads,        \* macro_analysis_cache: hour of each sector's read
          swept         \* _last_sweep_at, in the process; 0 is never

macroVars == <<fred, reads, swept>>

Group == {"curve", "rest"}

MacroInit ==
    /\ fred = [at |-> 0, of |-> [g \in Group |-> 0]]
    /\ reads = [s \in Sector |-> 0]
    /\ swept = 0

\* SWEEP_THROTTLE is an hour, which is the unit of the clock.
Throttled(now) == swept > 0 /\ now - swept < 1

\* _active_sectors that are _due.
DueSectors(now) == {s \in Sector : reads[s] = 0 \/ reads[s] < now - ReadHours}

\* What a call finds: of a document that has expired, nothing.
Held(at) == IF fred.at > 0 /\ at - fred.at < FredHours
            THEN fred.of ELSE [g \in Group |-> 0]
MissingGroups(groups, at) == {g \in groups : Held(at)[g] = 0}

\* Mutant: an expired document is completed too.
GetMacroDataKeep(groups, at) ==
    fred' = IF fred.at > 0 /\ at - fred.at < FredHours THEN fred
            ELSE [at |-> at, of |-> [g \in Group |-> IF fred.of[g] > 0 THEN fred.of[g] ELSE at]]

\* get_macro_data, answered: what is missing is fetched and the document is
\* replaced, its hour with it.
GetMacroData(groups, at) ==
    fred' = IF MissingGroups(groups, at) = {} THEN fred
            ELSE [at |-> at, of |-> [g \in Group |->
                     IF g \in MissingGroups(groups, at) THEN at ELSE Held(at)[g]]]

\* macro_analyst.run for each sector: those that fail are skipped.
RefreshReads(due, at) ==
    \E done \in SUBSET due : reads' = [s \in Sector |-> IF s \in done THEN at ELSE reads[s]]

MacroTypeOK(lastHour) ==
    /\ fred \in [at : 0 .. lastHour, of : [Group -> 0 .. lastHour]]
    /\ reads \in [Sector -> 0 .. lastHour] /\ swept \in 0 .. lastHour

\* A document renewed for its missing series holds none that was fetched a
\* whole window before it: nothing is served at twice CACHE_HOURS.
FredWithinTwoWindows ==
    \A g \in Group : fred.of[g] > 0 => fred.at - fred.of[g] < FredHours
=============================================================================
