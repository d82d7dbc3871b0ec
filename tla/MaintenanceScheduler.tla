------------------------ MODULE MaintenanceScheduler ------------------------
(***************************************************************************)
(* The maintenance scheduler (src/maintenance/scheduler.ts) under the      *)
(* plugin's timer, vault events, settings and scans (src/main.ts).         *)
(*                                                                         *)
(* Time is counted in minutes, the period of the plugin's timer; events,   *)
(* settings and the ends of scans come at any moment of a minute, before   *)
(* or after its timer tick.  An undefined timestamp is Never.  The         *)
(* schedule's nextRunAt is displayed and decides nothing; it is left out,  *)
(* and so are the description of the last scan plan and the stored         *)
(* scanInProgress, which every reader overwrites with activeScan.          *)
(*                                                                         *)
(* Definitions commented "Faulty:" are mistakes the code does not make;    *)
(* each breaks a property when it replaces the definition it stands before.*)
(***************************************************************************)
EXTENDS Naturals, FiniteSets

CONSTANTS
  Hour,             \* length of a budget window
  IntervalMinutes,
  DebounceMinutes,
  MaxRunsPerHour,
  MaxTime,          \* bound on the clock
  Never             \* undefined

ASSUME ScheduleAssumption ==
  /\ Hour \in Nat \ {0}
  /\ IntervalMinutes \in Nat \ {0}
  /\ DebounceMinutes \in Nat \ {0}
  /\ MaxRunsPerHour \in Nat \ {0}
  /\ MaxTime \in Nat
  /\ Never \notin Nat

VARIABLES
  now,             \* Date.now()
  ticked,          \* the timer of this minute has fired
  enabled,         \* settings: the schedule is switched on,
  paused,          \*   not paused,
  eventTriggered,  \*   and listens to vault events
  lastRunAt,
  pendingEventAt,
  windowStartedAt,
  runsInWindow,
  activeScan,      \* a scan, scheduled or not, is running
  runs,            \* history: when scheduled runs started
  ableSince        \* history: since when nothing but time and budget has
                   \* stood in the way of a run, or Never

settings == <<enabled, paused, eventTriggered>>
schedule == <<lastRunAt, pendingEventAt, windowStartedAt, runsInWindow>>
vars == <<now, ticked, settings, schedule, activeScan, runs, ableSince>>

-----------------------------------------------------------------------------
(* decideMaintenanceRun.                                                   *)

\* Faulty: the budget is compared once the run has been counted.
UnderBudgetLate ==
  \/ windowStartedAt # Never /\ now >= windowStartedAt + Hour
  \/ runsInWindow <= MaxRunsPerHour

\* Faulty: the interval ends a tick late.
IntervalDueLate == lastRunAt # Never /\ now > lastRunAt + IntervalMinutes

\* Faulty: an event counts only after a first run.
EventDueAfterRun ==
  lastRunAt # Never /\ pendingEventAt # Never /\ now >= pendingEventAt + DebounceMinutes

WindowOver  == windowStartedAt # Never /\ now >= windowStartedAt + Hour
UnderBudget == WindowOver \/ runsInWindow < MaxRunsPerHour

\* Without an earlier run the interval counts from now, so it never elapses.
IntervalDue == lastRunAt # Never /\ now >= lastRunAt + IntervalMinutes
EventDue    == pendingEventAt # Never /\ now >= pendingEventAt + DebounceMinutes

Eligible ==
  /\ enabled
  /\ ~paused
  /\ ~activeScan
  /\ UnderBudget
  /\ IntervalDue \/ EventDue

Able == enabled /\ ~paused /\ ~activeScan

KeepHistory ==
  ableSince' = IF Able' THEN (IF ableSince = Never THEN now' ELSE ableSince) ELSE Never

-----------------------------------------------------------------------------
Init ==
  /\ now = 1
  /\ ticked = FALSE
  /\ enabled \in BOOLEAN
  /\ paused \in BOOLEAN
  /\ eventTriggered \in BOOLEAN
  /\ lastRunAt = Never
  /\ pendingEventAt = Never
  /\ windowStartedAt = Never
  /\ runsInWindow = 0
  /\ activeScan = FALSE
  /\ runs = {}
  /\ ableSince = IF Able THEN now ELSE Never

\* recordMaintenanceEvent: the last event of a burst counts.
VaultEvent ==
  /\ eventTriggered
  /\ pendingEventAt' = now
  /\ UNCHANGED <<now, ticked, settings, lastRunAt, windowStartedAt, runsInWindow,
                 activeScan, runs, ableSince>>

\* Faulty: the counter counts what is left, in the code that counts runs.
StartRunCountingDown ==
  /\ lastRunAt' = now
  /\ pendingEventAt' = Never
  /\ runsInWindow' = runsInWindow - 1
  /\ windowStartedAt' = now
  /\ runs' = runs \cup {now}

\* nextScheduleState for a run that starts: the pending event is served, and
\* the run counts in the open window or opens a new one.
StartRun ==
  /\ lastRunAt' = now
  /\ pendingEventAt' = Never
  /\ IF windowStartedAt # Never /\ ~WindowOver
     THEN runsInWindow' = runsInWindow + 1 /\ UNCHANGED windowStartedAt
     ELSE runsInWindow' = 1 /\ windowStartedAt' = now
  /\ runs' = runs \cup {now}

\* runMaintenanceTick.  The scan it starts may fail at once, when the selected
\* provider may not be used or the plugin has no database.
Tick ==
  /\ ~ticked
  /\ ticked' = TRUE
  /\ IF Eligible
     THEN StartRun /\ activeScan' \in BOOLEAN
     ELSE UNCHANGED <<schedule, activeScan, runs>>
  /\ UNCHANGED <<now, settings>>
  /\ KeepHistory

\* A scan asked for by the user, on load, or to re-index after a repair; it
\* leaves the schedule alone.
OtherScan ==
  /\ ~activeScan
  /\ activeScan' = TRUE
  /\ UNCHANGED <<now, ticked, settings, schedule, runs>>
  /\ KeepHistory

\* A scan completes or fails; a failed scheduled run is not retried.
ScanEnds ==
  /\ activeScan
  /\ activeScan' = FALSE
  /\ UNCHANGED <<now, ticked, settings, schedule, runs>>
  /\ KeepHistory

SaveSettings ==
  /\ enabled' \in BOOLEAN
  /\ paused' \in BOOLEAN
  /\ eventTriggered' \in BOOLEAN
  /\ UNCHANGED <<now, ticked, schedule, activeScan, runs>>
  /\ KeepHistory

Minute ==
  /\ ticked
  /\ now < MaxTime
  /\ now' = now + 1
  /\ ticked' = FALSE
  /\ UNCHANGED <<settings, schedule, activeScan, runs, ableSince>>

Next == VaultEvent \/ Tick \/ OtherScan \/ ScanEnds \/ SaveSettings \/ Minute

Spec == Init /\ [][Next]_vars

-----------------------------------------------------------------------------
(* Properties.                                                             *)

Time == Nat \cup {Never}

\* Every variable stays in its domain; timestamps are not in the future.
TypeOK ==
  /\ now \in Nat
  /\ ticked \in BOOLEAN
  /\ enabled \in BOOLEAN /\ paused \in BOOLEAN /\ eventTriggered \in BOOLEAN
  /\ lastRunAt \in Time
  /\ pendingEventAt \in Time
  /\ windowStartedAt \in Time
  /\ activeScan \in BOOLEAN
  /\ ableSince \in Time
  /\ runsInWindow \in Nat
  /\ runs \in SUBSET (0..now)

RunsIn(from, to) == {r \in runs : from <= r /\ r < to}

\* What maxRunsPerHour bounds.  The budget is that of a window, and a window is
\* opened by a run: an hour may hold the end of one window, without the run that
\* opened it, and the beginning of the next, so twice the budget less one.
SlidingBudget ==
  \A t \in 0..now : Cardinality(RunsIn(t, t + Hour)) <= 2 * MaxRunsPerHour - 1

\* The budget of a window that is not over is used up.
UsedUp == runsInWindow >= MaxRunsPerHour /\ now <= windowStartedAt + Hour

\* An event that has been recorded is served: from the moment nothing stands
\* in the way it waits for the debounce or the budget window at most, whatever
\* was switched, paused, scanned or run in between.
EventServed ==
  ableSince # Never /\ pendingEventAt # Never =>
    \/ now <= ableSince + 1
    \/ now <= pendingEventAt + DebounceMinutes
    \/ UsedUp

\* Once there has been a scheduled run, the next comes within the interval,
\* or at the end of a used up window.
IntervalKept ==
  ableSince # Never /\ lastRunAt # Never =>
    \/ now <= ableSince + 1
    \/ now <= lastRunAt + IntervalMinutes
    \/ UsedUp

\* An enabled schedule runs: when nothing has stood in the way for longer than
\* the interval and a budget window, a scheduled run has taken place.
ScheduleRuns ==
  ableSince # Never /\ now > ableSince + IntervalMinutes + Hour + 1 => runs # {}
=============================================================================
