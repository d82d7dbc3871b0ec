--------------------- MODULE MaintenanceSchedulerProofs ---------------------
(***************************************************************************)
(* Theorems of MaintenanceScheduler, for every window, interval, debounce, *)
(* budget and clock.                                                       *)
(***************************************************************************)
EXTENDS MaintenanceScheduler, FiniteSetTheorems, TLAPS

-----------------------------------------------------------------------------
(* Promptness.                                                             *)

\* The order in which the timestamps were taken.
Order ==
  /\ lastRunAt = Never <=> windowStartedAt = Never
  /\ lastRunAt # Never => windowStartedAt <= lastRunAt /\ lastRunAt <= now
  /\ pendingEventAt # Never => pendingEventAt <= now
  /\ lastRunAt # Never /\ pendingEventAt # Never => lastRunAt <= pendingEventAt
  /\ windowStartedAt = Never => runsInWindow = 0
  /\ ableSince # Never <=> Able
  /\ ableSince # Never => ableSince <= now

\* How late an event or an interval may be served, after and before the tick of
\* the minute.
Prompt ==
  /\ Able /\ pendingEventAt # Never =>
       IF ticked
       THEN \/ now <= ableSince
            \/ now < pendingEventAt + DebounceMinutes
            \/ runsInWindow >= MaxRunsPerHour /\ now < windowStartedAt + Hour
       ELSE \/ now <= ableSince + 1
            \/ now <= pendingEventAt + DebounceMinutes
            \/ UsedUp
  /\ Able /\ lastRunAt # Never =>
       IF ticked
       THEN \/ now <= ableSince
            \/ now < lastRunAt + IntervalMinutes
            \/ runsInWindow >= MaxRunsPerHour /\ now < windowStartedAt + Hour
       ELSE \/ now <= ableSince + 1
            \/ now <= lastRunAt + IntervalMinutes
            \/ UsedUp

PromptInv == TypeOK /\ Order /\ Prompt

\* The scheduler starts with nothing to serve.
LEMMA PromptInit == Init => PromptInv
<1>. SUFFICES ASSUME Init PROVE PromptInv
  OBVIOUS
<1>1. /\ now = 1 /\ lastRunAt = Never /\ pendingEventAt = Never /\ windowStartedAt = Never
      /\ runsInWindow = 0 /\ runs = {} /\ Never \notin Nat
  BY ScheduleAssumption DEF Init
<1>2. Able => ableSince = 1
  BY <1>1 DEF Init
<1>3. ~Able => ableSince = Never
  BY DEF Init
<1>4. TypeOK
  <2>1. runs \in SUBSET (0..now)
    BY <1>1
  <2>2. ableSince \in Time
    BY <1>1, <1>2, <1>3 DEF Time
  <2>3. ticked \in BOOLEAN /\ activeScan \in BOOLEAN
    BY Zenon DEF Init
  <2>4. enabled \in BOOLEAN /\ paused \in BOOLEAN /\ eventTriggered \in BOOLEAN
    BY Zenon DEF Init
  <2>5. now \in Nat /\ runsInWindow \in Nat
    BY <1>1
  <2>. QED BY <1>1, <2>1, <2>2, <2>3, <2>4, <2>5, Zenon DEF TypeOK, Time
<1>5. Order
  BY <1>1, <1>2, <1>3 DEF Order
<1>6. Prompt
  BY <1>1 DEF Prompt
<1>. QED BY <1>4, <1>5, <1>6 DEF PromptInv

\* Every variable stays in its domain.
LEMMA TypeStep == TypeOK /\ [Next]_vars => TypeOK'
<1>. SUFFICES ASSUME TypeOK, [Next]_vars PROVE TypeOK'
  OBVIOUS
<1>0. /\ now \in Nat /\ runsInWindow \in Nat /\ runs \in SUBSET (0..now)
      /\ lastRunAt \in Time /\ pendingEventAt \in Time /\ windowStartedAt \in Time
      /\ ableSince \in Time
  BY DEF TypeOK
<1>1. now' \in Nat /\ (now' = now \/ now' = now + 1)
  BY <1>0 DEF Next, VaultEvent, Tick, OtherScan, ScanEnds, SaveSettings, Minute, vars
<1>2. runsInWindow' \in Nat
  BY <1>0 DEF Next, VaultEvent, Tick, StartRun, OtherScan, ScanEnds, SaveSettings, Minute, vars,
              schedule
<1>3. runs' \in SUBSET (0..now')
  <2>1. runs' = runs \/ (runs' = runs \cup {now} /\ now' = now)
    BY DEF Next, VaultEvent, Tick, StartRun, OtherScan, ScanEnds, SaveSettings, Minute, vars
  <2>2. ASSUME NEW r \in runs' PROVE r \in 0..now'
    <3>1. r \in runs \/ r = now
      BY <2>1, <2>2
    <3>2. runs \subseteq 0..now /\ now \in 0..now
      BY <1>0
    <3>3. r \in 0..now
      BY <3>1, <3>2
    <3>. QED BY <1>0, <1>1, <3>3
  <2>. QED BY <2>2
<1>4. lastRunAt' \in Time /\ pendingEventAt' \in Time /\ windowStartedAt' \in Time
  BY <1>0 DEF Next, VaultEvent, Tick, StartRun, OtherScan, ScanEnds, SaveSettings, Minute, vars,
              schedule, Time
<1>5. ableSince' \in Time
  <2>1. ableSince' = ableSince \/ KeepHistory
    BY DEF Next, VaultEvent, Tick, OtherScan, ScanEnds, SaveSettings, Minute, vars
  <2>. QED BY <1>0, <1>1, <2>1 DEF KeepHistory, Time
<1>6. ticked' \in BOOLEAN
  BY DEF Next, VaultEvent, Tick, OtherScan, ScanEnds, SaveSettings, Minute, vars, TypeOK
<1>7. activeScan' \in BOOLEAN
  BY DEF Next, VaultEvent, Tick, OtherScan, ScanEnds, SaveSettings, Minute, vars, TypeOK
<1>8. enabled' \in BOOLEAN /\ paused' \in BOOLEAN /\ eventTriggered' \in BOOLEAN
  BY DEF Next, VaultEvent, Tick, OtherScan, ScanEnds, SaveSettings, Minute, vars, settings, TypeOK
<1>. QED BY <1>1, <1>2, <1>3, <1>4, <1>5, <1>6, <1>7, <1>8, Zenon DEF TypeOK, Time

\* Every step keeps the order of the timestamps, and promptness.
LEMMA PromptStep == PromptInv /\ [Next]_vars => PromptInv'
<1>. SUFFICES ASSUME PromptInv, [Next]_vars PROVE Order' /\ Prompt'
  BY TypeStep DEF PromptInv
<1>0. /\ TypeOK /\ Order /\ Prompt
      /\ now \in Nat /\ Hour \in Nat /\ DebounceMinutes \in Nat /\ IntervalMinutes \in Nat
      /\ Hour > 0 /\ DebounceMinutes > 0 /\ IntervalMinutes > 0 /\ Never \notin Nat
      /\ lastRunAt \in Nat \cup {Never} /\ pendingEventAt \in Nat \cup {Never}
      /\ windowStartedAt \in Nat \cup {Never} /\ ableSince \in Nat \cup {Never}
      /\ runsInWindow \in Nat /\ MaxRunsPerHour \in Nat /\ MaxRunsPerHour > 0
  BY ScheduleAssumption DEF PromptInv, TypeOK, Time
\* Steps that leave the clock and the schedule alone.
<1>1. ASSUME UNCHANGED <<now, ticked, lastRunAt, pendingEventAt, windowStartedAt, runsInWindow>>,
             KeepHistory
      PROVE  Order' /\ Prompt'
  <2>1. CASE Able'
    <3>1. ableSince' = (IF ableSince = Never THEN now ELSE ableSince)
      BY <1>1, <2>1 DEF KeepHistory
    <3>2. Order'
      BY <1>0, <1>1, <2>1, <3>1 DEF Order
    <3>3. CASE Able
      <4>1. ableSince' = ableSince
        BY <1>0, <3>1, <3>3 DEF Order
      <4>. QED BY <1>0, <1>1, <3>2, <3>3, <4>1 DEF Prompt, UsedUp
    <3>4. CASE ~Able
      <4>1. ableSince' = now
        BY <1>0, <3>1, <3>4 DEF Order
      <4>. QED BY <1>0, <1>1, <3>2, <4>1 DEF Prompt, UsedUp
    <3>. QED BY <3>3, <3>4
  <2>2. CASE ~Able'
    <3>1. ableSince' = Never
      BY <1>1, <2>2 DEF KeepHistory
    <3>. QED BY <1>0, <1>1, <2>2, <3>1 DEF Order, Prompt, UsedUp
  <2>. QED BY <2>1, <2>2
\* Steps that leave the switches and the running scan alone.
<1>2. ASSUME UNCHANGED <<settings, activeScan, ableSince>>
      PROVE  Able' <=> Able
  BY <1>2 DEF settings, Able
<1>3. CASE VaultEvent
  <2>1. Able' <=> Able
    BY <1>2, <1>3 DEF VaultEvent
  <2>. QED BY <1>0, <1>3, <2>1 DEF VaultEvent, Order, Prompt, UsedUp
<1>4. CASE Tick
  <2>1. now' = now /\ ticked' = TRUE /\ ~ticked /\ KeepHistory
    BY <1>4 DEF Tick
  <2>2. Able' => ableSince' \in Nat /\ ableSince' <= now
    BY <1>0, <2>1 DEF KeepHistory, Order
  <2>3. ~Able' => ableSince' = Never
    BY <2>1 DEF KeepHistory
  <2>4. CASE Eligible
    <3>1. /\ lastRunAt' = now /\ pendingEventAt' = Never
          /\ windowStartedAt' \in {now, windowStartedAt} /\ windowStartedAt' # Never
      BY <1>0, <1>4, <2>4 DEF Tick, StartRun
    <3>2. Order'
      BY <1>0, <2>1, <2>2, <2>3, <3>1 DEF Order
    <3>3. now' < lastRunAt' + IntervalMinutes
      BY <1>0, <2>1, <3>1
    <3>4. Prompt'
      BY <2>1, <3>1, <3>3 DEF Prompt
    <3>. QED BY <3>2, <3>4
  <2>5. CASE ~Eligible
    <3>1. UNCHANGED <<lastRunAt, pendingEventAt, windowStartedAt, runsInWindow>>
      BY <1>4, <2>5 DEF Tick, schedule
    <3>2. UNCHANGED <<settings, activeScan>>
      BY <1>4, <2>5 DEF Tick
    <3>3. Able' <=> Able
      BY <3>2 DEF Able, settings
    <3>4. ableSince' = ableSince
      BY <1>0, <2>1, <3>3 DEF KeepHistory, Order
    <3>5. Order'
      BY <1>0, <2>1, <3>1, <3>3, <3>4 DEF Order
    <3>6. Able => ~UnderBudget \/ (~IntervalDue /\ ~EventDue)
      BY <2>5 DEF Eligible, Able
    <3>7. Able /\ ~UnderBudget => /\ windowStartedAt # Never
                                    /\ now < windowStartedAt + Hour
                                    /\ runsInWindow >= MaxRunsPerHour
      <4>1. runsInWindow = 0 => runsInWindow < MaxRunsPerHour
        BY ScheduleAssumption
      <4>. QED BY <1>0, <4>1 DEF UnderBudget, WindowOver, Order
    <3>8. Able /\ pendingEventAt # Never =>
            \/ now < pendingEventAt + DebounceMinutes
            \/ runsInWindow >= MaxRunsPerHour /\ now < windowStartedAt + Hour
      BY <1>0, <3>6, <3>7 DEF EventDue, Order
    <3>9. Able /\ lastRunAt # Never =>
            \/ now < lastRunAt + IntervalMinutes
            \/ runsInWindow >= MaxRunsPerHour /\ now < windowStartedAt + Hour
      BY <1>0, <3>6, <3>7 DEF IntervalDue, Order
    <3>10. Prompt'
      BY <2>1, <3>1, <3>3, <3>4, <3>8, <3>9 DEF Prompt, UsedUp
    <3>. QED BY <3>5, <3>10
  <2>. QED BY <2>4, <2>5
<1>5. CASE OtherScan \/ ScanEnds \/ SaveSettings
  BY <1>1, <1>5 DEF OtherScan, ScanEnds, SaveSettings, schedule
<1>6. CASE Minute
  <2>1. Able' <=> Able
    BY <1>2, <1>6 DEF Minute
  <2>. QED BY <1>0, <1>6, <2>1 DEF Minute, schedule, Order, Prompt, UsedUp
<1>7. CASE UNCHANGED vars
  <2>1. Able' <=> Able
    BY <1>2, <1>7 DEF vars
  <2>. QED BY <1>0, <1>7, <2>1 DEF vars, schedule, Order, Prompt, UsedUp
<1>. QED BY <1>3, <1>4, <1>5, <1>6, <1>7 DEF Next

\* Events and intervals are served in time, in every schedule.
THEOREM Promptness == Spec => [](TypeOK /\ EventServed /\ IntervalKept)
<1>1. PromptInv => TypeOK /\ EventServed /\ IntervalKept
  <2>. SUFFICES ASSUME PromptInv PROVE EventServed /\ IntervalKept
    BY DEF PromptInv
  <2>1. now \in Nat /\ Hour \in Nat /\ DebounceMinutes \in Nat /\ IntervalMinutes \in Nat
    BY ScheduleAssumption DEF PromptInv, TypeOK
  <2>2. ableSince # Never => Able /\ ableSince \in Nat
    BY DEF PromptInv, TypeOK, Order, Time
  <2>3. /\ pendingEventAt \in Nat \cup {Never} /\ lastRunAt \in Nat \cup {Never}
        /\ windowStartedAt \in Nat \cup {Never} /\ runsInWindow \in Nat
        /\ MaxRunsPerHour \in Nat /\ MaxRunsPerHour > 0
    BY ScheduleAssumption DEF PromptInv, TypeOK, Time
  <2>. QED BY <2>1, <2>2, <2>3 DEF PromptInv, Prompt, EventServed, IntervalKept, UsedUp, Order
<1>. QED BY <1>1, PromptInit, PromptStep, PTL DEF Spec

\* The interval is kept: once the schedule can run, a run follows the last one
\* within the interval and a tick, unless the budget of the window is used up.
THEOREM IntervalSafe == Spec => []IntervalKept
<1>1. TypeOK /\ EventServed /\ IntervalKept => IntervalKept
  OBVIOUS
<1>. QED BY <1>1, Promptness, PTL

\* Every variable of the scheduler stays in its domain.
THEOREM ScheduleTypes == Spec => []TypeOK
<1>1. TypeOK /\ EventServed /\ IntervalKept => TypeOK
  OBVIOUS
<1>. QED BY <1>1, Promptness, PTL

-----------------------------------------------------------------------------
(* The budget.                                                             *)

SinceWindow == {r \in runs : windowStartedAt <= r}

\* What the counter counts, and what an hour that meets the open window may
\* hold of the runs before it.
Budget ==
  /\ ~ticked => \A r \in runs : r < now
  /\ windowStartedAt = Never => runs = {} /\ runsInWindow = 0
  /\ windowStartedAt # Never =>
       /\ windowStartedAt \in runs
       /\ Cardinality(SinceWindow) = runsInWindow
       /\ runsInWindow <= MaxRunsPerHour
       /\ \A t \in Nat :
            windowStartedAt < t + Hour =>
              Cardinality(RunsIn(t, windowStartedAt)) <= MaxRunsPerHour - 1
  /\ \A t \in Nat : Cardinality(RunsIn(t, t + Hour)) <= 2 * MaxRunsPerHour - 1

\* The history of runs is finite, and so are its parts.
LEMMA RunsFinite ==
  ASSUME TypeOK, NEW S \in SUBSET runs
  PROVE  IsFiniteSet(runs) /\ IsFiniteSet(S) /\ Cardinality(S) \in Nat
<1>1. now \in Nat /\ runs \in SUBSET (0..now)
  BY DEF TypeOK
<1>2. IsFiniteSet(0..now)
  BY <1>1, FS_Interval
<1>3. IsFiniteSet(runs)
  BY <1>1, <1>2, FS_Subset
<1>4. IsFiniteSet(S)
  BY <1>3, FS_Subset
<1>. QED BY <1>3, <1>4, FS_CardinalityType

\* A run in an open window, or one that opens the next, keeps within budget.
LEMMA StartRunKeepsBudget ==
  ASSUME TypeOK, TypeOK', Budget, ~ticked, ticked' = TRUE, UNCHANGED now, UnderBudget, StartRun
  PROVE  Budget'
<1>0. /\ now \in Nat /\ runs \in SUBSET (0..now) /\ windowStartedAt \in Nat \cup {Never}
      /\ runsInWindow \in Nat /\ Hour \in Nat /\ Hour > 0 /\ MaxRunsPerHour \in Nat
      /\ MaxRunsPerHour > 0 /\ Never \notin Nat
  BY ScheduleAssumption DEF TypeOK, Time
<1>1. runs' = runs \cup {now} /\ now' = now /\ now \notin runs /\ \A r \in runs : r < now
  BY <1>0 DEF StartRun, Budget
<1>5. \A r \in runs' : r \in Nat /\ r <= now
  BY <1>0, <1>1
<1>. DEFINE Hourful(t) == RunsIn(t, t + Hour)
<1>2. ASSUME NEW t \in Nat, ~(t <= now /\ now < t + Hour)
      PROVE  Cardinality(Hourful(t)') <= 2 * MaxRunsPerHour - 1
  <2>1. Hourful(t)' = Hourful(t)
    BY <1>0, <1>1, <1>2 DEF RunsIn
  <2>. QED BY <2>1 DEF Budget
<1>3. CASE windowStartedAt # Never /\ ~WindowOver
  <2>. DEFINE w == windowStartedAt
  <2>1. /\ w \in Nat /\ w \in runs /\ w <= now /\ now < w + Hour /\ w' = w
        /\ runsInWindow < MaxRunsPerHour /\ runsInWindow' = runsInWindow + 1
        /\ Cardinality(SinceWindow) = runsInWindow
    BY <1>0, <1>1, <1>3 DEF WindowOver, UnderBudget, StartRun, Budget
  <2>2. SinceWindow' = SinceWindow \cup {now} /\ now \notin SinceWindow
    BY <1>0, <1>1, <2>1 DEF SinceWindow
  <2>3. IsFiniteSet(SinceWindow)
    BY RunsFinite DEF SinceWindow
  <2>4. Cardinality(SinceWindow') = runsInWindow'
    BY <2>1, <2>2, <2>3, FS_AddElement
  <2>5. ASSUME NEW t \in Nat
        PROVE  RunsIn(t, w)' = RunsIn(t, w)
    BY <1>0, <1>1, <2>1 DEF RunsIn
  <2>6. ASSUME NEW t \in Nat, w < t + Hour
        PROVE  Cardinality(RunsIn(t, w)) <= MaxRunsPerHour - 1
    BY <1>3, <2>6 DEF Budget
  <2>7. ASSUME NEW t \in Nat, t <= now, now < t + Hour
        PROVE  Cardinality(Hourful(t)') <= 2 * MaxRunsPerHour - 1
    <3>1. Hourful(t)' \subseteq RunsIn(t, w) \cup SinceWindow'
      <4>. SUFFICES ASSUME NEW r \in Hourful(t)', r \notin SinceWindow'
                    PROVE  r \in RunsIn(t, w)
        OBVIOUS
      <4>1. r \in runs' /\ t <= r
        BY DEF RunsIn
      <4>2. r \in Nat /\ r # now /\ r < w
        BY <1>0, <1>1, <1>5, <2>1, <4>1 DEF SinceWindow
      <4>. QED BY <1>1, <4>1, <4>2 DEF RunsIn
    <3>2. IsFiniteSet(RunsIn(t, w)) /\ Cardinality(RunsIn(t, w)) \in Nat
      BY RunsFinite DEF RunsIn
    <3>3. IsFiniteSet(SinceWindow')
      BY <2>2, <2>3, FS_AddElement
    <3>4. /\ IsFiniteSet(RunsIn(t, w) \cup SinceWindow')
          /\ Cardinality(RunsIn(t, w) \cup SinceWindow')
               = Cardinality(RunsIn(t, w)) + Cardinality(SinceWindow')
                   - Cardinality(RunsIn(t, w) \cap SinceWindow')
      BY <3>2, <3>3, FS_Union
    <3>5. Cardinality(RunsIn(t, w) \cap SinceWindow') \in Nat
      <4>1. IsFiniteSet(RunsIn(t, w) \cap SinceWindow')
        BY <3>2, FS_Subset
      <4>. QED BY <4>1, FS_CardinalityType
    <3>6. /\ Cardinality(Hourful(t)') <= Cardinality(RunsIn(t, w) \cup SinceWindow')
          /\ IsFiniteSet(Hourful(t)')
      BY <3>1, <3>4, FS_Subset
    <3>7. Cardinality(Hourful(t)') \in Nat
      BY <3>6, FS_CardinalityType
    <3>8. Cardinality(RunsIn(t, w)) <= MaxRunsPerHour - 1
      BY <1>0, <2>1, <2>6, <2>7
    <3>9. Cardinality(SinceWindow') <= MaxRunsPerHour /\ Cardinality(SinceWindow') \in Nat
      BY <1>0, <2>1, <2>4
    <3>. HIDE DEF Hourful, w
    <3>. QED BY <1>0, <3>2, <3>4, <3>5, <3>6, <3>7, <3>8, <3>9
  <2>8. \A t \in Nat : Cardinality(Hourful(t)') <= 2 * MaxRunsPerHour - 1
    BY <1>2, <2>7
  <2>9. \A t \in Nat : w < t + Hour => Cardinality(RunsIn(t, w)') <= MaxRunsPerHour - 1
    BY <2>5, <2>6
  <2>. QED BY <1>0, <1>1, <1>3, <2>1, <2>4, <2>8, <2>9 DEF Budget, RunsIn
<1>4. CASE windowStartedAt = Never \/ WindowOver
  <2>1. windowStartedAt' = now /\ runsInWindow' = 1
    BY <1>4 DEF StartRun
  <2>2. SinceWindow' = {now}
    <3>1. \A r \in runs' : now <= r <=> r = now
      BY <1>0, <1>1, <1>5
    <3>. QED BY <1>1, <2>1, <3>1 DEF SinceWindow
  <2>3. Cardinality(SinceWindow') = runsInWindow'
    BY <2>1, <2>2, FS_Singleton
  <2>4. ASSUME NEW t \in Nat, now < t + Hour
        PROVE  /\ IsFiniteSet(RunsIn(t, now))
               /\ Cardinality(RunsIn(t, now)) \in Nat
               /\ Cardinality(RunsIn(t, now)) <= MaxRunsPerHour - 1
    <3>1. CASE windowStartedAt = Never
      <4>1. RunsIn(t, now) = {}
        BY <3>1 DEF Budget, RunsIn
      <4>. QED BY <1>0, <4>1, FS_EmptySet
    <3>2. CASE windowStartedAt # Never
      <4>1. /\ windowStartedAt \in SinceWindow /\ now >= windowStartedAt + Hour
            /\ windowStartedAt \in Nat
            /\ Cardinality(SinceWindow) = runsInWindow /\ runsInWindow <= MaxRunsPerHour
        BY <1>0, <1>4, <3>2 DEF WindowOver, Budget, SinceWindow
      <4>2. IsFiniteSet(SinceWindow)
        BY RunsFinite DEF SinceWindow
      <4>3. /\ IsFiniteSet(SinceWindow \ {windowStartedAt})
            /\ Cardinality(SinceWindow \ {windowStartedAt}) = runsInWindow - 1
        BY <4>1, <4>2, FS_RemoveElement
      <4>4. RunsIn(t, now) \subseteq SinceWindow \ {windowStartedAt}
        <5>. SUFFICES ASSUME NEW r \in RunsIn(t, now)
                      PROVE  r \in SinceWindow \ {windowStartedAt}
          OBVIOUS
        <5>1. r \in runs /\ r \in Nat /\ t <= r
          BY <1>1, <1>5 DEF RunsIn
        <5>2. windowStartedAt <= r /\ r # windowStartedAt
          BY <1>0, <2>4, <4>1, <5>1
        <5>. QED BY <5>1, <5>2 DEF SinceWindow
      <4>5. /\ IsFiniteSet(RunsIn(t, now))
            /\ Cardinality(RunsIn(t, now)) <= Cardinality(SinceWindow \ {windowStartedAt})
        BY <4>3, <4>4, FS_Subset
      <4>6. Cardinality(RunsIn(t, now)) \in Nat
        BY <4>5, FS_CardinalityType
      <4>. QED BY <1>0, <4>1, <4>3, <4>5, <4>6
    <3>. QED BY <3>1, <3>2
  <2>5. ASSUME NEW t \in Nat
        PROVE  RunsIn(t, now)' = RunsIn(t, now)
    BY <1>0, <1>1 DEF RunsIn
  <2>6. ASSUME NEW t \in Nat, t <= now, now < t + Hour
        PROVE  Cardinality(Hourful(t)') <= 2 * MaxRunsPerHour - 1
    <3>1. Hourful(t)' = RunsIn(t, now) \cup {now} /\ now \notin RunsIn(t, now)
      <4>1. \A r \in runs' : t <= r /\ r < t + Hour <=> r = now \/ (t <= r /\ r < now)
        BY <1>0, <1>1, <1>5, <2>6
      <4>2. \A r \in runs' : r \in runs \/ r = now
        BY <1>1
      <4>. QED BY <1>0, <1>1, <2>6, <4>1, <4>2 DEF RunsIn
    <3>2. Cardinality(Hourful(t)') = Cardinality(RunsIn(t, now)) + 1
      BY <2>4, <2>6, <3>1, FS_AddElement
    <3>3. /\ Cardinality(RunsIn(t, now)) \in Nat
          /\ Cardinality(RunsIn(t, now)) <= MaxRunsPerHour - 1
      BY <2>4, <2>6
    <3>. HIDE DEF Hourful
    <3>. QED BY <1>0, <3>2, <3>3
  <2>7. \A t \in Nat : Cardinality(Hourful(t)') <= 2 * MaxRunsPerHour - 1
    BY <1>2, <2>6
  <2>8. \A t \in Nat : now < t + Hour => Cardinality(RunsIn(t, now)') <= MaxRunsPerHour - 1
    BY <2>4, <2>5
  <2>. QED BY <1>0, <1>1, <2>1, <2>3, <2>7, <2>8 DEF Budget, RunsIn
<1>. QED BY <1>3, <1>4

\* Every step keeps the budget.
LEMMA BudgetStep == TypeOK /\ Budget /\ [Next]_vars => Budget'
<1>. SUFFICES ASSUME TypeOK, Budget, [Next]_vars PROVE Budget'
  OBVIOUS
<1>1. TypeOK'
  BY TypeStep
<1>2. ASSUME UNCHANGED <<runs, windowStartedAt, runsInWindow>>,
             (ticked' = ticked /\ now' = now) \/ ticked' = TRUE
      PROVE  Budget'
  BY <1>2 DEF Budget, SinceWindow, RunsIn
<1>3. CASE Tick
  <2>1. CASE Eligible
    BY <1>1, <1>3, <2>1, StartRunKeepsBudget DEF Tick, Eligible
  <2>2. CASE ~Eligible
    BY <1>2, <1>3, <2>2 DEF Tick, schedule
  <2>. QED BY <2>1, <2>2
<1>4. CASE Minute
  <2>1. now' = now + 1 /\ UNCHANGED <<runs, windowStartedAt, runsInWindow>>
    BY <1>4 DEF Minute, schedule
  <2>2. \A r \in runs : r < now + 1
    BY DEF TypeOK
  <2>. QED BY <2>1, <2>2 DEF Budget, SinceWindow, RunsIn
<1>5. CASE VaultEvent \/ OtherScan \/ ScanEnds \/ SaveSettings \/ UNCHANGED vars
  BY <1>2, <1>5 DEF VaultEvent, OtherScan, ScanEnds, SaveSettings, vars, schedule
<1>. QED BY <1>3, <1>4, <1>5 DEF Next

\* No hour holds more than twice the budget less one scheduled runs.
THEOREM BudgetSafe == Spec => []SlidingBudget
<1>1. Init => TypeOK /\ Budget
  <2>. SUFFICES ASSUME Init PROVE Budget
    BY PromptInit DEF PromptInv
  <2>1. \A t \in Nat : RunsIn(t, t + Hour) = {}
    BY DEF Init, RunsIn
  <2>2. runs = {} /\ windowStartedAt = Never /\ runsInWindow = 0
    BY DEF Init
  <2>3. Cardinality({}) = 0
    BY FS_EmptySet
  <2>4. 0 <= 2 * MaxRunsPerHour - 1
    BY ScheduleAssumption
  <2>5. \A t \in Nat : Cardinality(RunsIn(t, t + Hour)) <= 2 * MaxRunsPerHour - 1
    BY <2>1, <2>3, <2>4
  <2>. QED BY <2>2, <2>5 DEF Budget
<1>2. TypeOK /\ Budget /\ [Next]_vars => (TypeOK /\ Budget)'
  BY TypeStep, BudgetStep
<1>3. TypeOK /\ Budget => SlidingBudget
  BY DEF TypeOK, Budget, SlidingBudget
<1>. QED BY <1>1, <1>2, <1>3, PTL DEF Spec
=============================================================================
