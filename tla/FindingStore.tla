---------------------------- MODULE FindingStore ----------------------------
(***************************************************************************)
(* The scans, findings and traces that the plugin keeps in its database.   *)
(*                                                                         *)
(* A scan notes the time when it starts, and is saved when it has run.     *)
(* PluginDatabase.saveCompletedScan is one synchronous function, but only  *)
(* its first statements are a transaction: a statement that throws leaves  *)
(* the rows before it, under a scan that is then marked as failed.         *)
(* Nothing but the clock of the machine orders scans, in two ways: the     *)
(* findings shown are those of the completed scan that finished last, the  *)
(* history takes the one that started last for the latest.                 *)
(*                                                                         *)
(* A finding stands for its type, severity and evidence, the key of its    *)
(* history.  The database is the set of its rows <<table, scan, item>>.    *)
(***************************************************************************)
EXTENDS Naturals, FiniteSets, Sequences, FiniteSetsExt

CONSTANTS
  Findings,      \* what a scan may find, numbered in the order the checks list it
  Place,         \* Place[f]: type and evidence locators of f, without its severity
  Traceable,     \* the findings whose paths and policy the trace contract accepts
  Days,          \* the retention periods the settings offer, in units of the clock
  MaxScans,      \* bound on scans
  MaxTime,       \* bound on the clock
  MaxSetBacks    \* bound on the times the clock is set back

ASSUME StoreAssumption ==
  /\ Findings \subseteq Nat /\ IsFiniteSet(Findings) /\ Traceable \subseteq Findings /\ Place \in [Findings -> Nat]
  /\ Days \subseteq Nat /\ 1 \in Days
  /\ MaxScans \in Nat /\ MaxTime \in Nat /\ MaxSetBacks \in Nat

VARIABLES
  now,         \* the clock
  setBacks,    \* how often it was set back
  pending,     \* the running scan and the time it started: a sequence of at most one
  scans,       \* the table of scans, in the order of their rows
  rows,        \* all other tables
  days,        \* the retention period in force
  pruned,      \* the scans that were in the table at the last pruning, and its cutoff
  found        \* for the properties: what each completed scan had found

storeVars == <<now, setBacks, pending, scans, rows, days, pruned, found>>

Scans     == DOMAIN scans
Completed == {s \in Scans : scans[s].status = "completed"}

TraceTables == {"span", "agent", "lineage", "configuration"}
Stored(s)   == {f \in Findings : <<"finding", s, f>> \in rows}
Without(s)  == {r \in rows : r[1] \in TraceTables /\ r[2] = s}

-----------------------------------------------------------------------------
\* What is read.

\* Faulty: the latest scan is taken for the latest completed one.
LatestOfAny ==
  {s \in Scans : \A t \in Scans : scans[t].finished <= scans[s].finished}

\* The scans the query for the latest completed one may return: the greatest
\* finished_at, then the greatest started_at.
LatestCompleted ==
  {s \in Completed : \A t \in Completed :
     \/ scans[t].finished < scans[s].finished
     \/ scans[t].finished = scans[s].finished /\ scans[t].started <= scans[s].started}

LoadFindings == {Stored(s) : s \in LatestCompleted}

LastSeen(f) == Max({scans[s].started : s \in {t \in Completed : f \in Stored(t)}})
Lifecycle   == UNION {Stored(s) : s \in Completed}
\* Faulty: the history counts failed scans.
ResolvedByAnyScan(f) == LastSeen(f) < Max({scans[s].started : s \in Scans})

Resolved(f) == LastSeen(f) < Max({scans[s].started : s \in Completed})

\* What the diagnostics show of a scan: its spans, the lineage of its findings,
\* its configuration, its open findings and the scans that are not completed.
ListFindingLineage(s) == {f \in Findings : <<"lineage", s, f>> \in rows}
ListTraceTimeline(s)  == {r[3] : r \in {q \in rows : q[1] = "span" /\ q[2] = s}}
GetObservabilitySnapshot(s) ==
  [timeline      |-> ListTraceTimeline(s),
   lineage       |-> ListFindingLineage(s),
   configuration |-> {r[3] : r \in {q \in rows : q[1] = "configuration" /\ q[2] = s}},
   agents        |-> {r[3] : r \in {q \in rows : q[1] = "agent" /\ q[2] = s}},
   queueDepth    |-> Cardinality(Stored(s)),
   incomplete    |-> Cardinality(Scans \ Completed)]

-----------------------------------------------------------------------------
\* What is written.

StoreInit ==
  /\ now = 0 /\ setBacks = 0 /\ pending = <<>> /\ scans = <<>> /\ rows = {}
  /\ days = 1 /\ pruned = [last |-> 0, cutoff |-> 0] /\ found = <<>>

\* One finding of a place is kept, the one the checks have listed first.
NormalizeFindings(F) == {f \in F : \A g \in F : Place[g] = Place[f] => f <= g}

\* Findings whose lineage the trace contract rejects are dropped before that.
Queue(F) == NormalizeFindings(F \cap Traceable)

SpanRows(s)          == {<<"span", s, "root">>, <<"span", s, "stage">>}
ConfigurationRows(s) == {<<"configuration", s, "fingerprint">>}
ProductRows(s)       == {<<"product", s, "note">>}
FindingRows(s, Q)    == {<<"finding", s, f>> : f \in Q}
AgentRows(s)         == {<<"model", s, "trace">>, <<"agent", s, "trace">>}
LineageRows(s, Q)    == {<<"lineage", s, f>> : f \in Q}

\* The statements of a save, in their order.
SaveStages(s, Q) ==
  <<SpanRows(s), ConfigurationRows(s), ProductRows(s), FindingRows(s, Q), AgentRows(s),
    LineageRows(s, Q)>>

Saved(s, Q, k) == UNION {SaveStages(s, Q)[i] : i \in 1..k}

\* Traces of the scans that started before the retention period are deleted.
Cutoff(time) == IF time > days THEN time - days ELSE 0
\* Faulty: the pruning forgets a table.
PruneExpiredButLineage(kept, table, time) ==
  /\ rows' = kept \ {r \in kept : /\ r[1] \in TraceTables \ {"lineage"}
                                  /\ table[r[2]].started < Cutoff(time)}
  /\ pruned' = [last |-> Len(table), cutoff |-> Cutoff(time)]

PruneExpired(kept, table, time) ==
  /\ rows' = kept \ {r \in kept : /\ r[1] \in TraceTables
                                  /\ table[r[2]].started < Cutoff(time)}
  /\ pruned' = [last |-> Len(table), cutoff |-> Cutoff(time)]

StartScan ==
  /\ pending = <<>> /\ Len(scans) < MaxScans
  /\ pending' = <<now>>
  /\ UNCHANGED <<now, setBacks, scans, rows, days, pruned, found>>

\* A scan that throws before it is saved leaves nothing; no scan is over in
\* the very moment it started.
ScanThrows ==
  /\ pending # <<>>
  /\ pending' = <<>>
  /\ UNCHANGED <<now, setBacks, scans, rows, days, pruned, found>>

Row(status) == [status |-> status, started |-> pending[1], finished |-> now]

SaveCompletedScan(F) ==
  LET s == Len(scans) + 1
      table == Append(scans, Row("completed"))
  IN /\ pending # <<>> /\ now # pending[1]
     /\ PruneExpired(rows \cup Saved(s, Queue(F), 6), table, now)
     /\ scans' = table /\ pending' = <<>> /\ found' = Append(found, F)
     /\ UNCHANGED <<now, setBacks, days>>

\* Faulty: what a save that throws has written is taken for complete.
SaveThrowsUnnoticed(F) ==
  LET s == Len(scans) + 1
  IN /\ pending # <<>> /\ now # pending[1]
     /\ \E k \in 0..5 : rows' = rows \cup Saved(s, Queue(F), k)
     /\ scans' = Append(scans, Row("completed")) /\ pending' = <<>> /\ found' = Append(found, F)
     /\ UNCHANGED <<now, setBacks, days, pruned>>

\* The statements behind the k-th throw.
SaveThrows(F) ==
  LET s == Len(scans) + 1
  IN /\ pending # <<>> /\ now # pending[1]
     /\ \E k \in 0..5 : rows' = rows \cup Saved(s, Queue(F), k)
     /\ scans' = Append(scans, Row("failed")) /\ pending' = <<>> /\ found' = Append(found, {})
     /\ UNCHANGED <<now, setBacks, days, pruned>>

\* The pruning behind a completed save throws: the save reports a failure, a
\* completed scan cannot become a failed one, and nothing else is changed.
PruneThrows(F) ==
  LET s == Len(scans) + 1
  IN /\ pending # <<>> /\ now # pending[1]
     /\ rows' = rows \cup Saved(s, Queue(F), 6)
     /\ scans' = Append(scans, Row("completed")) /\ pending' = <<>> /\ found' = Append(found, F)
     /\ UNCHANGED <<now, setBacks, days, pruned>>

\* The plugin is loaded again; a scan that was running is gone with the old
\* instance, and no row says "running", for a save is never cut in two.
OpenPluginDatabase ==
  /\ pending' = <<>>
  /\ PruneExpired(rows, scans, now)
  /\ UNCHANGED <<now, setBacks, scans, days, found>>

DeleteTraceForScan(s) ==
  /\ s \in Scans /\ rows' = rows \ Without(s)
  /\ UNCHANGED <<now, setBacks, pending, scans, days, pruned, found>>

DeleteAllTraceData ==
  /\ rows' = {r \in rows : r[1] \notin TraceTables}
  /\ UNCHANGED <<now, setBacks, pending, scans, days, pruned, found>>

\* A period of less than a day is refused.
SetTracePreferences(d) ==
  /\ d >= 1 /\ days' = d
  /\ UNCHANGED <<now, setBacks, pending, scans, rows, pruned, found>>

SaveReviewerFeedback(s) ==
  /\ s \in LatestCompleted /\ Stored(s) # {}
  /\ rows' = rows \cup {<<"feedback", s, "verdict">>}
  /\ UNCHANGED <<now, setBacks, pending, scans, days, pruned, found>>

Clock ==
  /\ \/ now < MaxTime /\ now' = now + 1 /\ UNCHANGED setBacks
     \/ setBacks < MaxSetBacks /\ now > 0 /\ now' = now - 1 /\ setBacks' = setBacks + 1
  /\ UNCHANGED <<pending, scans, rows, days, pruned, found>>

StoreNext ==
  \/ StartScan
  \/ ScanThrows
  \/ \E F \in SUBSET Findings : SaveCompletedScan(F) \/ SaveThrows(F) \/ PruneThrows(F)
  \/ OpenPluginDatabase
  \/ \E s \in Scans : DeleteTraceForScan(s) \/ SaveReviewerFeedback(s)
  \/ DeleteAllTraceData
  \/ \E d \in Days : SetTracePreferences(d)
  \/ Clock

StoreSpec == StoreInit /\ [][StoreNext]_storeVars

-----------------------------------------------------------------------------
\* Properties.

\* A completed scan is in the database whole, although only the first of its
\* statements are a transaction: whatever it found (and could be traced) is
\* listed under its place, nothing else is, and the diagnostics show its spans,
\* agents, configuration and the lineage of exactly the findings listed, until
\* all of them are deleted together.
CompletedIsWhole ==
  \A s \in Completed :
    /\ Stored(s) \subseteq found[s]
    /\ \A f \in found[s] \cap Traceable : \E g \in Stored(s) : Place[g] = Place[f]
    /\ LET view == GetObservabilitySnapshot(s)
       IN /\ view.queueDepth >= Cardinality(view.lineage)
          /\ \/ view.timeline # {} /\ view.agents # {} /\ view.configuration # {} /\ view.lineage = Stored(s)
             \/ view.timeline = {} /\ view.agents = {} /\ view.configuration = {} /\ view.lineage = {}

\* The findings shown and the history agree, although one follows the end of
\* scans and the other their start: once a completed scan has both times after
\* those of all others, also after the clock was set back, the findings shown
\* are its own, and they are the ones the history does not call resolved.
ViewsAgree ==
  \A s \in Completed :
    (\A t \in Completed \ {s} : /\ scans[t].finished < scans[s].finished
                                /\ scans[t].started < scans[s].started)
      => LoadFindings = {Stored(s)} /\ Stored(s) = {f \in Lifecycle : ~ Resolved(f)}

\* What a pruning has seen and found expired does not keep a trace, whatever
\* the settings, later saves that fail and the clock do.
RetentionKept ==
  \A s \in 1..pruned.last : scans[s].started < pruned.cutoff => Without(s) = {}

\* A failed scan, a pruning, a deletion of traces or a restart never replaces
\* the completed view, and takes nothing but traces out of the database.
ViewStands ==
  [][ /\ \A r \in rows \ rows' : r[1] \in TraceTables
      /\ Completed' = Completed => LoadFindings' = LoadFindings ]_storeVars
=============================================================================
