------------------------ MODULE FindingStoreProofs --------------------------
(***************************************************************************)
(* Theorems of FindingStore, for any findings, scans, times, retention     *)
(* periods and number of times the clock is set back.                      *)
(***************************************************************************)
EXTENDS FindingStore, FiniteSetTheorems, WellFoundedInduction, TLAPS

ScanRow == [status : {"completed", "failed"}, started : Nat, finished : Nat]

StoreTypeOK ==
  /\ scans \in Seq(ScanRow) /\ found \in Seq(SUBSET Findings) /\ Len(found) = Len(scans)
  /\ pending \in Seq(Nat)
  /\ now \in Nat /\ days \in Nat
  /\ pruned \in [last : Nat, cutoff : Nat] /\ pruned.last <= Len(scans)
  /\ \A r \in rows : r[2] \in 1..Len(scans)

\* The traces of a scan that is saved and not expired.
Trace(s) ==
  {<<"span", s, "root">>, <<"span", s, "stage">>, <<"configuration", s, "fingerprint">>,
   <<"agent", s, "trace">>} \cup {<<"lineage", s, f>> : f \in Stored(s)}

\* A completed scan has its findings, and all of its traces or none.
Whole ==
  \A s \in Completed :
    /\ Stored(s) = Queue(found[s])
    /\ Without(s) \in {Trace(s), {}}

-----------------------------------------------------------------------------
(* The rows of a save.                                                     *)

\* The stages of a save, one by one.
LEMMA StageRows ==
  ASSUME NEW s, NEW Q
  PROVE  /\ SaveStages(s, Q)[1] = SpanRows(s)
         /\ SaveStages(s, Q)[2] = ConfigurationRows(s)
         /\ SaveStages(s, Q)[3] = ProductRows(s)
         /\ SaveStages(s, Q)[4] = FindingRows(s, Q)
         /\ SaveStages(s, Q)[5] = AgentRows(s)
         /\ SaveStages(s, Q)[6] = LineageRows(s, Q)
BY DEF SaveStages

\* Each of them writes rows of its scan.
LEMMA SavedOwn ==
  ASSUME NEW s, NEW Q, NEW k \in 0..6, NEW r \in Saved(s, Q, k)
  PROVE  r[2] = s
<1>1. PICK i \in 1..k : r \in SaveStages(s, Q)[i]
  BY DEF Saved
<1>2. i \in {1, 2, 3, 4, 5, 6}
  OBVIOUS
<1>. QED BY <1>1, <1>2, StageRows
         DEF SpanRows, ConfigurationRows, ProductRows, FindingRows, AgentRows, LineageRows

\* A whole save is the union of its stages.
LEMMA SavedWhole ==
  ASSUME NEW s, NEW Q
  PROVE  Saved(s, Q, 6) = SpanRows(s) \cup ConfigurationRows(s) \cup ProductRows(s)
                            \cup FindingRows(s, Q) \cup AgentRows(s) \cup LineageRows(s, Q)
<1>1. 1..6 = {1, 2, 3, 4, 5, 6}
  OBVIOUS
<1>2. \A r : r \in Saved(s, Q, 6) <=> \E i \in {1, 2, 3, 4, 5, 6} : r \in SaveStages(s, Q)[i]
  BY <1>1 DEF Saved
<1>3. \A r : (\E i \in {1, 2, 3, 4, 5, 6} : r \in SaveStages(s, Q)[i]) <=>
             \/ r \in SpanRows(s) \/ r \in ConfigurationRows(s) \/ r \in ProductRows(s)
             \/ r \in FindingRows(s, Q) \/ r \in AgentRows(s) \/ r \in LineageRows(s, Q)
  BY StageRows
<1>. QED BY <1>2, <1>3

\* What a whole save has written of its findings and traces.
LEMMA SavedShape ==
  ASSUME NEW s, NEW Q \in SUBSET Findings
  PROVE  /\ {f \in Findings : <<"finding", s, f>> \in Saved(s, Q, 6)} = Q
         /\ {r \in Saved(s, Q, 6) : r[1] \in TraceTables /\ r[2] = s} =
              {<<"span", s, "root">>, <<"span", s, "stage">>, <<"configuration", s, "fingerprint">>,
               <<"agent", s, "trace">>} \cup {<<"lineage", s, f>> : f \in Q}
<1>. USE DEF SpanRows, ConfigurationRows, ProductRows, FindingRows, AgentRows, LineageRows, TraceTables
<1>1. \A f \in Findings : <<"finding", s, f>> \in Saved(s, Q, 6) <=> f \in Q
  BY SavedWhole
<1>2. \A r : (r \in Saved(s, Q, 6) /\ r[1] \in TraceTables /\ r[2] = s) <=>
             \/ r \in {<<"span", s, "root">>, <<"span", s, "stage">>, <<"configuration", s, "fingerprint">>,
                       <<"agent", s, "trace">>}
             \/ \E f \in Q : r = <<"lineage", s, f>>
  BY SavedWhole
<1>. QED BY <1>1, <1>2

\* The queue is part of what was found.
LEMMA QueueFound == ASSUME NEW F \in SUBSET Findings PROVE Queue(F) \in SUBSET F
BY DEF Queue, NormalizeFindings

\* Of the findings of one place there is one that is listed first.
LEMMA QueueCovers ==
  ASSUME NEW F \in SUBSET Findings, NEW f \in F \cap Traceable
  PROVE  \E g \in Queue(F) : Place[g] = Place[f]
<1>. DEFINE T == {g \in F \cap Traceable : Place[g] = Place[f]}
<1>1. T \subseteq Nat /\ T # {}
  BY StoreAssumption
<1>. DEFINE Less == {ss \in Nat \X Nat : ss[1] < ss[2]}
<1>2. IsWellFoundedOn(Less, Nat)
  BY NatLessThanWellFounded, Zenon DEF OpToRel
<1>3. PICK g \in T : \A h \in T : ~ (<<h, g>> \in Less)
  <2>. HIDE DEF T, Less
  <2>. QED BY <1>1, <1>2, WFMin, Zenon
<1>4. \A h \in T : ~ (h < g)
  BY <1>1, <1>3
<1>5. \A h \in F \cap Traceable : Place[h] = Place[g] => g <= h
  BY <1>1, <1>4
<1>6. g \in Queue(F)
  BY <1>5 DEF Queue, NormalizeFindings
<1>. QED BY <1>6

-----------------------------------------------------------------------------
(* The domains.                                                            *)

\* A pruning takes rows away.
LEMMA PruneKeeps ==
  ASSUME NEW kept, NEW table, NEW time, PruneExpired(kept, table, time)
  PROVE  /\ rows' \subseteq kept
         /\ \A r \in kept : r[1] \notin TraceTables => r \in rows'
         /\ \A r \in kept : r \in rows' <=> ~ (r[1] \in TraceTables /\ table[r[2]].started < Cutoff(time))
BY DEF PruneExpired

LEMMA CutoffType == ASSUME StoreTypeOK, NEW time \in Nat PROVE Cutoff(time) \in Nat
BY DEF Cutoff, StoreTypeOK

\* A row of the table of scans is well typed, and the table grows at its end.
LEMMA RowAppended ==
  ASSUME StoreTypeOK, pending # <<>>, NEW status \in {"completed", "failed"},
         NEW F \in SUBSET Findings
  PROVE  LET table == Append(scans, Row(status))
         IN /\ table \in Seq(ScanRow) /\ Len(table) = Len(scans) + 1
            /\ \A s \in 1..Len(scans) : table[s] = scans[s] /\ Append(found, F)[s] = found[s]
            /\ table[Len(scans) + 1] = Row(status) /\ Append(found, F)[Len(scans) + 1] = F
            /\ Append(found, F) \in Seq(SUBSET Findings)
            /\ Len(Append(found, F)) = Len(table)
<1>1. pending[1] \in Nat /\ now \in Nat
  BY DEF StoreTypeOK
<1>2. Row(status) \in ScanRow
  BY <1>1 DEF Row, ScanRow
<1>3. scans \in Seq(ScanRow) /\ found \in Seq(SUBSET Findings) /\ Len(found) = Len(scans)
  BY DEF StoreTypeOK
<1>4. /\ Append(scans, Row(status)) \in Seq(ScanRow)
      /\ Len(Append(scans, Row(status))) = Len(scans) + 1
      /\ \A s \in 1..Len(scans) : Append(scans, Row(status))[s] = scans[s]
      /\ Append(scans, Row(status))[Len(scans) + 1] = Row(status)
  BY <1>2, <1>3
<1>5. /\ Append(found, F) \in Seq(SUBSET Findings)
      /\ Len(Append(found, F)) = Len(found) + 1
      /\ \A s \in 1..Len(found) : Append(found, F)[s] = found[s]
      /\ Append(found, F)[Len(found) + 1] = F
  BY <1>3
<1>. QED BY <1>3, <1>4, <1>5

LEMMA TypeInit == StoreInit => StoreTypeOK
BY StoreAssumption DEF StoreInit, StoreTypeOK

LEMMA TypeStep == StoreTypeOK /\ [StoreNext]_storeVars => StoreTypeOK'
<1>. SUFFICES ASSUME StoreTypeOK, [StoreNext]_storeVars PROVE StoreTypeOK'
  OBVIOUS
<1>. USE DEF storeVars
<1>1. CASE StartScan
  BY <1>1 DEF StartScan, StoreTypeOK
<1>2. CASE ScanThrows
  BY <1>2 DEF ScanThrows, StoreTypeOK
<1>3. ASSUME NEW F \in SUBSET Findings, SaveCompletedScan(F) PROVE StoreTypeOK'
  <2>. DEFINE table == Append(scans, Row("completed"))
              s == Len(scans) + 1
  <2>1. /\ pending # <<>> /\ PruneExpired(rows \cup Saved(s, Queue(F), 6), table, now)
        /\ scans' = table /\ pending' = <<>> /\ found' = Append(found, F) /\ UNCHANGED <<now, days>>
    BY <1>3 DEF SaveCompletedScan
  <2>2. \A r \in rows' : r[2] \in 1..s
    <3>1. \A r \in Saved(s, Queue(F), 6) : r[2] = s
      BY SavedOwn
    <3>2. rows' \subseteq rows \cup Saved(s, Queue(F), 6)
      BY <2>1, PruneKeeps
    <3>. QED BY <3>1, <3>2 DEF StoreTypeOK
  <2>3. pruned' = [last |-> s, cutoff |-> Cutoff(now)] /\ Cutoff(now) \in Nat
    <3>1. now \in Nat
      BY DEF StoreTypeOK
    <3>. QED BY <2>1, <3>1, RowAppended, CutoffType DEF PruneExpired
  <2>. QED BY <2>1, <2>2, <2>3, RowAppended DEF StoreTypeOK
<1>4. ASSUME NEW F \in SUBSET Findings, SaveThrows(F) PROVE StoreTypeOK'
  <2>. DEFINE s == Len(scans) + 1
  <2>1. PICK k \in 0..5 : rows' = rows \cup Saved(s, Queue(F), k)
    BY <1>4 DEF SaveThrows
  <2>2. \A r \in Saved(s, Queue(F), k) : r[2] = s
    BY SavedOwn
  <2>3. \A r \in rows' : r[2] \in 1..s
    BY <2>1, <2>2 DEF StoreTypeOK
  <2>4. /\ pending # <<>> /\ scans' = Append(scans, Row("failed")) /\ pending' = <<>>
        /\ found' = Append(found, {}) /\ UNCHANGED <<now, days, pruned>>
    BY <1>4 DEF SaveThrows
  <2>. QED BY <2>3, <2>4, RowAppended DEF StoreTypeOK
<1>5. ASSUME NEW F \in SUBSET Findings, PruneThrows(F) PROVE StoreTypeOK'
  <2>. DEFINE s == Len(scans) + 1
  <2>1. \A r \in Saved(s, Queue(F), 6) : r[2] = s
    BY SavedOwn
  <2>2. /\ pending # <<>> /\ scans' = Append(scans, Row("completed")) /\ pending' = <<>>
        /\ found' = Append(found, F) /\ UNCHANGED <<now, days, pruned>>
        /\ rows' = rows \cup Saved(s, Queue(F), 6)
    BY <1>5 DEF PruneThrows
  <2>3. \A r \in rows' : r[2] \in 1..s
    BY <2>1, <2>2 DEF StoreTypeOK
  <2>. QED BY <2>2, <2>3, RowAppended DEF StoreTypeOK
<1>6. CASE OpenPluginDatabase
  <2>1. now \in Nat
    BY DEF StoreTypeOK
  <2>2. Cutoff(now) \in Nat
    BY <2>1, CutoffType
  <2>3. rows' \subseteq rows
    BY <1>6, PruneKeeps DEF OpenPluginDatabase
  <2>. QED BY <1>6, <2>2, <2>3 DEF OpenPluginDatabase, PruneExpired, StoreTypeOK
<1>7. ASSUME NEW s \in Scans, DeleteTraceForScan(s) PROVE StoreTypeOK'
  BY <1>7 DEF DeleteTraceForScan, StoreTypeOK
<1>8. ASSUME NEW s \in Scans, SaveReviewerFeedback(s) PROVE StoreTypeOK'
  BY <1>8 DEF SaveReviewerFeedback, StoreTypeOK, Scans
<1>9. CASE DeleteAllTraceData
  BY <1>9 DEF DeleteAllTraceData, StoreTypeOK
<1>10. ASSUME NEW d \in Days, SetTracePreferences(d) PROVE StoreTypeOK'
  BY <1>10, StoreAssumption DEF SetTracePreferences, StoreTypeOK
<1>11. CASE Clock
  BY <1>11 DEF Clock, StoreTypeOK
<1>12. CASE UNCHANGED storeVars
  BY <1>12 DEF StoreTypeOK
<1>. QED BY <1>1, <1>2, <1>3, <1>4, <1>5, <1>6, <1>7, <1>8, <1>9, <1>10, <1>11, <1>12 DEF StoreNext

\* The table of scans, its findings and times keep their domains.
THEOREM StoreType == StoreSpec => []StoreTypeOK
BY TypeInit, TypeStep, PTL DEF StoreSpec

-----------------------------------------------------------------------------
(* What a step does to the rows: a save writes rows of its new scan, and no *)
(* other step writes a finding or a trace.                                 *)

\* A step of another action than a save keeps the scans, and the rows but traces.
LEMMA Quiet ==
  ASSUME StoreTypeOK, [StoreNext]_storeVars,
         ~ \E F \in SUBSET Findings : SaveCompletedScan(F) \/ SaveThrows(F) \/ PruneThrows(F)
  PROVE  /\ UNCHANGED <<scans, found>>
         /\ \A r \in rows : r \in rows' \/ r[1] \in TraceTables
         /\ \A r \in rows' : r \in rows \/ r[1] = "feedback"
         /\ \/ UNCHANGED pruned
            \/ OpenPluginDatabase
<1>. USE DEF storeVars
<1>1. CASE StartScan \/ ScanThrows \/ Clock \/ UNCHANGED storeVars \/ \E d \in Days : SetTracePreferences(d)
  BY <1>1 DEF StartScan, ScanThrows, Clock, SetTracePreferences
<1>2. CASE OpenPluginDatabase
  BY <1>2, PruneKeeps DEF OpenPluginDatabase
<1>3. ASSUME NEW s \in Scans, DeleteTraceForScan(s) \/ SaveReviewerFeedback(s)
      PROVE  /\ UNCHANGED <<scans, found, pruned>>
             /\ \A r \in rows : r \in rows' \/ r[1] \in TraceTables
             /\ \A r \in rows' : r \in rows \/ r[1] = "feedback"
  BY <1>3 DEF DeleteTraceForScan, SaveReviewerFeedback, Without
<1>4. CASE DeleteAllTraceData
  BY <1>4 DEF DeleteAllTraceData
<1>. QED BY <1>1, <1>2, <1>3, <1>4 DEF StoreNext

\* A save adds one scan and rows of it.
LEMMA SaveAdds ==
  ASSUME StoreTypeOK, NEW F \in SUBSET Findings,
         SaveCompletedScan(F) \/ SaveThrows(F) \/ PruneThrows(F)
  PROVE  /\ Len(scans') = Len(scans) + 1
         /\ \A s \in 1..Len(scans) : scans'[s] = scans[s] /\ found'[s] = found[s]
         /\ \A r \in rows : r \in rows' \/ r[1] \in TraceTables
         /\ \A r \in rows' : r \in rows \/ r[2] = Len(scans) + 1
<1>1. CASE SaveCompletedScan(F)
  <2>1. /\ pending # <<>> /\ scans' = Append(scans, Row("completed")) /\ found' = Append(found, F)
        /\ PruneExpired(rows \cup Saved(Len(scans) + 1, Queue(F), 6), Append(scans, Row("completed")), now)
    BY <1>1 DEF SaveCompletedScan
  <2>2. \A r \in Saved(Len(scans) + 1, Queue(F), 6) : r[2] = Len(scans) + 1
    BY SavedOwn
  <2>. QED BY <2>1, <2>2, RowAppended, PruneKeeps
<1>2. CASE SaveThrows(F)
  <2>1. PICK k \in 0..5 : rows' = rows \cup Saved(Len(scans) + 1, Queue(F), k)
    BY <1>2 DEF SaveThrows
  <2>2. pending # <<>> /\ scans' = Append(scans, Row("failed")) /\ found' = Append(found, {})
    BY <1>2 DEF SaveThrows
  <2>3. \A r \in Saved(Len(scans) + 1, Queue(F), k) : r[2] = Len(scans) + 1
    BY SavedOwn
  <2>. QED BY <2>1, <2>2, <2>3, RowAppended
<1>3. CASE PruneThrows(F)
  <2>1. /\ pending # <<>> /\ scans' = Append(scans, Row("completed")) /\ found' = Append(found, F)
        /\ rows' = rows \cup Saved(Len(scans) + 1, Queue(F), 6)
    BY <1>3 DEF PruneThrows
  <2>2. \A r \in Saved(Len(scans) + 1, Queue(F), 6) : r[2] = Len(scans) + 1
    BY SavedOwn
  <2>. QED BY <2>1, <2>2, RowAppended
<1>. QED BY <1>1, <1>2, <1>3

\* The findings of a scan that is in the table never change.
LEMMA StoredStands ==
  ASSUME StoreTypeOK, [StoreNext]_storeVars, NEW s \in Scans
  PROVE  Stored(s)' = Stored(s) /\ scans'[s] = scans[s] /\ found'[s] = found[s]
<1>1. s \in 1..Len(scans) /\ Len(scans) \in Nat
  BY DEF Scans, StoreTypeOK
<1>2. CASE \E F \in SUBSET Findings : SaveCompletedScan(F) \/ SaveThrows(F) \/ PruneThrows(F)
  <2>1. \A f : <<"finding", s, f>> \in rows' <=> <<"finding", s, f>> \in rows
    BY <1>1, <1>2, SaveAdds DEF TraceTables
  <2>. QED BY <1>1, <1>2, <2>1, SaveAdds DEF Stored
<1>3. CASE ~ \E F \in SUBSET Findings : SaveCompletedScan(F) \/ SaveThrows(F) \/ PruneThrows(F)
  <2>1. \A f : <<"finding", s, f>> \in rows' <=> <<"finding", s, f>> \in rows
    BY <1>3, Quiet DEF TraceTables
  <2>. QED BY <1>3, <2>1, Quiet DEF Stored
<1>. QED BY <1>2, <1>3

-----------------------------------------------------------------------------
(* Retention.                                                              *)

\* What a pruning has seen and found expired stays without a trace: a save
\* writes rows behind those the pruning saw, and no other step writes traces.
THEOREM Retention == StoreSpec => []RetentionKept
<1>1. StoreInit => RetentionKept
  BY DEF StoreInit, RetentionKept
<1>2. StoreTypeOK /\ RetentionKept /\ [StoreNext]_storeVars => RetentionKept'
  <2>. SUFFICES ASSUME StoreTypeOK, RetentionKept, [StoreNext]_storeVars,
                       NEW s \in 1..pruned'.last, scans'[s].started < pruned'.cutoff,
                       NEW r \in rows', r[1] \in TraceTables, r[2] = s
                PROVE  FALSE
    BY DEF RetentionKept, Without
  <2>. DEFINE Known == s \in 1..pruned.last /\ scans[s].started < pruned.cutoff
  <2>1. Known => r \notin rows
    BY DEF RetentionKept, Without
  <2>2. pruned.last \in 0..Len(scans) /\ Len(scans) \in Nat
    BY DEF StoreTypeOK
  <2>3. ASSUME NEW F \in SUBSET Findings, SaveCompletedScan(F) PROVE FALSE
    BY <2>3 DEF SaveCompletedScan, PruneExpired
  <2>4. ASSUME NEW F \in SUBSET Findings, SaveThrows(F) \/ PruneThrows(F) PROVE FALSE
    <3>1. UNCHANGED pruned
      BY <2>4 DEF SaveThrows, PruneThrows
    <3>2. Known
      BY <2>2, <2>4, <3>1, SaveAdds
    <3>. QED BY <2>1, <2>2, <2>4, <3>2, SaveAdds
  <2>5. CASE ~ \E F \in SUBSET Findings : SaveCompletedScan(F) \/ SaveThrows(F) \/ PruneThrows(F)
    <3>1. CASE OpenPluginDatabase
      BY <3>1 DEF OpenPluginDatabase, PruneExpired
    <3>2. CASE UNCHANGED pruned
      <4>1. r[1] # "feedback"
        BY DEF TraceTables
      <4>. QED BY <2>1, <2>5, <3>2, <4>1, Quiet
    <3>. QED BY <2>5, <3>1, <3>2, Quiet
  <2>. QED BY <2>3, <2>4, <2>5
<1>. QED BY <1>1, <1>2, StoreType, PTL DEF StoreSpec

-----------------------------------------------------------------------------
(* The view of the latest scan.                                            *)

\* The completed view stands until a scan completes, and only traces are
\* taken out of the database.
THEOREM ViewStanding == StoreSpec => ViewStands
<1>1. StoreTypeOK /\ [StoreNext]_storeVars =>
        /\ \A r \in rows \ rows' : r[1] \in TraceTables
        /\ Completed' = Completed => LoadFindings' = LoadFindings
  <2>. SUFFICES ASSUME StoreTypeOK, [StoreNext]_storeVars
                PROVE  /\ \A r \in rows : r \in rows' \/ r[1] \in TraceTables
                       /\ Completed' = Completed => LoadFindings' = LoadFindings
    OBVIOUS
  <2>1. \A r \in rows : r \in rows' \/ r[1] \in TraceTables
    BY Quiet, SaveAdds
  <2>2. ASSUME Completed' = Completed PROVE LoadFindings' = LoadFindings
    <3>1. \A s \in Completed : Stored(s)' = Stored(s) /\ scans'[s] = scans[s]
      BY StoredStands DEF Completed
    <3>2. LatestCompleted' = LatestCompleted
      BY <2>2, <3>1 DEF LatestCompleted
    <3>3. \A s \in LatestCompleted : Stored(s)' = Stored(s)
      BY <3>1 DEF LatestCompleted
    <3>. QED BY <3>2, <3>3 DEF LoadFindings
  <2>. QED BY <2>1, <2>2
<1>. QED BY <1>1, StoreType, PTL DEF StoreSpec, ViewStands

-----------------------------------------------------------------------------
(* A completed scan is whole.                                              *)

\* The scan of a save that completes has the rows of all stages; a pruning
\* takes its traces together, for all of them are of one scan.
LEMMA SavedIsWhole ==
  ASSUME StoreTypeOK, NEW F \in SUBSET Findings, SaveCompletedScan(F) \/ PruneThrows(F),
         NEW s, s = Len(scans) + 1
  PROVE  Stored(s)' = Queue(F) /\ Without(s)' \in {Trace(s)', {}} /\ found'[s] = F
<1>. DEFINE Q == Queue(F)
            kept == rows \cup Saved(s, Q, 6)
<1>1. Q \in SUBSET Findings
  BY QueueFound
<1>2. \A r \in rows : r[2] # s
  BY DEF StoreTypeOK
<1>3. {f \in Findings : <<"finding", s, f>> \in kept} = Q
  <2>1. \A f : <<"finding", s, f>> \notin rows
    BY <1>2
  <2>. QED BY <1>1, <2>1, SavedShape
<1>4. {r \in kept : r[1] \in TraceTables /\ r[2] = s} =
        {<<"span", s, "root">>, <<"span", s, "stage">>, <<"configuration", s, "fingerprint">>,
         <<"agent", s, "trace">>} \cup {<<"lineage", s, f>> : f \in Q}
  <2>1. {r \in kept : r[1] \in TraceTables /\ r[2] = s} =
        {r \in Saved(s, Q, 6) : r[1] \in TraceTables /\ r[2] = s}
    BY <1>2
  <2>. QED BY <1>1, <2>1, SavedShape
<1>5. /\ \A r \in kept : r[1] \notin TraceTables => r \in rows'
      /\ rows' \subseteq kept
      /\ \/ \A r \in kept : r[1] \in TraceTables /\ r[2] = s => r \in rows'
         \/ \A r \in kept : r[1] \in TraceTables /\ r[2] = s => r \notin rows'
  <2>1. CASE PruneThrows(F)
    BY <2>1 DEF PruneThrows
  <2>2. CASE SaveCompletedScan(F)
    <3>. DEFINE table == Append(scans, Row("completed"))
    <3>1. PruneExpired(kept, table, now)
      BY <2>2 DEF SaveCompletedScan
    <3>. HIDE DEF kept, table
    <3>. QED BY <3>1, PruneKeeps
  <2>. QED BY <2>1, <2>2
<1>6. Stored(s)' = Q
  <2>1. \A f : <<"finding", s, f>> \in rows' <=> <<"finding", s, f>> \in kept
    BY <1>5 DEF TraceTables
  <2>2. Stored(s)' = {f \in Findings : <<"finding", s, f>> \in rows'}
    BY DEF Stored
  <2>. HIDE DEF kept, Q
  <2>. QED BY <1>3, <2>1, <2>2
<1>7. Trace(s)' = {r \in kept : r[1] \in TraceTables /\ r[2] = s}
  BY <1>4, <1>6 DEF Trace
<1>8. Without(s)' \in {Trace(s)', {}}
  <2>1. Without(s)' = {r \in rows' : r[1] \in TraceTables /\ r[2] = s}
    BY DEF Without
  <2>. HIDE DEF kept, Q
  <2>2. CASE \A r \in kept : r[1] \in TraceTables /\ r[2] = s => r \in rows'
    <3>1. Without(s)' = Trace(s)'
      BY <1>5, <1>7, <2>1, <2>2
    <3>. QED BY <3>1
  <2>3. CASE \A r \in kept : r[1] \in TraceTables /\ r[2] = s => r \notin rows'
    <3>1. Without(s)' = {}
      BY <1>5, <2>1, <2>3
    <3>. QED BY <3>1
  <2>. QED BY <1>5, <2>2, <2>3
<1>9. found'[s] = F
  <2>1. pending # <<>> /\ found' = Append(found, F)
    BY DEF SaveCompletedScan, PruneThrows
  <2>. QED BY <2>1, RowAppended
<1>. QED BY <1>6, <1>8, <1>9

\* The traces of a scan that is in the table go together.
LEMMA TracesTogether ==
  ASSUME StoreTypeOK, [StoreNext]_storeVars, NEW s \in Scans
  PROVE  Without(s)' \in {Without(s), {}}
<1>. USE DEF storeVars
<1>1. s \in 1..Len(scans) /\ Len(scans) \in Nat
  BY DEF Scans, StoreTypeOK
<1>2. ASSUME NEW kept, NEW table, NEW time, PruneExpired(kept, table, time),
             \A r : r[2] = s => (r \in kept <=> r \in rows)
      PROVE  Without(s)' \in {Without(s), {}}
  <2>1. CASE table[s].started < Cutoff(time)
    <3>1. Without(s)' = {}
      BY <1>2, <2>1, PruneKeeps DEF Without
    <3>. QED BY <3>1
  <2>2. CASE ~ (table[s].started < Cutoff(time))
    <3>1. Without(s)' = Without(s)
      BY <1>2, <2>2, PruneKeeps DEF Without
    <3>. QED BY <3>1
  <2>. QED BY <2>1, <2>2
<1>3. ASSUME NEW F \in SUBSET Findings, SaveCompletedScan(F) PROVE Without(s)' \in {Without(s), {}}
  <2>1. PruneExpired(rows \cup Saved(Len(scans) + 1, Queue(F), 6), Append(scans, Row("completed")), now)
    BY <1>3 DEF SaveCompletedScan
  <2>2. \A r \in Saved(Len(scans) + 1, Queue(F), 6) : r[2] = Len(scans) + 1
    BY SavedOwn
  <2>. QED BY <1>1, <1>2, <2>1, <2>2
<1>4. ASSUME NEW F \in SUBSET Findings, SaveThrows(F) \/ PruneThrows(F) PROVE Without(s)' \in {Without(s), {}}
  <2>1. rows \subseteq rows'
    BY <1>4 DEF SaveThrows, PruneThrows
  <2>2. \A r \in rows' : r \in rows \/ r[2] = Len(scans) + 1
    BY <1>4, SaveAdds
  <2>3. Without(s)' = Without(s)
    BY <1>1, <2>1, <2>2 DEF Without
  <2>. QED BY <2>3
<1>5. CASE OpenPluginDatabase
  BY <1>2, <1>5 DEF OpenPluginDatabase
<1>6. ASSUME NEW t \in Scans, DeleteTraceForScan(t) PROVE Without(s)' \in {Without(s), {}}
  <2>1. CASE t = s
    <3>1. Without(s)' = {}
      BY <1>6, <2>1 DEF DeleteTraceForScan, Without
    <3>. QED BY <3>1
  <2>2. CASE t # s
    <3>1. Without(s)' = Without(s)
      BY <1>6, <2>2 DEF DeleteTraceForScan, Without
    <3>. QED BY <3>1
  <2>. QED BY <2>1, <2>2
<1>7. ASSUME NEW t \in Scans, SaveReviewerFeedback(t) PROVE Without(s)' \in {Without(s), {}}
  <2>1. Without(s)' = Without(s)
    BY <1>7 DEF SaveReviewerFeedback, Without, TraceTables
  <2>. QED BY <2>1
<1>8. CASE DeleteAllTraceData
  <2>1. Without(s)' = {}
    BY <1>8 DEF DeleteAllTraceData, Without
  <2>. QED BY <2>1
<1>9. CASE UNCHANGED rows
  <2>1. Without(s)' = Without(s)
    BY <1>9 DEF Without
  <2>. QED BY <2>1
<1>10. CASE StartScan \/ ScanThrows \/ Clock \/ UNCHANGED storeVars \/ \E d \in Days : SetTracePreferences(d)
  BY <1>9, <1>10 DEF StartScan, ScanThrows, Clock, SetTracePreferences
<1>. QED BY <1>3, <1>4, <1>5, <1>6, <1>7, <1>8, <1>10 DEF StoreNext

LEMMA WholeStep == StoreTypeOK /\ Whole /\ [StoreNext]_storeVars => Whole'
<1>. SUFFICES ASSUME StoreTypeOK, Whole, [StoreNext]_storeVars, NEW s \in Completed'
              PROVE  Stored(s)' = Queue(found'[s]) /\ Without(s)' \in {Trace(s)', {}}
  BY DEF Whole
<1>0. Scans = 1..Len(scans) /\ Len(scans) \in Nat
  BY DEF Scans, StoreTypeOK
<1>1. CASE s \in Scans
  <2>1. Stored(s)' = Stored(s) /\ scans'[s] = scans[s] /\ found'[s] = found[s]
    BY <1>1, StoredStands
  <2>2. s \in Completed
    BY <1>1, <2>1 DEF Completed
  <2>3. Trace(s)' = Trace(s)
    BY <2>1 DEF Trace
  <2>4. Without(s)' \in {Without(s), {}}
    BY <1>1, TracesTogether
  <2>. QED BY <2>1, <2>2, <2>3, <2>4 DEF Whole
<1>2. CASE s \notin Scans
  <2>1. s \in Scans' /\ scans'[s].status = "completed"
    BY DEF Completed
  <2>2. PICK F \in SUBSET Findings : SaveCompletedScan(F) \/ SaveThrows(F) \/ PruneThrows(F)
    BY <1>2, <2>1, Quiet DEF Scans
  <2>3. s = Len(scans) + 1
    <3>1. StoreTypeOK'
      BY TypeStep
    <3>2. Scans' = 1..Len(scans')
      BY <3>1 DEF Scans, StoreTypeOK
    <3>. QED BY <1>0, <1>2, <2>1, <2>2, <3>2, SaveAdds
  <2>4. CASE SaveThrows(F)
    <3>1. pending # <<>> /\ scans' = Append(scans, Row("failed"))
      BY <2>4 DEF SaveThrows
    <3>. QED BY <2>1, <2>3, <3>1, RowAppended DEF Row
  <2>5. CASE SaveCompletedScan(F) \/ PruneThrows(F)
    <3>1. Stored(s)' = Queue(F) /\ Without(s)' \in {Trace(s)', {}} /\ found'[s] = F
      BY <2>3, <2>5, SavedIsWhole
    <3>. QED BY <3>1
  <2>. QED BY <2>2, <2>4, <2>5
<1>. QED BY <1>1, <1>2

\* What a scan that is whole shows.
LEMMA WholeShows == StoreTypeOK /\ Whole => CompletedIsWhole
<1>. SUFFICES ASSUME StoreTypeOK, Whole, NEW s \in Completed
              PROVE  /\ Stored(s) \subseteq found[s]
                     /\ \A f \in found[s] \cap Traceable : \E g \in Stored(s) : Place[g] = Place[f]
                     /\ LET view == GetObservabilitySnapshot(s)
                        IN /\ view.queueDepth >= Cardinality(view.lineage)
                           /\ \/ /\ view.timeline # {} /\ view.agents # {} /\ view.configuration # {}
                                 /\ view.lineage = Stored(s)
                              \/ /\ view.timeline = {} /\ view.agents = {}
                                 /\ view.configuration = {} /\ view.lineage = {}
  BY DEF CompletedIsWhole
<1>1. found[s] \in SUBSET Findings /\ Stored(s) = Queue(found[s])
  BY DEF Completed, Scans, StoreTypeOK, Whole
<1>2. \A f \in found[s] \cap Traceable : \E g \in Stored(s) : Place[g] = Place[f]
  BY <1>1, QueueCovers
<1>3. Stored(s) \subseteq found[s]
  BY <1>1, QueueFound
<1>. DEFINE view == GetObservabilitySnapshot(s)
<1>4. /\ view.timeline = {r[3] : r \in {q \in rows : q[1] = "span" /\ q[2] = s}}
      /\ view.lineage = {f \in Findings : <<"lineage", s, f>> \in rows}
      /\ view.configuration = {r[3] : r \in {q \in rows : q[1] = "configuration" /\ q[2] = s}}
      /\ view.agents = {r[3] : r \in {q \in rows : q[1] = "agent" /\ q[2] = s}}
      /\ view.queueDepth = Cardinality(Stored(s))
  BY DEF GetObservabilitySnapshot, ListTraceTimeline, ListFindingLineage
<1>5. Stored(s) \subseteq Findings /\ IsFiniteSet(Stored(s)) /\ Cardinality(Stored(s)) \in Nat
  BY StoreAssumption, FS_Subset, FS_CardinalityType DEF Stored
<1>6. CASE Without(s) = {}
  <2>1. \A r \in rows : r[1] \in TraceTables => r[2] # s
    BY <1>6 DEF Without
  <2>2. /\ view.timeline = {} /\ view.lineage = {} /\ view.configuration = {} /\ view.agents = {}
    BY <1>4, <2>1 DEF TraceTables
  <2>. HIDE DEF view
  <2>3. view.queueDepth >= Cardinality(view.lineage)
    <3>1. Cardinality(view.lineage) = 0
      BY <2>2, FS_EmptySet, Zenon
    <3>. QED BY <1>4, <1>5, <3>1
  <2>. QED BY <1>2, <1>3, <2>2, <2>3 DEF view
<1>7. CASE Without(s) = Trace(s)
  <2>1. \A r : (r \in rows /\ r[1] \in TraceTables /\ r[2] = s) <=> r \in Trace(s)
    BY <1>7 DEF Without
  <2>2. /\ <<"span", s, "root">> \in rows /\ <<"agent", s, "trace">> \in rows
        /\ <<"configuration", s, "fingerprint">> \in rows
    BY <2>1 DEF Trace
  <2>3. \A f \in Findings : <<"lineage", s, f>> \in rows <=> f \in Stored(s)
    BY <2>1 DEF Trace, TraceTables
  <2>4. view.lineage = Stored(s)
    BY <1>4, <1>5, <2>3
  <2>5. "root" \in view.timeline /\ "trace" \in view.agents /\ "fingerprint" \in view.configuration
    BY <1>4, <2>2
  <2>. HIDE DEF view
  <2>6. view.queueDepth >= Cardinality(view.lineage)
    <3>1. Cardinality(view.lineage) = Cardinality(Stored(s))
      BY <2>4, Zenon
    <3>. QED BY <1>4, <1>5, <3>1
  <2>. QED BY <1>2, <1>3, <2>4, <2>5, <2>6 DEF view
<1>. QED BY <1>6, <1>7 DEF Whole

\* A completed scan is in the database whole.
THEOREM Wholeness == StoreSpec => []CompletedIsWhole
<1>1. StoreInit => Whole
  BY DEF StoreInit, Whole, Completed, Scans
<1>. QED BY <1>1, WholeStep, WholeShows, StoreType, PTL DEF StoreSpec

-----------------------------------------------------------------------------
(* The view and the history.                                               *)

\* A bounded set of numbers has a greatest one.
LEMMA GreatestNumber ==
  ASSUME NEW T \in SUBSET Nat, NEW n \in T, NEW b \in Nat, \A x \in T : x <= b
  PROVE  Max(T) \in T /\ \A x \in T : x <= Max(T)
<1>. DEFINE D == {b - x : x \in T}
            Less == {ss \in Nat \X Nat : ss[1] < ss[2]}
<1>1. D \subseteq Nat /\ D # {}
  OBVIOUS
<1>2. IsWellFoundedOn(Less, Nat)
  BY NatLessThanWellFounded, Zenon DEF OpToRel
<1>3. PICK d \in D : \A h \in D : ~ (<<h, d>> \in Less)
  <2>. HIDE DEF D, Less
  <2>. QED BY <1>1, <1>2, WFMin, Zenon
<1>4. PICK m \in T : d = b - m
  OBVIOUS
<1>5. \A x \in T : m >= x
  <2>. SUFFICES ASSUME NEW x \in T PROVE m >= x
    OBVIOUS
  <2>1. b - x \in D /\ b - x \in Nat /\ d \in Nat
    BY <1>1
  <2>2. ~ (b - x < d)
    BY <1>3, <2>1
  <2>. QED BY <1>4, <2>2
<1>6. Max(T) \in T /\ \A x \in T : Max(T) >= x
  BY <1>5 DEF Max
<1>. QED BY <1>6

\* The scan that is last in both orders is the view, and what the history has
\* last seen in it is not resolved; all else is.
LEMMA ViewIsHistory == StoreTypeOK => ViewsAgree
<1>. SUFFICES ASSUME StoreTypeOK, NEW s \in Completed,
                     \A t \in Completed \ {s} : /\ scans[t].finished < scans[s].finished
                                                /\ scans[t].started < scans[s].started
              PROVE  LoadFindings = {Stored(s)} /\ Stored(s) = {f \in Lifecycle : ~ Resolved(f)}
  BY DEF ViewsAgree
<1>1. \A t \in Completed : scans[t].finished \in Nat /\ scans[t].started \in Nat
  <2>1. \A t \in Completed : scans[t] \in ScanRow
    BY DEF Completed, Scans, StoreTypeOK
  <2>. QED BY <2>1 DEF ScanRow
<1>2. LatestCompleted = {s}
  BY <1>1 DEF LatestCompleted
<1>. DEFINE Started(C) == {scans[t].started : t \in C}
<1>3. ASSUME NEW C \in SUBSET Completed, NEW c \in C
      PROVE  Max(Started(C)) \in Started(C) /\ \A x \in Started(C) : x <= Max(Started(C))
  <2>1. Started(C) \in SUBSET Nat /\ scans[c].started \in Started(C)
    BY <1>1
  <2>2. \A x \in Started(C) : x <= scans[s].started
    BY <1>1
  <2>3. scans[s].started \in Nat
    BY <1>1
  <2>. HIDE DEF Started
  <2>. QED BY <2>1, <2>2, <2>3, GreatestNumber
<1>4. Max(Started(Completed)) = scans[s].started
  <2>1. /\ Max(Started(Completed)) \in Started(Completed)
        /\ scans[s].started <= Max(Started(Completed))
    BY <1>3
  <2>2. PICK t \in Completed : Max(Started(Completed)) = scans[t].started
    BY <2>1
  <2>3. scans[t].started <= scans[s].started
    BY <1>1
  <2>. QED BY <1>1, <2>1, <2>2, <2>3
<1>5. ASSUME NEW f \in Lifecycle PROVE f \in Stored(s) <=> ~ Resolved(f)
  <2>. DEFINE C == {t \in Completed : f \in Stored(t)}
  <2>1. PICK c \in C : TRUE
    BY DEF Lifecycle
  <2>2. Max(Started(C)) \in Started(C) /\ \A x \in Started(C) : x <= Max(Started(C))
    <3>1. C \in SUBSET Completed
      OBVIOUS
    <3>. HIDE DEF C, Started
    <3>. QED BY <1>3, <2>1, <3>1
  <2>3. Resolved(f) <=> Max(Started(C)) < scans[s].started
    BY <1>4, Zenon DEF Resolved, LastSeen
  <2>4. PICK t \in C : Max(Started(C)) = scans[t].started
    BY <2>2
  <2>5. CASE f \in Stored(s)
    <3>1. scans[s].started \in Started(C)
      BY <2>5
    <3>2. scans[s].started <= scans[t].started
      BY <2>2, <2>4, <3>1
    <3>. QED BY <1>1, <2>3, <2>4, <2>5, <3>2
  <2>6. CASE f \notin Stored(s)
    <3>1. t # s /\ t \in Completed
      BY <2>6
    <3>. QED BY <2>3, <2>4, <2>6, <3>1
  <2>. QED BY <2>5, <2>6
<1>6. Stored(s) \subseteq Lifecycle
  BY DEF Lifecycle
<1>7. LoadFindings = {Stored(s)}
  BY <1>2 DEF LoadFindings
<1>. QED BY <1>5, <1>6, <1>7

\* The findings shown and the history agree on the last scan.
THEOREM ViewAndHistory == StoreSpec => []ViewsAgree
BY StoreType, ViewIsHistory, PTL
=============================================================================
