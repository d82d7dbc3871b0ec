---------------------- MODULE RepairPersistenceProofs -----------------------
(***************************************************************************)
(* Theorems of RepairPersistence, for any number of proposals, notes,      *)
(* calls, edits, stops and images on their way to the file.                *)
(***************************************************************************)
EXTENDS RepairPersistence, ReviewWorkflowProofs

Images == [status : [Proposals -> Status], trail : [Proposals -> Seq(Actions)]]

\* What is prepared, called, written and edited is a step of the workflow; a
\* flush is none.  Only a stop, a load and the end of an orphan are more.
LEMMA WorkflowSteps ==
  ASSUME [PersistNext]_allVars
  PROVE  \/ [Next]_vars
         \/ Crash \/ Load
         \/ \E c \in Calls : OrphanPasses(c) \/ OrphanEnds(c)
<1>. USE DEF Next
<1>1. ASSUME NEW p \in Proposals, Prepare(p) PROVE Next
  BY <1>1 DEF Prepare
<1>2. ASSUME NEW c \in Calls, Request(c) \/ Proceed(c) \/ OrphanWrites(c) PROVE Next
  <2>1. CASE Request(c)
    BY <2>1 DEF Request
  <2>2. CASE Proceed(c)
    BY <2>2 DEF Proceed
  <2>3. CASE OrphanWrites(c)
    BY <2>3 DEF OrphanWrites, CallStep
  <2>. QED BY <1>2, <2>1, <2>2, <2>3
<1>3. CASE Edit
  BY <1>3 DEF Edit
<1>4. ASSUME NEW c \in Calls, FlushResult(c) PROVE UNCHANGED vars
  BY <1>4 DEF FlushResult
<1>5. CASE FlushOther \/ Land \/ Unload
  BY <1>5 DEF FlushOther, Land, Unload
<1>. HIDE DEF Next
<1>6. CASE UNCHANGED allVars
  BY <1>6 DEF allVars
<1>. QED BY <1>1, <1>2, <1>3, <1>4, <1>5, <1>6 DEF PersistNext

-----------------------------------------------------------------------------
(* Types.                                                                  *)

\* The tables stay well typed, and a call keeps its shape.
LEMMA TablesStep ==
  PersistTypeOK /\ CallShape /\ [PersistNext]_allVars => TypeOK' /\ CallShape'
<1>. SUFFICES ASSUME PersistTypeOK, CallShape, [PersistNext]_allVars
              PROVE  TypeOK' /\ CallShape'
  OBVIOUS
<1>0. TypeOK
  BY DEF PersistTypeOK
<1>. USE DEF proposalVars, callVars, userVars, Active
<1>1. CASE [Next]_vars
  BY <1>0, <1>1, TypeStep, ShapeStep
<1>2. CASE Crash
  BY <1>0, <1>2 DEF Crash, TypeOK, CallShape, Running, AllRead
<1>3. CASE Load
  BY <1>0, <1>3 DEF Load, PersistTypeOK, TypeOK, CallShape, AllRead
<1>4. ASSUME NEW c \in Calls, OrphanPasses(c) \/ OrphanEnds(c) PROVE TypeOK' /\ CallShape'
  <2>1. CASE OrphanPasses(c)
    BY <1>0, <2>1 DEF OrphanPasses, TypeOK, CallShape, AllRead
  <2>2. CASE OrphanEnds(c)
    <3>1. pc' = [pc EXCEPT ![c] = "done"]
          /\ UNCHANGED <<proposalVars, note, kind, batch, got, done, stuck, aborted, outcome, userVars>>
      BY <2>2 DEF OrphanEnds
    <3>. QED BY <1>0, <3>1 DEF TypeOK, CallShape, AllRead
  <2>. QED BY <1>4, <2>1, <2>2
<1>. QED BY <1>1, <1>2, <1>3, <1>4, WorkflowSteps

\* A flush hands over an image of the tables.
LEMMA FlushType ==
  ASSUME PersistTypeOK, TypeOK', Flush
  PROVE  writes' \in Seq(Images)
BY DEF PersistTypeOK, TypeOK, Flush, Image, Images

\* The oldest of the images on their way and those behind it.
LEMMA LandType ==
  ASSUME NEW S, NEW w \in Seq(S), w # <<>>
  PROVE  Head(w) \in S /\ Tail(w) \in Seq(S)
OBVIOUS

\* What is in the file and on its way there are images of the tables.
LEMMA PersistTypeStep ==
  PersistTypeOK /\ CallShape /\ [PersistNext]_allVars => PersistTypeOK' /\ CallShape'
<1>. SUFFICES ASSUME PersistTypeOK, CallShape, [PersistNext]_allVars
              PROVE  PersistTypeOK'
  BY TablesStep
<1>1. TypeOK'
  BY TablesStep
<1>2. stops \in Nat /\ MaxStops \in Nat /\ writes \in Seq(Images) /\ disk \in Images
  BY StopsAssumption DEF PersistTypeOK, Images
<1>. USE DEF PersistTypeOK, Images, diskVars
<1>3. ASSUME NEW p \in Proposals, Prepare(p) PROVE PersistTypeOK'
  BY <1>1, <1>2, <1>3 DEF Prepare, Instance
<1>4. ASSUME NEW c \in Calls, Request(c) \/ Proceed(c) PROVE PersistTypeOK'
  BY <1>1, <1>4 DEF Request, Proceed, OweFlush
<1>5. ASSUME NEW c \in Calls, FlushResult(c) PROVE PersistTypeOK'
  BY <1>1, <1>5, FlushType DEF FlushResult
<1>6. CASE FlushOther
  BY <1>1, <1>6, FlushType DEF FlushOther
<1>7. CASE Land
  <2>1. disk' \in Images /\ writes' \in Seq(Images)
    BY <1>2, <1>7, LandType DEF Land
  <2>. QED BY <1>1, <1>7, <2>1 DEF Land
<1>8. CASE Crash
  <2>1. stops' \in 0..MaxStops /\ born \in [Proposals -> 0..(MaxStops + 1)]
    BY <1>2, <1>8 DEF Crash
  <2>2. writes' \in Seq(Images) /\ owed' \subseteq Calls /\ orphans' \subseteq Calls
    BY <1>8 DEF Crash
  <2>3. up' = FALSE /\ UNCHANGED <<born, disk>>
    BY <1>8 DEF Crash
  <2>. QED BY <1>1, <1>2, <2>1, <2>2, <2>3
<1>9. CASE Unload
  <2>1. stops' \in 0..MaxStops
    BY <1>2, <1>9 DEF Unload
  <2>2. writes' \in Seq(Images)
    BY <1>1, <1>9, FlushType DEF Unload
  <2>3. owed' = {} /\ orphans' \subseteq Calls /\ up' = FALSE /\ UNCHANGED <<born, disk>>
    BY <1>9 DEF Unload
  <2>. QED BY <1>1, <2>1, <2>2, <2>3
<1>10. CASE Load
  BY <1>1, <1>10, FlushType DEF Load
<1>11. ASSUME NEW c \in Calls, OrphanWrites(c) \/ OrphanPasses(c) \/ OrphanEnds(c)
       PROVE  PersistTypeOK'
  BY <1>1, <1>11 DEF OrphanWrites, OrphanPasses, OrphanEnds
<1>12. CASE Edit \/ UNCHANGED allVars
  BY <1>1, <1>12 DEF Edit, allVars
<1>. QED
  BY <1>3, <1>4, <1>5, <1>6, <1>7, <1>8, <1>9, <1>10, <1>11, <1>12 DEF PersistNext

-----------------------------------------------------------------------------
(* No defect is repaired twice over.                                       *)

Disjoint(S) == \A a, b \in S : a # b => ~Overlap(a, b)

\* A prepared repair overlaps nothing in the notes it was prepared from.
PreparedClean ==
  \A p \in Proposals : born[p] # 0 =>
    \A o \in OpsOf({p}) : Disjoint(source[p][o.path].ops \cup {o})

\* What a preflight has read was a note without double repairs.
SeenDisjoint ==
  \A c \in Calls, n \in Notes : got[c][n] # Unread => Disjoint(got[c][n].ops)

\* A call works on prepared repairs which overlap nowhere, and writes over the
\* notes they were prepared from.
CallDisjoint(c) ==
  /\ \A p \in batch[c] : born[p] # 0
  /\ pc[c] \in Active => Disjoint(OpsOf(batch[c]))
  /\ pc[c] = "writing" => AllCurrent(c)

CallsDisjoint == \A c \in Calls : CallDisjoint(c)

RepairInv == PreparedClean /\ SeenDisjoint /\ CallsDisjoint /\ NoDoubleRepair

\* Overlaps are symmetric, and hasOverlappingOperations finds them all.
LEMMA OverlapsFound ==
  ASSUME NEW S \in SUBSET Operations, ~HasOverlappingOperations(S)
  PROVE  Disjoint(S)
<1>. SUFFICES ASSUME NEW a \in S, NEW b \in S, a # b, Overlap(a, b) PROVE FALSE
  BY DEF Disjoint
<1>1. a.start \in Nat /\ a.end \in Nat /\ b.start \in Nat /\ b.end \in Nat
  BY OperationsAssumption
<1>2. a.path = b.path /\ a.start < b.end /\ b.start < a.end
  BY DEF Overlap
<1>3. CASE a.start < b.start \/ (a.start = b.start /\ a.end <= b.end)
  BY <1>2, <1>3 DEF HasOverlappingOperations
<1>4. CASE b.start < a.start \/ (b.start = a.start /\ b.end <= a.end)
  BY <1>2, <1>4 DEF HasOverlappingOperations
<1>. QED BY <1>1, <1>3, <1>4

\* Steps that prepare nothing, read nothing and change no note.
LEMMA RepairFrame ==
  ASSUME RepairInv, UNCHANGED <<source, batch, got, born, note>>,
         \A c \in Calls : pc'[c] \in Active => pc[c] \in Active,
         \A c \in Calls : pc'[c] = "writing" => pc[c] = "writing" \/ AllCurrent(c)
  PROVE  RepairInv'
<1>. USE DEF RepairInv
<1>1. PreparedClean' /\ SeenDisjoint' /\ NoDoubleRepair'
  BY DEF PreparedClean, SeenDisjoint, NoDoubleRepair
<1>2. \A c \in Calls : AllCurrent(c)' <=> AllCurrent(c)
  BY DEF AllCurrent, IsCurrent
<1>3. CallsDisjoint'
  BY <1>2 DEF CallsDisjoint, CallDisjoint, OpsOf
<1>. QED BY <1>1, <1>3

\* Every step keeps repairs apart.
LEMMA RepairStep ==
  PersistTypeOK /\ CallShape /\ RepairInv /\ [PersistNext]_allVars => RepairInv'
<1>. SUFFICES ASSUME PersistTypeOK, CallShape, RepairInv, [PersistNext]_allVars
              PROVE  RepairInv'
  OBVIOUS
<1>. USE DEF proposalVars, callVars, userVars, diskVars, vars
<1>0. TypeOK /\ stops \in Nat
  BY StopsAssumption DEF PersistTypeOK
<1>1. ASSUME NEW p \in Proposals, Prepare(p) PROVE RepairInv'
  <2>1. /\ born[p] = 0 /\ born' = [born EXCEPT ![p] = Instance]
        /\ source' = [source EXCEPT ![p] = note] /\ UNCHANGED <<note, got, batch, pc>>
        /\ \A o \in OpsOf({p}) : \A a \in note[o.path].ops : ~Overlap(a, o)
    BY <1>1 DEF Prepare, SaveProposal
  <2>2. \A o \in OpsOf({p}) : Disjoint(note[o.path].ops \cup {o})
    <3>. SUFFICES ASSUME NEW o \in OpsOf({p}),
                         NEW a \in note[o.path].ops \cup {o}, NEW b \in note[o.path].ops \cup {o},
                         a # b, Overlap(a, b)
                  PROVE  FALSE
      BY DEF Disjoint
    <3>1. o.path \in Notes
      BY OperationsAssumption DEF OpsOf
    <3>2. CASE a \in note[o.path].ops /\ b \in note[o.path].ops
      BY <3>1, <3>2 DEF RepairInv, NoDoubleRepair
    <3>3. CASE a = o
      BY <2>1, <3>3 DEF Overlap
    <3>4. CASE b = o
      BY <2>1, <3>4
    <3>. QED BY <3>2, <3>3, <3>4
  <2>3. \A q \in Proposals : born'[q] # 0 => (born[q] # 0 /\ source'[q] = source[q]) \/ q = p
    BY <2>1, <1>0 DEF PersistTypeOK, TypeOK
  <2>4. PreparedClean'
    <3>. SUFFICES ASSUME NEW q \in Proposals, born'[q] # 0, NEW o \in OpsOf({q})
                  PROVE  Disjoint(source'[q][o.path].ops \cup {o})
      BY DEF PreparedClean, OpsOf
    <3>1. CASE q = p
      BY <2>1, <2>2, <3>1, <1>0 DEF TypeOK
    <3>2. CASE q # p
      BY <2>3, <3>2 DEF RepairInv, PreparedClean
    <3>. QED BY <3>1, <3>2
  <2>5. SeenDisjoint' /\ NoDoubleRepair'
    BY <2>1 DEF RepairInv, SeenDisjoint, NoDoubleRepair
  <2>6. CallsDisjoint'
    <3>1. \A c \in Calls : \A q \in batch[c] : q \in Proposals /\ born[q] # 0 /\ q # p
      BY <2>1, <1>0 DEF RepairInv, CallsDisjoint, CallDisjoint, TypeOK
    <3>2. \A c \in Calls : \A q \in batch[c] : born'[q] # 0 /\ source'[q] = source[q]
      BY <2>1, <3>1, <1>0 DEF PersistTypeOK, TypeOK
    <3>3. \A c \in Calls : AllCurrent(c) => AllCurrent(c)'
      BY <2>1, <3>2 DEF AllCurrent, IsCurrent, OpsOf
    <3>. QED BY <2>1, <3>2, <3>3 DEF RepairInv, CallsDisjoint, CallDisjoint, OpsOf
  <2>. QED BY <2>4, <2>5, <2>6 DEF RepairInv
<1>2. ASSUME NEW c \in Calls, NEW b \in Batches, Request(c), RefuseBatch(c, b) PROVE RepairInv'
  BY <1>0, <1>2, RepairFrame DEF Request, RefuseBatch, Return, TypeOK, Active
<1>3. ASSUME NEW c \in Calls, NEW b \in Batches, StartBatch(c, b), UNCHANGED born,
             \A p \in Range(b) : born[p] = Instance
      PROVE  RepairInv'
  <2>1. /\ batch' = [batch EXCEPT ![c] = Range(b)] /\ pc' = [pc EXCEPT ![c] = "reading"]
        /\ UNCHANGED <<source, note, got>> /\ ~HasOverlappingOperations(OpsOf(Range(b)))
    BY <1>3 DEF StartBatch, ValidBatch
  <2>2. \A p \in Range(b) : born[p] # 0
    BY <1>0, <1>3 DEF Instance
  <2>3. Disjoint(OpsOf(Range(b)))
    <3>1. OpsOf(Range(b)) \in SUBSET Operations
      BY DEF OpsOf
    <3>. QED BY <2>1, <3>1, OverlapsFound
  <2>4. PreparedClean' /\ SeenDisjoint' /\ NoDoubleRepair'
    BY <1>3, <2>1 DEF RepairInv, PreparedClean, SeenDisjoint, NoDoubleRepair
  <2>5. ASSUME NEW d \in Calls PROVE CallDisjoint(d)'
    <3>1. CASE d = c
      BY <1>0, <1>3, <2>1, <2>2, <2>3, <3>1 DEF TypeOK, OpsOf, CallDisjoint
    <3>2. CASE d # c
      <4>1. batch'[d] = batch[d] /\ pc'[d] = pc[d] /\ (AllCurrent(d) => AllCurrent(d)')
        BY <1>0, <2>1, <3>2 DEF TypeOK, AllCurrent, IsCurrent, OpsOf
      <4>. QED BY <1>3, <4>1 DEF RepairInv, CallsDisjoint, CallDisjoint, OpsOf
    <3>. QED BY <3>1, <3>2
  <2>6. CallsDisjoint'
    BY <2>5 DEF CallsDisjoint, CallDisjoint
  <2>. QED BY <2>4, <2>6 DEF RepairInv
<1>4. ASSUME NEW c \in Calls, UNCHANGED born,
             \/ ReadFails(c) \/ PreflightStale(c) \/ PreflightCanceled(c) \/ PreflightPasses(c)
             \/ WriteFails(c) \/ FinishApplied(c) \/ Reindexed(c) \/ FinishRollback(c)
      PROVE  RepairInv'
  <2>1. UNCHANGED <<source, batch, got, note>>
    BY <1>4 DEF ReadFails, PreflightStale, PreflightCanceled, PreflightPasses, WriteFails,
                FinishApplied, Reindexed, FinishRollback
  <2>2. \A d \in Calls : pc'[d] \in Active => pc[d] \in Active
    BY <1>0, <1>4 DEF ReadFails, PreflightStale, PreflightCanceled, PreflightPasses, WriteFails,
                FinishApplied, Reindexed, FinishRollback, Return, TypeOK, Active
  <2>3. \A d \in Calls : pc'[d] = "writing" => pc[d] = "writing" \/ AllCurrent(d)
    BY <1>0, <1>4 DEF ReadFails, PreflightStale, PreflightCanceled, PreflightPasses, WriteFails,
                FinishApplied, Reindexed, FinishRollback, Return, TypeOK
  <2>. QED BY <1>4, <2>1, <2>2, <2>3, RepairFrame
<1>5. ASSUME NEW c \in Calls, NEW n \in Notes, Read(c, n), UNCHANGED born PROVE RepairInv'
  <2>1. /\ got' = [got EXCEPT ![c][n] = note[n]] /\ pc[c] = "reading"
        /\ UNCHANGED <<source, note, batch, pc>>
    BY <1>5 DEF Read
  <2>2. SeenDisjoint'
    BY <1>0, <2>1 DEF RepairInv, SeenDisjoint, NoDoubleRepair, Disjoint, TypeOK
  <2>3. \A d \in Calls : pc[d] = "writing" => (AllCurrent(d) => AllCurrent(d)')
    BY <1>0, <2>1 DEF AllCurrent, IsCurrent, TypeOK
  <2>4. PreparedClean' /\ NoDoubleRepair'
    BY <1>5, <2>1 DEF RepairInv, PreparedClean, NoDoubleRepair
  <2>5. CallsDisjoint'
    BY <1>5, <2>1, <2>3 DEF RepairInv, CallsDisjoint, CallDisjoint, OpsOf
  <2>. QED BY <2>2, <2>4, <2>5 DEF RepairInv
<1>6. ASSUME NEW c \in Calls, UNCHANGED <<born, source, batch, got, pc>>, NoDoubleRepair'
      PROVE  RepairInv'
  <2>1. \A d \in Calls : AllCurrent(d)' <=> AllCurrent(d)
    BY <1>6 DEF AllCurrent, IsCurrent
  <2>2. PreparedClean' /\ SeenDisjoint' /\ CallsDisjoint'
    BY <1>6, <2>1 DEF RepairInv, PreparedClean, SeenDisjoint, CallsDisjoint, CallDisjoint, OpsOf
  <2>. QED BY <1>6, <2>2 DEF RepairInv
<1>7. ASSUME NEW c \in Calls, NEW n \in Notes, Write(c, n) PROVE NoDoubleRepair'
  <2>. DEFINE new == got[c][n].ops \cup OpsAt(batch[c], n)
  <2>1. /\ pc[c] = "writing" /\ note[n] = got[c][n] /\ got[c][n] \in Content
        /\ note' = [note EXCEPT ![n] = Splice(got[c][n], OpsAt(batch[c], n))]
    BY <1>0, <1>7 DEF Write, WriteIfCurrent, TypeOK
  <2>2. \A m \in Notes : note'[m].ops = IF m = n THEN new ELSE note[m].ops
    BY <1>0, <2>1 DEF Splice, TypeOK, Content
  <2>3. Disjoint(got[c][n].ops)
    BY <2>1 DEF RepairInv, NoDoubleRepair, Disjoint
  <2>4. Disjoint(OpsAt(batch[c], n))
    BY <2>1 DEF RepairInv, CallsDisjoint, CallDisjoint, Active, Disjoint, OpsAt
  <2>5. ASSUME NEW a \in got[c][n].ops, NEW o \in OpsAt(batch[c], n), a # o
        PROVE  ~Overlap(a, o) /\ ~Overlap(o, a)
    <3>1. /\ o \in OpsOf(batch[c]) /\ o.path = n /\ o.proposal \in Proposals
          /\ o.proposal \in batch[c] /\ o \in OpsOf({o.proposal})
      BY OperationsAssumption DEF OpsAt, OpsOf
    <3>2. born[o.proposal] # 0 /\ got[c][n] = source[o.proposal][n]
      BY <2>1, <3>1 DEF RepairInv, CallsDisjoint, CallDisjoint, AllCurrent, IsCurrent
    <3>3. Disjoint(got[c][n].ops \cup {o})
      BY <3>1, <3>2 DEF RepairInv, PreparedClean
    <3>. QED BY <2>5, <3>3 DEF Disjoint
  <2>6. \A a, b \in new : a # b => ~Overlap(a, b)
    BY <2>3, <2>4, <2>5 DEF Disjoint
  <2>. QED BY <2>2, <2>6 DEF RepairInv, NoDoubleRepair
<1>8. ASSUME NEW c \in Calls, NEW n \in Notes, Rollback(c, n) PROVE NoDoubleRepair'
  <2>1. got[c][n] # Unread /\ note' = [note EXCEPT ![n] = got[c][n]]
    BY <1>8 DEF Rollback, WriteIfCurrent, CallShape, AllRead, Active
  <2>. QED BY <1>0, <2>1 DEF RepairInv, SeenDisjoint, NoDoubleRepair, Disjoint, TypeOK
<1>9. ASSUME NEW c \in Calls, CallStep(c), UNCHANGED born PROVE RepairInv'
  <2>1. ASSUME NEW n \in Notes, Write(c, n) \/ Rollback(c, n) \/ RollbackFails(c, n)
        PROVE  RepairInv'
    <3>1. UNCHANGED <<source, batch, got, pc>>
      BY <2>1 DEF Write, Rollback, RollbackFails
    <3>2. NoDoubleRepair'
      BY <1>7, <1>8, <2>1 DEF RollbackFails, RepairInv, NoDoubleRepair
    <3>. QED BY <1>6, <1>9, <3>1, <3>2
  <2>. QED BY <1>4, <1>5, <1>9, <2>1 DEF CallStep
<1>10. ASSUME NEW c \in Calls, Proceed(c) \/ OrphanWrites(c) PROVE RepairInv'
  BY <1>9, <1>10 DEF Proceed, OrphanWrites, CallStep
<1>11. CASE Edit
  <2>1. PICK n \in Notes, t \in Texts : \E kept \in SUBSET note[n].ops : UserEdit(n, t, kept)
    BY <1>11 DEF Edit
  <2>2. PICK kept \in SUBSET note[n].ops : UserEdit(n, t, kept)
    BY <2>1
  <2>3. NoDoubleRepair'
    BY <1>0, <2>2 DEF UserEdit, RepairInv, NoDoubleRepair, TypeOK
  <2>4. UNCHANGED <<born, source, batch, got, pc>>
    BY <1>11, <2>2 DEF Edit, UserEdit
  <2>5. \A d \in Calls : AllCurrent(d)' <=> AllCurrent(d)
    BY <2>4 DEF AllCurrent, IsCurrent
  <2>6. PreparedClean' /\ SeenDisjoint' /\ CallsDisjoint'
    BY <2>4, <2>5 DEF RepairInv, PreparedClean, SeenDisjoint, CallsDisjoint, CallDisjoint, OpsOf
  <2>. QED BY <2>3, <2>6 DEF RepairInv
<1>12. CASE \/ Crash \/ Load \/ FlushOther \/ Land \/ Unload \/ UNCHANGED allVars
            \/ \E c \in Calls : FlushResult(c) \/ OrphanPasses(c) \/ OrphanEnds(c)
  <2>1. UNCHANGED <<source, batch, got, born, note>>
    BY <1>12 DEF Crash, Load, FlushOther, Land, Unload, FlushResult, OrphanPasses, OrphanEnds,
                 allVars
  <2>2. \A c \in Calls : /\ pc'[c] \in Active => pc[c] \in Active
                         /\ pc'[c] = "writing" => pc[c] = "writing" \/ AllCurrent(c)
    BY <1>0, <1>12
       DEF Crash, Load, FlushOther, Land, Unload, FlushResult, OrphanPasses, OrphanEnds,
           allVars, TypeOK, Active
  <2>. QED BY <2>1, <2>2, RepairFrame
<1>. QED
  BY <1>1, <1>2, <1>3, <1>10, <1>11, <1>12 DEF PersistNext, Request

-----------------------------------------------------------------------------
(* Who works on what, across stops.                                        *)

\* A proposal is prepared by this instance of the plugin or by an earlier one.
Dated == \A p \in Proposals : born[p] <= Instance /\ (~up => born[p] < Instance)

\* An orphan runs on with proposals of an earlier instance; without a plugin
\* only orphans run.
CallersKnown ==
  \A c \in Calls :
    /\ c \in orphans => Running(c) /\ \A p \in batch[c] : born[p] < Instance
    /\ ~up /\ Running(c) => c \in orphans
    /\ c \in owed => pc[c] = "done"

\* The tables know the proposals of the calls of the loaded plugin.
LiveStatus ==
  \A c \in Calls : \A p \in batch[c] :
    c \notin orphans =>
      /\ pc[c] = "reading" => status[p] = "approved"
      /\ pc[c] \in {"writing", "rolling"} => status[p] = "applying"

Hands == Dated /\ CallersKnown /\ LiveStatus /\ OneOwner

(* What the file says of a repair.                                         *)

\* "applied" is in the tables, in the file, or on its way there.
SaidApplied(p) ==
  \/ status[p] = "applied"
  \/ disk.status[p] = "applied"
  \/ \E i \in 1..Len(writes) : writes[i].status[p] = "applied"

Whole(p)  == \A o \in OpsOf({p}) : InVault(o) \/ o \in reverted
InNoHand(p) == \A c \in Calls : pc[c] \in Active => p \notin batch[c]

\* A repair that is said to be applied is whole, no call can take it back, and
\* none will be started on it.
SaidIsSettled ==
  \A p \in Proposals :
    SaidApplied(p) =>
      /\ Whole(p) /\ InNoHand(p)
      /\ born[p] # 0
      /\ status[p] = "applied" \/ born[p] < Instance

\* The image that is in the file once everything on its way has landed.
Latest == IF writes = <<>> THEN disk ELSE writes[Len(writes)]

Recorded(p) == Latest.status[p] = status[p] /\ Latest.trail[p] = trail[p]

\* A decision or result that is not on its way to the file is that of a call
\* that will flush it.
ResultsOnTheirWay ==
  up =>
    \A p \in Proposals : status[p] \notin {"absent", "pending"} =>
      \/ Recorded(p)
      \/ \E c \in Calls : p \in batch[c] /\ (c \in owed \/ (Running(c) /\ c \notin orphans))

PersistInv ==
  /\ PersistTypeOK
  /\ CallShape
  /\ RepairInv
  /\ Hands
  /\ WrittenIsThere
  /\ SaidIsSettled
  /\ ResultsOnTheirWay

-----------------------------------------------------------------------------
\* What a step of a call changes: its own stage, its own proposals.
LEMMA CallStepFrame ==
  ASSUME TypeOK, NEW c \in Calls, CallStep(c)
  PROVE  /\ UNCHANGED <<batch, source, userVars>> /\ Running(c)
         /\ \A d \in Calls : d # c => pc'[d] = pc[d]
         /\ Running(c)' \/ pc'[c] = "done"
         /\ pc'[c] \in Active => pc[c] \in Active
         /\ pc[c] = "reindexing" => UNCHANGED <<status, trail>>
         /\ \A p \in Proposals : p \notin batch[c] => status'[p] = status[p] /\ trail'[p] = trail[p]
<1>. USE DEF proposalVars, userVars, Active, Running, Return, UpdateStatus, RecordApproval, TypeOK
<1>1. CASE ReadFails(c) \/ PreflightStale(c) \/ PreflightCanceled(c)
  BY <1>1 DEF ReadFails, PreflightStale, PreflightCanceled
<1>2. CASE PreflightPasses(c)
  BY <1>2 DEF PreflightPasses
<1>3. CASE WriteFails(c) \/ FinishApplied(c) \/ Reindexed(c) \/ FinishRollback(c)
  BY <1>3 DEF WriteFails, FinishApplied, Reindexed, FinishRollback
<1>4. ASSUME NEW n \in Notes, Read(c, n) \/ Write(c, n) \/ Rollback(c, n) \/ RollbackFails(c, n)
      PROVE  /\ UNCHANGED <<batch, source, userVars, status, trail, pc>> /\ pc[c] \in Active
  BY <1>4 DEF Read, Write, Rollback, RollbackFails
<1>. QED BY <1>1, <1>2, <1>3, <1>4 DEF CallStep

\* The stages of a call and the status of its proposals go together.
LEMMA CallStepStatus ==
  ASSUME TypeOK, NEW c \in Calls, CallStep(c), NEW p \in batch[c],
         pc[c] = "reading" => status[p] = "approved",
         pc[c] \in {"writing", "rolling"} => status[p] = "applying"
  PROVE  /\ pc'[c] = "reading" => status'[p] = "approved"
         /\ pc'[c] \in {"writing", "rolling"} => status'[p] = "applying"
<1>0. p \in Proposals
  BY DEF TypeOK
<1>. USE DEF proposalVars, Active, Return, TypeOK
<1>1. CASE ReadFails(c) \/ PreflightStale(c) \/ PreflightCanceled(c)
  BY <1>1 DEF ReadFails, PreflightStale, PreflightCanceled
<1>2. CASE PreflightPasses(c)
  BY <1>0, <1>2 DEF PreflightPasses, UpdateStatus
<1>3. CASE WriteFails(c) \/ FinishApplied(c) \/ Reindexed(c) \/ FinishRollback(c)
  BY <1>3 DEF WriteFails, FinishApplied, Reindexed, FinishRollback
<1>4. ASSUME NEW n \in Notes, Read(c, n) \/ Write(c, n) \/ Rollback(c, n) \/ RollbackFails(c, n)
      PROVE  UNCHANGED <<status, pc>>
  BY <1>4 DEF Read, Write, Rollback, RollbackFails
<1>. QED BY <1>1, <1>2, <1>3, <1>4 DEF CallStep

\* An orphan that writes changes no table.
LEMMA OrphanFrame ==
  ASSUME TypeOK, NEW c \in Calls, OrphanWrites(c) \/ OrphanPasses(c)
  PROVE  /\ c \in orphans /\ UNCHANGED <<status, trail, batch, diskVars>>
         /\ \A d \in Calls : d # c => pc'[d] = pc[d]
         /\ pc[c] \in Active /\ pc'[c] \in Active
<1>. USE DEF proposalVars, Active, TypeOK
<1>1. CASE OrphanPasses(c)
  BY <1>1 DEF OrphanPasses
<1>2. CASE OrphanWrites(c)
  BY <1>2 DEF OrphanWrites, WriteFails, Read, Write, Rollback, RollbackFails
<1>. QED BY <1>1, <1>2

\* An instance works on proposals of its own, one call on each; what it leaves
\* behind when it is unloaded never meets the proposals of the next.
LEMMA HandsStep ==
  PersistTypeOK /\ CallShape /\ RepairInv /\ Hands /\ [PersistNext]_allVars => Hands'
<1>. SUFFICES ASSUME PersistTypeOK, CallShape, RepairInv, Hands, [PersistNext]_allVars
              PROVE  Hands'
  OBVIOUS
<1>. USE DEF diskVars
<1>0. /\ TypeOK /\ stops \in Nat /\ \A p \in Proposals : born[p] \in Nat
      /\ \A c \in Calls : batch[c] \subseteq Proposals
  BY StopsAssumption DEF PersistTypeOK, TypeOK
<1>a. Dated /\ CallersKnown /\ LiveStatus /\ OneOwner
  BY DEF Hands
<1>1. ASSUME NEW p \in Proposals, Prepare(p) PROVE Hands'
  <2>1. /\ up /\ up' /\ born[p] = 0 /\ born' = [born EXCEPT ![p] = Instance]
        /\ status[p] = "absent" /\ status' = [q \in Proposals |-> IF q \in {p} THEN "pending" ELSE status[q]]
        /\ UNCHANGED <<pc, batch, orphans, owed, stops>>
    BY <1>1 DEF Prepare, SaveProposal, UpdateStatus, callVars
  <2>2. \A c \in Calls : p \notin batch[c]
    BY <2>1 DEF RepairInv, CallsDisjoint, CallDisjoint
  <2>3. Dated'
    BY <1>0, <1>a, <2>1 DEF Dated, Instance, PersistTypeOK
  <2>4. CallersKnown'
    <3>1. \A c \in Calls : \A q \in batch[c] : born'[q] = born[q]
      BY <1>0, <2>1, <2>2 DEF PersistTypeOK
    <3>. QED BY <1>a, <2>1, <3>1 DEF CallersKnown, Running, Instance
  <2>5. LiveStatus' /\ OneOwner'
    BY <1>0, <1>a, <2>1, <2>2 DEF LiveStatus, OneOwner
  <2>. QED BY <2>3, <2>4, <2>5 DEF Hands
<1>2. ASSUME NEW c \in Calls, NEW b \in Batches, Request(c), RefuseBatch(c, b) PROVE Hands'
  <2>1. /\ pc[c] = "idle" /\ pc' = [pc EXCEPT ![c] = "done"] /\ owed' \subseteq owed \cup {c}
        /\ UNCHANGED <<status, batch, born, up, orphans, stops>>
    BY <1>2 DEF Request, RefuseBatch, Return, OweFlush, proposalVars
  <2>. QED BY <1>0, <1>a, <2>1
       DEF Hands, Dated, CallersKnown, LiveStatus, OneOwner, Running, Instance, TypeOK, Active
<1>3. ASSUME NEW c \in Calls, NEW b \in Batches, Request(c), StartBatch(c, b),
             \A p \in Range(b) : born[p] = Instance
      PROVE  Hands'
  <2>1. /\ up /\ pc[c] = "idle" /\ pc' = [pc EXCEPT ![c] = "reading"] /\ owed' = owed
        /\ UNCHANGED <<born, up, orphans, stops>> /\ batch' = [batch EXCEPT ![c] = Range(b)]
        /\ status' = [p \in Proposals |-> IF p \in Range(b) THEN "approved" ELSE status[p]]
        /\ \A p \in Range(b) : status[p] = "pending"
    BY <1>0, <1>3 DEF Request, StartBatch, ValidBatch, OweFlush, UpdateStatus, TypeOK, Range
  <2>2. Range(b) \subseteq Proposals
    BY BatchRange
  <2>3. \A d \in Calls : pc[d] \in Active => batch[d] \cap Range(b) = {}
    <3>. SUFFICES ASSUME NEW d \in Calls, pc[d] \in Active, NEW p \in batch[d], p \in Range(b)
                  PROVE  FALSE
      OBVIOUS
    <3>1. CASE d \in orphans
      BY <1>0, <1>3, <1>a, <3>1 DEF CallersKnown, Instance
    <3>2. CASE d \notin orphans
      BY <1>a, <2>1, <3>2 DEF LiveStatus, Active
    <3>. QED BY <3>1, <3>2
  <2>4. c \notin orphans
    BY <1>a, <2>1 DEF CallersKnown, Running, Active
  <2>5. Dated'
    BY <1>a, <2>1 DEF Dated, Instance
  <2>6. CallersKnown'
    <3>. SUFFICES ASSUME NEW d \in Calls
                  PROVE  /\ d \in orphans' => Running(d)' /\ \A p \in batch'[d] : born'[p] < Instance'
                         /\ ~up' /\ Running(d)' => d \in orphans'
                         /\ d \in owed' => pc'[d] = "done"
      BY DEF CallersKnown
    <3>1. CASE d = c
      BY <1>a, <2>1, <2>4, <3>1 DEF CallersKnown
    <3>2. CASE d # c
      <4>1. pc'[d] = pc[d] /\ batch'[d] = batch[d]
        BY <1>0, <2>1, <3>2 DEF TypeOK
      <4>. QED BY <1>a, <2>1, <4>1 DEF CallersKnown, Running, Instance
    <3>. QED BY <3>1, <3>2
  <2>7. OneOwner'
    BY <1>0, <1>a, <2>1, <2>3 DEF OneOwner, TypeOK
  <2>8. LiveStatus'
    <3>. SUFFICES ASSUME NEW d \in Calls, NEW p \in batch'[d], d \notin orphans
                  PROVE  /\ pc'[d] = "reading" => status'[p] = "approved"
                         /\ pc'[d] \in {"writing", "rolling"} => status'[p] = "applying"
      BY <2>1 DEF LiveStatus
    <3>1. CASE d = c
      BY <1>0, <2>1, <2>2, <3>1 DEF TypeOK
    <3>2. CASE d # c
      <4>1. pc'[d] = pc[d] /\ p \in batch[d] /\ p \in Proposals
        BY <1>0, <2>1, <3>2 DEF TypeOK
      <4>2. pc[d] \in Active => status'[p] = status[p]
        BY <2>1, <2>3, <4>1
      <4>. QED BY <1>a, <4>1, <4>2 DEF LiveStatus, Active
    <3>. QED BY <3>1, <3>2
  <2>. QED BY <2>5, <2>6, <2>7, <2>8 DEF Hands
<1>4. ASSUME NEW c \in Calls, Proceed(c) PROVE Hands'
  <2>1. /\ CallStep(c) /\ c \notin orphans /\ up /\ UNCHANGED <<born, up, orphans, stops>>
        /\ owed' = IF pc'[c] = "done" THEN owed \cup {c} ELSE owed
    BY <1>4 DEF Proceed, OweFlush
  <2>2. /\ batch' = batch /\ Running(c) /\ (Running(c)' \/ pc'[c] = "done")
        /\ \A d \in Calls : d # c => pc'[d] = pc[d]
        /\ pc'[c] \in Active => pc[c] \in Active
        /\ pc[c] = "reindexing" => status' = status
        /\ \A p \in Proposals : p \notin batch[c] => status'[p] = status[p]
    BY <1>0, <2>1, CallStepFrame
  <2>3. Dated' /\ OneOwner'
    BY <1>a, <2>1, <2>2 DEF Dated, Instance, OneOwner
  <2>4. CallersKnown'
    <3>. SUFFICES ASSUME NEW d \in Calls
                  PROVE  /\ d \in orphans => Running(d)' /\ \A p \in batch[d] : born[p] < Instance
                         /\ d \in owed' => pc'[d] = "done"
      BY <2>1, <2>2 DEF CallersKnown, Instance
    <3>1. CASE d = c
      BY <1>a, <2>1, <2>2, <3>1 DEF CallersKnown, Running, Active
    <3>2. CASE d # c
      BY <1>a, <2>1, <2>2, <3>2 DEF CallersKnown, Running
    <3>. QED BY <3>1, <3>2
  <2>5. LiveStatus'
    <3>. SUFFICES ASSUME NEW d \in Calls, NEW p \in batch[d], d \notin orphans
                  PROVE  /\ pc'[d] = "reading" => status'[p] = "approved"
                         /\ pc'[d] \in {"writing", "rolling"} => status'[p] = "applying"
      BY <2>1, <2>2 DEF LiveStatus
    <3>1. CASE d = c
      BY <1>0, <1>a, <2>1, <3>1, CallStepStatus DEF LiveStatus
    <3>2. CASE d # c /\ pc[c] \in Active /\ pc[d] \in Active
      BY <1>0, <1>a, <2>2, <3>2 DEF LiveStatus, OneOwner
    <3>3. CASE d # c /\ pc[d] \notin Active
      BY <2>2, <3>3 DEF Active
    <3>4. CASE d # c /\ pc[c] \notin Active
      BY <1>a, <2>2, <3>4 DEF LiveStatus, Running
    <3>. QED BY <3>1, <3>2, <3>3, <3>4
  <2>. QED BY <2>3, <2>4, <2>5 DEF Hands
<1>5. ASSUME NEW c \in Calls, OrphanWrites(c) \/ OrphanPasses(c) PROVE Hands'
  <2>1. /\ c \in orphans /\ UNCHANGED <<status, batch, diskVars>>
        /\ \A d \in Calls : d # c => pc'[d] = pc[d]
        /\ pc[c] \in Active /\ pc'[c] \in Active
    BY <1>0, <1>5, OrphanFrame
  <2>. QED BY <1>0, <1>a, <2>1
       DEF Hands, Dated, CallersKnown, LiveStatus, OneOwner, Running, Instance, Active
<1>6. ASSUME NEW c \in Calls, OrphanEnds(c) PROVE Hands'
  <2>1. /\ c \in orphans /\ orphans' = orphans \ {c} /\ pc' = [pc EXCEPT ![c] = "done"]
        /\ UNCHANGED <<status, batch, born, up, owed, stops>>
    BY <1>6 DEF OrphanEnds, proposalVars
  <2>. QED BY <1>0, <1>a, <2>1
       DEF Hands, Dated, CallersKnown, LiveStatus, OneOwner, Running, Instance, Active, TypeOK
<1>7. CASE Crash
  <2>1. /\ pc' = [c \in Calls |-> IF Running(c) THEN "done" ELSE pc[c]] /\ orphans' = {} /\ owed' = {}
        /\ stops' = stops + 1 /\ up' = FALSE /\ UNCHANGED <<born, batch>>
    BY <1>7 DEF Crash
  <2>2. \A c \in Calls : ~Running(c)'
    BY <2>1 DEF Running, Active
  <2>3. Dated'
    BY <1>0, <1>a, <2>1 DEF Dated, Instance
  <2>4. CallersKnown' /\ LiveStatus' /\ OneOwner'
    BY <2>1, <2>2 DEF CallersKnown, LiveStatus, OneOwner, Running, Active
  <2>. QED BY <2>3, <2>4 DEF Hands
<1>8. CASE Unload
  <2>1. /\ stops' = stops + 1 /\ owed' = {} /\ orphans' = orphans \cup {c \in Calls : Running(c)}
        /\ up' = FALSE /\ UNCHANGED <<born, pc, batch, status>>
    BY <1>8 DEF Unload, vars, callVars, proposalVars
  <2>2. Dated'
    BY <1>0, <1>a, <2>1 DEF Dated, Instance
  <2>3. CallersKnown'
    <3>. SUFFICES ASSUME NEW c \in Calls
                  PROVE  /\ c \in orphans' => Running(c) /\ \A p \in batch[c] : born[p] < Instance'
                         /\ Running(c) => c \in orphans'
      BY <2>1 DEF CallersKnown, Running
    <3>1. c \in orphans' => Running(c)
      BY <1>a, <2>1 DEF CallersKnown
    <3>2. \A p \in batch[c] : born[p] < Instance'
      BY <1>0, <1>a, <2>1 DEF Dated, Instance
    <3>. QED BY <2>1, <3>1, <3>2
  <2>4. LiveStatus' /\ OneOwner'
    BY <1>a, <2>1 DEF LiveStatus, OneOwner
  <2>. QED BY <2>2, <2>3, <2>4 DEF Hands
<1>9. CASE Load
  <2>1. ~up /\ up' = TRUE /\ UNCHANGED <<born, pc, batch, owed, orphans, stops>>
    BY <1>9 DEF Load, callVars
  <2>2. \A c \in Calls : c \notin orphans => pc[c] \notin Active
    BY <1>a, <2>1 DEF CallersKnown, Running
  <2>. QED BY <1>a, <2>1, <2>2
       DEF Hands, Dated, CallersKnown, LiveStatus, OneOwner, Running, Instance, Active
<1>10. CASE \/ FlushOther \/ Land \/ Edit \/ UNCHANGED allVars
            \/ \E c \in Calls : FlushResult(c)
  <2>1. UNCHANGED <<status, pc, batch, born, up, orphans, stops>> /\ owed' \subseteq owed
    BY <1>10 DEF FlushOther, Land, Edit, allVars, FlushResult, UserEdit, vars, callVars, proposalVars
  <2>. QED BY <1>a, <2>1
       DEF Hands, Dated, CallersKnown, LiveStatus, OneOwner, Running, Instance, Active
<1>. QED
  BY <1>1, <1>2, <1>3, <1>4, <1>5, <1>6, <1>7, <1>8, <1>9, <1>10 DEF PersistNext, Request

-----------------------------------------------------------------------------
(* What has been written, and what is said of it.                          *)

\* A step takes an operation out of a note only for the user, or for the call
\* that works on it.
LEMMA NoteStep ==
  ASSUME PersistTypeOK, CallShape, [PersistNext]_allVars,
         NEW o \in Operations, InVault(o) \/ o \in reverted
  PROVE  \/ InVault(o)' \/ o \in reverted'
         \/ \E c \in Calls : pc[c] = "rolling" /\ o.proposal \in batch[c]
<1>. USE DEF proposalVars, callVars, userVars, diskVars, vars
<1>0. TypeOK /\ o.path \in Notes
  BY OperationsAssumption DEF PersistTypeOK
<1>1. ASSUME NEW n \in Notes, NEW t \in Texts, NEW kept \in SUBSET note[n].ops,
             UserEdit(n, t, kept)
      PROVE  InVault(o)' \/ o \in reverted'
  BY <1>0, <1>1 DEF UserEdit, InVault, TypeOK
<1>2. ASSUME NEW c \in Calls, NEW n \in Notes, Write(c, n) PROVE InVault(o)' \/ o \in reverted'
  <2>1. note[n] = got[c][n] /\ note' = [note EXCEPT ![n] = Splice(note[n], OpsAt(batch[c], n))]
        /\ reverted' = reverted /\ note[n] \in Content
    BY <1>0, <1>2 DEF Write, WriteIfCurrent, TypeOK
  <2>2. InVault(o) => InVault(o)'
    BY <1>0, <2>1 DEF InVault, Splice, TypeOK, Content
  <2>. QED BY <2>1, <2>2
<1>3. ASSUME NEW c \in Calls, NEW n \in Notes, Rollback(c, n), o.proposal \notin batch[c]
      PROVE  InVault(o)' \/ o \in reverted'
  <2>1. got[c][n] \in Content
    BY <1>0, <1>3 DEF Rollback, CallShape, AllRead, TypeOK, Active
  <2>2. o \notin OpsAt(batch[c], n)
    BY <1>3 DEF OpsAt, OpsOf
  <2>3. InVault(o) => InVault(o)'
    BY <1>0, <1>3, <2>1, <2>2 DEF Rollback, WriteIfCurrent, Splice, InVault, TypeOK, Content
  <2>. QED BY <1>3, <2>3 DEF Rollback
<1>4. CASE UNCHANGED <<note, reverted>>
  BY <1>4 DEF InVault
<1>5. ASSUME NEW c \in Calls, CallStep(c) \/ OrphanWrites(c)
      PROVE  \/ UNCHANGED <<note, reverted>>
             \/ \E n \in Notes : Write(c, n) \/ Rollback(c, n)
  BY <1>5 DEF OrphanWrites, CallStep, ReadFails, PreflightStale, PreflightCanceled,
              PreflightPasses, WriteFails, FinishApplied, Reindexed, FinishRollback, Read, RollbackFails
<1>6. ASSUME NEW c \in Calls, NEW n \in Notes, Rollback(c, n) PROVE pc[c] = "rolling"
  BY <1>6 DEF Rollback
<1>7. CASE \E p \in Proposals : Prepare(p)
  BY <1>4, <1>7 DEF Prepare, SaveProposal
<1>8. ASSUME NEW c \in Calls, Request(c) PROVE UNCHANGED <<note, reverted>>
  BY <1>8 DEF Request, RefuseBatch, StartBatch
<1>9. ASSUME NEW c \in Calls, Proceed(c) \/ OrphanWrites(c)
      PROVE  \/ InVault(o)' \/ o \in reverted'
             \/ \E d \in Calls : pc[d] = "rolling" /\ o.proposal \in batch[d]
  <2>1. ASSUME NEW n \in Notes, Write(c, n) \/ Rollback(c, n)
        PROVE  \/ InVault(o)' \/ o \in reverted'
               \/ pc[c] = "rolling" /\ o.proposal \in batch[c]
    BY <1>2, <1>3, <1>6, <2>1
  <2>2. \/ UNCHANGED <<note, reverted>>
        \/ \E n \in Notes : Write(c, n) \/ Rollback(c, n)
    BY <1>5, <1>9 DEF Proceed
  <2>. QED BY <1>4, <2>1, <2>2
<1>10. CASE Edit
  BY <1>1, <1>10 DEF Edit
<1>11. ASSUME NEW c \in Calls, FlushResult(c) \/ OrphanPasses(c) \/ OrphanEnds(c)
       PROVE  UNCHANGED <<note, reverted>>
  BY <1>11 DEF FlushResult, OrphanPasses, OrphanEnds
<1>12. CASE FlushOther \/ Land \/ Crash \/ Unload \/ Load \/ UNCHANGED allVars
  BY <1>4, <1>12 DEF FlushOther, Land, Crash, Unload, Load, allVars
<1>. QED
  BY <1>4, <1>7, <1>8, <1>9, <1>10, <1>11, <1>12 DEF PersistNext

\* What a call has written stays there until it is rolled back.
LEMMA WrittenStep ==
  PersistTypeOK /\ CallShape /\ Hands /\ WrittenIsThere /\ [PersistNext]_allVars => WrittenIsThere'
<1>. SUFFICES ASSUME PersistTypeOK, CallShape, Hands, WrittenIsThere, [PersistNext]_allVars,
                     NEW c \in Calls, NEW o \in Operations, o.proposal \in batch'[c],
                     pc'[c] = "writing", o.path \in done'[c]
              PROVE  InVault(o)' \/ o \in reverted'
  BY DEF WrittenIsThere, OpsOf, InVault
<1>. USE DEF proposalVars, callVars, userVars, diskVars, vars
<1>0. TypeOK /\ OneOwner
  BY DEF PersistTypeOK, Hands
<1>1. CASE pc[c] = "writing" /\ o.path \in done[c] /\ batch'[c] = batch[c]
  <2>1. InVault(o) \/ o \in reverted
    BY <1>1 DEF WrittenIsThere, OpsOf
  <2>2. ASSUME NEW d \in Calls, pc[d] = "rolling" PROVE o.proposal \notin batch[d]
    BY <1>0, <1>1, <2>2 DEF OneOwner, Active
  <2>. QED BY <2>1, <2>2, NoteStep
<1>2. ASSUME NEW n \in Notes, Write(c, n), n = o.path PROVE InVault(o)'
  <2>1. o \in OpsAt(batch[c], n) /\ got[c][n] \in Content
    BY <1>0, <1>2 DEF Write, WriteIfCurrent, OpsAt, OpsOf, TypeOK
  <2>. QED BY <1>0, <1>2, <2>1 DEF Write, WriteIfCurrent, Splice, InVault, TypeOK, Content
<1>3. ASSUME NEW d \in Calls, CallStep(d) \/ OrphanWrites(d)
      PROVE  \/ pc[c] = "writing" /\ o.path \in done[c] /\ batch'[c] = batch[c]
             \/ \E n \in Notes : Write(c, n) /\ n = o.path
  <2>1. ASSUME NEW n \in Notes, Write(d, n)
        PROVE  \/ pc[c] = "writing" /\ o.path \in done[c] /\ batch'[c] = batch[c]
               \/ \E m \in Notes : Write(c, m) /\ m = o.path
    BY <1>0, <2>1 DEF Write, TypeOK
  <2>2. ASSUME NEW n \in Notes, Read(d, n) \/ Rollback(d, n) \/ RollbackFails(d, n)
        PROVE  pc[c] = "writing" /\ o.path \in done[c] /\ batch'[c] = batch[c]
    BY <1>0, <2>2 DEF Read, Rollback, RollbackFails, TypeOK
  <2>3. CASE PreflightPasses(d)
    <3>1. UNCHANGED <<batch, done>> /\ pc[d] = "reading" /\ \A e \in Calls : e # d => pc'[e] = pc[e]
      BY <1>0, <2>3 DEF PreflightPasses, Return, TypeOK
    <3>2. c # d
      BY <3>1 DEF CallShape
    <3>. QED BY <3>1, <3>2
  <2>4. CASE \/ ReadFails(d) \/ PreflightStale(d) \/ PreflightCanceled(d)
             \/ WriteFails(d) \/ FinishApplied(d) \/ Reindexed(d) \/ FinishRollback(d)
    BY <1>0, <2>4 DEF ReadFails, PreflightStale, PreflightCanceled, WriteFails, FinishApplied,
                      Reindexed, FinishRollback, Return, TypeOK
  <2>. QED BY <1>3, <2>1, <2>2, <2>3, <2>4 DEF CallStep, OrphanWrites
<1>4. ASSUME NEW d \in Calls, Request(d)
      PROVE  pc[c] = "writing" /\ o.path \in done[c] /\ batch'[c] = batch[c]
  <2>1. ASSUME NEW b \in Batches, RefuseBatch(d, b)
        PROVE  pc[c] = "writing" /\ o.path \in done[c] /\ batch'[c] = batch[c]
    BY <1>0, <2>1 DEF RefuseBatch, Return, TypeOK
  <2>2. ASSUME NEW b \in Batches, StartBatch(d, b)
        PROVE  pc[c] = "writing" /\ o.path \in done[c] /\ batch'[c] = batch[c]
    BY <1>0, <2>2 DEF StartBatch, TypeOK
  <2>. QED BY <1>4, <2>1, <2>2 DEF Request
<1>5. ASSUME NEW d \in Calls, OrphanPasses(d) \/ OrphanEnds(d)
      PROVE  pc[c] = "writing" /\ o.path \in done[c] /\ batch'[c] = batch[c]
  <2>1. CASE OrphanPasses(d)
    <3>1. c # d
      BY <2>1 DEF OrphanPasses, CallShape
    <3>. QED BY <1>0, <2>1, <3>1 DEF OrphanPasses, TypeOK
  <2>2. CASE OrphanEnds(d)
    BY <1>0, <2>2 DEF OrphanEnds, TypeOK
  <2>. QED BY <1>5, <2>1, <2>2
<1>6. CASE Crash
  BY <1>1, <1>6 DEF Crash, Running
<1>7. CASE \/ FlushOther \/ Land \/ Unload \/ Load \/ Edit \/ UNCHANGED allVars
           \/ \E p \in Proposals : Prepare(p)
           \/ \E d \in Calls : FlushResult(d)
  BY <1>1, <1>7 DEF FlushOther, Land, Unload, Load, Edit, UserEdit, allVars, Prepare, SaveProposal,
                    FlushResult
<1>. QED
  BY <1>1, <1>2, <1>3, <1>4, <1>5, <1>6, <1>7 DEF PersistNext, Proceed

\* The file says no more than the tables: what becomes said of a repair is
\* said of it in the tables first.
LEMMA SaidStep ==
  ASSUME PersistTypeOK, [PersistNext]_allVars, NEW p \in Proposals, SaidApplied(p)'
  PROVE  SaidApplied(p) \/ status'[p] = "applied"
<1>. USE DEF diskVars
<1>0. writes \in Seq([status : [Proposals -> Status], trail : [Proposals -> Seq(Actions)]])
  BY DEF PersistTypeOK
<1>1. CASE UNCHANGED <<disk, writes>>
  BY <1>1 DEF SaidApplied
<1>2. CASE Flush /\ UNCHANGED disk
  <2>1. \A i \in 1..Len(writes') :
          writes'[i] = IF i = Len(writes) + 1 THEN Image' ELSE writes[i]
    BY <1>0, <1>2 DEF Flush
  <2>2. \A i \in 1..Len(writes') : i # Len(writes) + 1 => i \in 1..Len(writes)
    BY <1>0, <1>2 DEF Flush
  <2>. QED BY <1>2, <2>1, <2>2 DEF SaidApplied, Image
<1>3. CASE Land
  <2>1. disk' = writes[1] /\ Len(writes) \in Nat /\ 1 \in 1..Len(writes)
    BY <1>0, <1>3 DEF Land
  <2>2. \A i \in 1..Len(writes') : writes'[i] = writes[i + 1] /\ i + 1 \in 1..Len(writes)
    BY <1>0, <1>3 DEF Land
  <2>. QED BY <1>3, <2>1, <2>2 DEF SaidApplied
<1>4. CASE Crash
  BY <1>4 DEF Crash, SaidApplied
<1>5. UNCHANGED <<disk, writes>> \/ (Flush /\ UNCHANGED disk) \/ Land \/ Crash
  BY DEF PersistNext, allVars, Prepare, Request, Proceed, FlushResult, FlushOther, Unload, Load,
         OrphanWrites, OrphanPasses, OrphanEnds, Edit
<1>. QED BY <1>1, <1>2, <1>3, <1>4, <1>5

\* A step that makes the tables say "applied" of a repair ends a call that has
\* written it whole, or loads what the file says.
LEMMA AppliedStep ==
  ASSUME PersistTypeOK, [PersistNext]_allVars, NEW p \in Proposals,
         status'[p] = "applied", ~SaidApplied(p)
  PROVE  \E c \in Calls : Proceed(c) /\ FinishApplied(c) /\ p \in batch[c]
<1>. USE DEF proposalVars, callVars, userVars, diskVars, vars, UpdateStatus
<1>0. TypeOK /\ status[p] # "applied" /\ disk.status[p] # "applied"
  BY DEF PersistTypeOK, SaidApplied
<1>1. ASSUME NEW q \in Proposals, Prepare(q) PROVE FALSE
  BY <1>0, <1>1 DEF Prepare, SaveProposal
<1>2. ASSUME NEW c \in Calls, Request(c) PROVE FALSE
  BY <1>0, <1>2 DEF Request, RefuseBatch, StartBatch
<1>3. ASSUME NEW c \in Calls, CallStep(c) PROVE FinishApplied(c) /\ p \in batch[c]
  BY <1>0, <1>3 DEF CallStep, ReadFails, PreflightStale, PreflightCanceled, PreflightPasses,
    WriteFails, FinishApplied, Reindexed, FinishRollback, Read, Write, Rollback, RollbackFails
<1>4. ASSUME NEW c \in Calls, OrphanWrites(c) \/ OrphanPasses(c) PROVE FALSE
  BY <1>0, <1>4, OrphanFrame
<1>5. CASE Load
  BY <1>0, <1>5 DEF Load
<1>6. CASE \/ FlushOther \/ Land \/ Unload \/ Crash \/ Edit \/ UNCHANGED allVars
           \/ \E c \in Calls : FlushResult(c) \/ OrphanEnds(c)
  BY <1>0, <1>6 DEF FlushOther, Land, Unload, Crash, Edit, UserEdit, allVars, FlushResult, OrphanEnds
<1>. QED
  BY <1>1, <1>2, <1>3, <1>4, <1>5, <1>6 DEF PersistNext, Proceed

\* No call is started on a repair that is said to be applied, and none takes
\* it out of the tables but a load.
LEMMA SettledStays ==
  ASSUME PersistTypeOK, Hands, SaidIsSettled, [PersistNext]_allVars,
         NEW p \in Proposals, SaidApplied(p)
  PROVE  InNoHand(p)' /\ born'[p] # 0 /\ (status'[p] = "applied" \/ born'[p] < Instance')
<1>. USE DEF proposalVars, callVars, userVars, diskVars, vars, Instance
<1>0. /\ TypeOK /\ stops \in Nat /\ born[p] \in Nat
      /\ \A c \in Calls : batch[c] \subseteq Proposals
  BY StopsAssumption DEF PersistTypeOK, TypeOK
<1>a. /\ InNoHand(p) /\ born[p] # 0 /\ (status[p] = "applied" \/ born[p] < Instance)
      /\ Dated
  BY DEF SaidIsSettled, Hands
<1>1. ASSUME NEW q \in Proposals, Prepare(q)
      PROVE  /\ UNCHANGED <<pc, batch, stops>> /\ born'[p] = born[p] /\ status'[p] = status[p]
  <2>1. q # p
    BY <1>a, <1>1 DEF Prepare
  <2>. QED BY <1>1, <2>1 DEF Prepare, SaveProposal, UpdateStatus, PersistTypeOK
<1>2. ASSUME NEW c \in Calls, Request(c)
      PROVE  InNoHand(p)' /\ status'[p] = status[p] /\ UNCHANGED <<born, stops>>
  <2>1. PICK b \in Batches :
          (\A q \in Range(b) : born[q] = Instance) /\ (RefuseBatch(c, b) \/ StartBatch(c, b))
    BY <1>2 DEF Request
  <2>2. UNCHANGED <<born, stops>>
    BY <1>2 DEF Request
  <2>3. CASE RefuseBatch(c, b)
    BY <1>0, <1>a, <2>2, <2>3 DEF RefuseBatch, Return, InNoHand, Active, TypeOK
  <2>4. CASE StartBatch(c, b)
    <3>1. \A q \in Range(b) : status[q] = "pending"
      BY <2>4 DEF StartBatch, ValidBatch, Range
    <3>2. p \notin Range(b)
      BY <1>0, <1>a, <2>1, <3>1
    <3>3. InNoHand(p)'
      BY <1>0, <1>a, <2>4, <3>2 DEF StartBatch, InNoHand, TypeOK
    <3>. QED BY <2>2, <2>4, <3>2, <3>3 DEF StartBatch, UpdateStatus
  <2>. QED BY <2>1, <2>3, <2>4
<1>3. ASSUME NEW c \in Calls, Proceed(c)
      PROVE  InNoHand(p)' /\ status'[p] = status[p] /\ UNCHANGED <<born, stops>>
  <2>1. CallStep(c) /\ UNCHANGED <<born, stops>>
    BY <1>3 DEF Proceed
  <2>2. /\ UNCHANGED batch /\ \A d \in Calls : d # c => pc'[d] = pc[d]
        /\ pc'[c] \in Active => pc[c] \in Active
        /\ pc[c] = "reindexing" => status' = status
        /\ pc[c] \in Active \cup {"reindexing"}
        /\ p \notin batch[c] => status'[p] = status[p]
    BY <1>0, <2>1, CallStepFrame DEF Running
  <2>3. InNoHand(p)'
    BY <1>a, <2>2 DEF InNoHand
  <2>4. status'[p] = status[p]
    BY <1>a, <2>2 DEF InNoHand
  <2>. QED BY <2>1, <2>3, <2>4
<1>4. ASSUME NEW c \in Calls, OrphanWrites(c) \/ OrphanPasses(c)
      PROVE  InNoHand(p)' /\ status'[p] = status[p] /\ UNCHANGED <<born, stops>>
  BY <1>0, <1>a, <1>4, OrphanFrame DEF InNoHand
<1>5. ASSUME NEW c \in Calls, OrphanEnds(c)
      PROVE  InNoHand(p)' /\ status'[p] = status[p] /\ UNCHANGED <<born, stops>>
  BY <1>0, <1>a, <1>5 DEF OrphanEnds, InNoHand, TypeOK, Active
<1>6. CASE Crash
  <2>1. InNoHand(p)'
    BY <1>6 DEF Crash, InNoHand, Running, Active
  <2>2. stops' = stops + 1 /\ born' = born /\ born[p] <= Instance
    BY <1>a, <1>6 DEF Crash, Dated
  <2>. QED BY <1>0, <1>a, <2>1, <2>2
<1>7. CASE Unload
  BY <1>0, <1>a, <1>7 DEF Unload, InNoHand
<1>8. CASE Load
  BY <1>0, <1>a, <1>8 DEF Load, InNoHand, Dated
<1>9. CASE \/ FlushOther \/ Land \/ Edit \/ UNCHANGED allVars
           \/ \E c \in Calls : FlushResult(c)
  BY <1>a, <1>9 DEF FlushOther, Land, Edit, UserEdit, allVars, FlushResult, InNoHand
<1>10. CASE /\ UNCHANGED <<pc, batch, stops>> /\ born'[p] = born[p] /\ status'[p] = status[p]
  BY <1>a, <1>10 DEF InNoHand
<1>. QED
  BY <1>a, <1>1, <1>2, <1>3, <1>4, <1>5, <1>6, <1>7, <1>8, <1>9, <1>10 DEF PersistNext

\* What is said to be applied is whole, and stays so.
LEMMA SettledStep ==
  PersistTypeOK /\ CallShape /\ RepairInv /\ Hands /\ WrittenIsThere /\ SaidIsSettled
       /\ [PersistNext]_allVars
    => SaidIsSettled'
<1>. SUFFICES ASSUME PersistTypeOK, CallShape, RepairInv, Hands, WrittenIsThere, SaidIsSettled,
                     [PersistNext]_allVars, NEW p \in Proposals, SaidApplied(p)'
              PROVE  /\ Whole(p)' /\ InNoHand(p)' /\ born'[p] # 0
                     /\ status'[p] = "applied" \/ born'[p] < Instance'
  BY DEF SaidIsSettled
<1>0. TypeOK /\ OneOwner
  BY DEF PersistTypeOK, Hands
<1>1. CASE SaidApplied(p)
  <2>1. Whole(p) /\ InNoHand(p)
    BY <1>1 DEF SaidIsSettled
  <2>2. ASSUME NEW o \in OpsOf({p}) PROVE InVault(o)' \/ o \in reverted'
    <3>1. o \in Operations /\ o.proposal = p /\ (InVault(o) \/ o \in reverted)
      BY <2>1 DEF Whole, OpsOf
    <3>2. \A c \in Calls : pc[c] = "rolling" => p \notin batch[c]
      BY <2>1 DEF InNoHand, Active
    <3>. QED BY <3>1, <3>2, NoteStep
  <2>3. Whole(p)'
    BY <2>2 DEF Whole, OpsOf
  <2>. QED BY <1>1, <2>3, SettledStays
<1>2. CASE ~SaidApplied(p)
  <2>1. status'[p] = "applied"
    BY <1>2, SaidStep
  <2>2. PICK c \in Calls : Proceed(c) /\ FinishApplied(c) /\ p \in batch[c]
    BY <1>2, <2>1, AppliedStep
  <2>3. /\ pc[c] = "writing" /\ PathsOf(batch[c]) \subseteq done[c]
        /\ pc' = [pc EXCEPT ![c] = IF kind[c] = "batch" THEN "reindexing" ELSE "done"]
        /\ UNCHANGED <<batch, note, reverted, born>>
    BY <2>2 DEF Proceed, FinishApplied, userVars
  <2>4. Whole(p)'
    <3>1. ASSUME NEW o \in OpsOf({p}) PROVE InVault(o) \/ o \in reverted
      <4>1. o \in OpsOf(batch[c]) /\ o.path \in done[c]
        BY <2>2, <2>3 DEF OpsOf, PathsOf
      <4>. QED BY <2>3, <4>1 DEF WrittenIsThere
    <3>. QED BY <2>3, <3>1 DEF Whole, OpsOf, InVault
  <2>5. InNoHand(p)'
    <3>1. \A d \in Calls : d # c /\ pc[d] \in Active => p \notin batch[d]
      BY <1>0, <2>2, <2>3 DEF OneOwner, Active
    <3>. QED BY <1>0, <2>3, <3>1 DEF InNoHand, TypeOK, Active
  <2>6. born'[p] # 0
    BY <2>2, <2>3 DEF RepairInv, CallsDisjoint, CallDisjoint
  <2>. QED BY <2>1, <2>4, <2>5, <2>6
<1>. QED BY <1>1, <1>2

-----------------------------------------------------------------------------
(* What is recorded of a decision.                                         *)

\* A flush hands over an image of all that is decided.
LEMMA FlushRecords ==
  ASSUME PersistTypeOK, Flush, NEW p \in Proposals
  PROVE  Recorded(p)'
<1>1. writes \in Seq([status : [Proposals -> Status], trail : [Proposals -> Seq(Actions)]])
  BY DEF PersistTypeOK
<1>2. writes' # <<>> /\ writes'[Len(writes')] = Image'
  BY <1>1 DEF Flush
<1>3. Latest' = Image'
  BY <1>2 DEF Latest
<1>. QED BY <1>3 DEF Recorded, Image

\* A write that lands leaves the newest image where it is.
LEMMA LandKeepsLatest ==
  ASSUME PersistTypeOK, Land
  PROVE  Latest' = Latest
<1>1. writes \in Seq([status : [Proposals -> Status], trail : [Proposals -> Seq(Actions)]])
  BY DEF PersistTypeOK
<1>2. writes # <<>> /\ disk' = Head(writes) /\ writes' = Tail(writes)
  BY DEF Land
<1>3. /\ Len(writes) \in Nat /\ Len(writes) # 0 /\ disk' = writes[1]
      /\ Len(writes') = Len(writes) - 1
  BY <1>1, <1>2
<1>4. writes' = <<>> <=> Len(writes') = 0
  <2>1. writes' \in Seq([status : [Proposals -> Status], trail : [Proposals -> Seq(Actions)]])
    BY <1>1, <1>2, LandType
  <2>. QED BY <2>1
<1>5. \A i \in 1..Len(writes') : writes'[i] = writes[i + 1]
  BY <1>1, <1>2
<1>6. CASE Len(writes) = 1
  BY <1>2, <1>6, <1>3, <1>4 DEF Latest
<1>7. CASE Len(writes) # 1
  <2>1. writes'[Len(writes')] = writes[Len(writes)]
    BY <1>7, <1>3, <1>5
  <2>. QED BY <1>2, <1>7, <1>3, <1>4, <2>1 DEF Latest
<1>. QED BY <1>6, <1>7

\* A call owes its flush from its last step on, and until then it runs.
LEMMA ResultsStep ==
  PersistTypeOK /\ Hands /\ ResultsOnTheirWay /\ [PersistNext]_allVars => ResultsOnTheirWay'
<1>. SUFFICES ASSUME PersistTypeOK, Hands, ResultsOnTheirWay, [PersistNext]_allVars, up',
                     NEW p \in Proposals, status'[p] \notin {"absent", "pending"}
              PROVE  \/ Recorded(p)'
                     \/ \E c \in Calls :
                          p \in batch'[c] /\ (c \in owed' \/ (Running(c)' /\ c \notin orphans'))
  BY DEF ResultsOnTheirWay
<1>. DEFINE Goal == \/ Recorded(p)'
                    \/ \E c \in Calls :
                         p \in batch'[c] /\ (c \in owed' \/ (Running(c)' /\ c \notin orphans'))
            Carried(c) == p \in batch[c] /\ (c \in owed \/ (Running(c) /\ c \notin orphans))
<1>. USE DEF diskVars
<1>0. TypeOK /\ CallersKnown
  BY DEF PersistTypeOK, Hands
<1>1. ASSUME up, status'[p] = status[p], trail'[p] = trail[p], UNCHANGED <<disk, writes>>,
             \A c \in Calls : Carried(c) =>
               p \in batch'[c] /\ (c \in owed' \/ (Running(c)' /\ c \notin orphans'))
      PROVE  Goal
  BY <1>1 DEF ResultsOnTheirWay, Recorded, Latest
<1>2. ASSUME Flush PROVE Goal
  BY <1>2, FlushRecords
<1>3. ASSUME NEW q \in Proposals, Prepare(q) PROVE Goal
  <2>1. /\ UNCHANGED <<pc, batch, owed, orphans, disk, writes, trail>> /\ up
        /\ status' = [r \in Proposals |-> IF r \in {q} THEN "pending" ELSE status[r]]
    BY <1>3 DEF Prepare, SaveProposal, UpdateStatus, callVars
  <2>2. status'[p] = status[p]
    BY <2>1
  <2>. QED BY <1>1, <2>1, <2>2 DEF Running
<1>4. ASSUME NEW c \in Calls, NEW b \in Batches, Request(c), RefuseBatch(c, b) PROVE Goal
  <2>1. /\ up /\ pc[c] = "idle" /\ pc' = [pc EXCEPT ![c] = "done"] /\ owed \subseteq owed'
        /\ UNCHANGED <<status, trail, batch, disk, writes, orphans>>
    BY <1>4 DEF Request, RefuseBatch, Return, OweFlush, proposalVars
  <2>2. \A d \in Calls : Running(d) => Running(d)'
    BY <1>0, <2>1 DEF Running, Active, TypeOK
  <2>. QED BY <1>1, <2>1, <2>2
<1>5. ASSUME NEW c \in Calls, NEW b \in Batches, Request(c), StartBatch(c, b) PROVE Goal
  <2>1. /\ up /\ pc[c] = "idle" /\ pc' = [pc EXCEPT ![c] = "reading"]
        /\ UNCHANGED <<disk, writes, orphans>> /\ batch' = [batch EXCEPT ![c] = Range(b)]
        /\ owed' = owed
        /\ status' = [q \in Proposals |-> IF q \in Range(b) THEN "approved" ELSE status[q]]
        /\ trail' = [q \in Proposals |-> IF q \in Range(b) THEN Append(trail[q], "approved") ELSE trail[q]]
    BY <1>0, <1>5 DEF Request, StartBatch, OweFlush, UpdateStatus, RecordApproval, TypeOK
  <2>2. c \notin orphans /\ Running(c)' /\ c \notin owed /\ ~Running(c)
    BY <1>0, <2>1 DEF CallersKnown, Running, Active, TypeOK
  <2>3. CASE p \in Range(b)
    BY <1>0, <2>1, <2>2, <2>3 DEF TypeOK
  <2>4. CASE p \notin Range(b)
    <3>1. \A d \in Calls : d # c => batch'[d] = batch[d] /\ (Running(d) => Running(d)')
      BY <1>0, <2>1 DEF Running, TypeOK
    <3>2. \A d \in Calls : Carried(d) => d # c
      BY <2>2
    <3>. QED BY <1>1, <2>1, <2>4, <3>1, <3>2
  <2>. QED BY <2>3, <2>4
<1>6. ASSUME NEW c \in Calls, Proceed(c) PROVE Goal
  <2>1. /\ up /\ c \notin orphans /\ CallStep(c) /\ UNCHANGED <<disk, writes, orphans>>
        /\ owed' = IF pc'[c] = "done" THEN owed \cup {c} ELSE owed
    BY <1>6 DEF Proceed, OweFlush
  <2>2. /\ batch' = batch /\ (Running(c)' \/ pc'[c] = "done")
        /\ \A d \in Calls : d # c => pc'[d] = pc[d]
        /\ p \notin batch[c] => status'[p] = status[p] /\ trail'[p] = trail[p]
    BY <1>0, <2>1, CallStepFrame
  <2>3. c \in owed' \/ (Running(c)' /\ c \notin orphans')
    BY <2>1, <2>2
  <2>4. CASE p \in batch[c]
    BY <2>2, <2>3, <2>4
  <2>5. CASE p \notin batch[c]
    <3>1. \A d \in Calls : Running(d) /\ d # c => Running(d)'
      BY <2>2 DEF Running
    <3>. QED BY <1>1, <2>1, <2>2, <2>5, <3>1
  <2>. QED BY <2>4, <2>5
<1>7. ASSUME NEW c \in Calls, OrphanWrites(c) \/ OrphanPasses(c) PROVE Goal
  <2>1. /\ c \in orphans /\ UNCHANGED <<status, trail, batch, diskVars>>
        /\ \A d \in Calls : d # c => pc'[d] = pc[d]
    BY <1>0, <1>7, OrphanFrame
  <2>. QED BY <1>1, <2>1 DEF Running
<1>8. ASSUME NEW c \in Calls, OrphanEnds(c) PROVE Goal
  <2>1. /\ c \in orphans /\ orphans' = orphans \ {c} /\ pc' = [pc EXCEPT ![c] = "done"]
        /\ UNCHANGED <<status, trail, batch, up, disk, writes, owed>>
    BY <1>8 DEF OrphanEnds, proposalVars
  <2>2. \A d \in Calls : d \notin orphans /\ Running(d) => Running(d)'
    BY <1>0, <2>1 DEF Running, TypeOK
  <2>. QED BY <1>1, <2>1, <2>2
<1>9. CASE Land
  <2>1. Latest' = Latest /\ UNCHANGED <<status, trail, batch, pc, up, owed, orphans>>
    BY <1>9, LandKeepsLatest DEF Land, vars, proposalVars, callVars
  <2>. QED BY <2>1 DEF ResultsOnTheirWay, Recorded, Running
<1>10. CASE Edit \/ UNCHANGED allVars
  <2>1. UNCHANGED <<status, trail, batch, pc, diskVars>>
    BY <1>10 DEF Edit, UserEdit, allVars, vars, proposalVars, callVars
  <2>. QED BY <1>1, <2>1 DEF Running
<1>11. CASE Crash
  BY <1>11 DEF Crash
<1>12. CASE FlushOther \/ Unload \/ Load \/ \E c \in Calls : FlushResult(c)
  BY <1>2, <1>12 DEF FlushOther, Unload, Load, FlushResult
<1>. QED
  BY <1>3, <1>4, <1>5, <1>6, <1>7, <1>8, <1>9, <1>10, <1>11, <1>12 DEF PersistNext, Request

-----------------------------------------------------------------------------
\* The inductive invariant holds of a vault without repairs and an empty file.
LEMMA PersistInvInit == PersistInit => PersistInv
<1>. SUFFICES ASSUME PersistInit PROVE PersistInv
  OBVIOUS
<1>1. WorkflowInv
  BY InvInit DEF PersistInit
<1>2. TypeOK /\ CallShape /\ OneOwner /\ WrittenIsThere
  BY <1>1 DEF WorkflowInv
<1>. USE DEF PersistInit, Init
<1>3. PersistTypeOK
  <2>1. Image \in [status : [Proposals -> Status], trail : [Proposals -> Seq(Actions)]]
    BY <1>2 DEF Image, TypeOK
  <2>2. 0 \in 0..MaxStops /\ 0 \in 0..(MaxStops + 1)
    BY StopsAssumption
  <2>. QED BY <1>2, <2>1, <2>2 DEF PersistTypeOK
<1>4. RepairInv
  <2>1. \A n \in Notes : note[n].ops = {}
    OBVIOUS
  <2>. QED BY <2>1
       DEF RepairInv, PreparedClean, SeenDisjoint, CallsDisjoint, CallDisjoint, NoDoubleRepair, Active
<1>5. Hands
  <2>1. \A c \in Calls : ~Running(c)
    BY DEF Running, Active
  <2>2. Dated /\ CallersKnown /\ LiveStatus
    BY <2>1 DEF Dated, Instance, CallersKnown, LiveStatus
  <2>. QED BY <1>2, <2>2 DEF Hands
<1>6. SaidIsSettled
  BY DEF SaidIsSettled, SaidApplied, Image
<1>7. ResultsOnTheirWay
  BY DEF ResultsOnTheirWay
<1>. QED BY <1>2, <1>3, <1>4, <1>5, <1>6, <1>7 DEF PersistInv

\* Every step of the plugin, the process and the user keeps it.
THEOREM PersistInvariant == PersistSpec => []PersistInv
<1>1. PersistInv /\ [PersistNext]_allVars => PersistInv'
  BY PersistTypeStep, RepairStep, HandsStep, WrittenStep, SettledStep, ResultsStep DEF PersistInv
<1>. QED BY <1>1, PersistInvInit, PTL DEF PersistSpec

\* The tables, the images on their way and the file stay well typed.
THEOREM PersistTypes == PersistSpec => []PersistTypeOK
<1>1. PersistInv => PersistTypeOK
  BY DEF PersistInv
<1>. QED BY <1>1, PersistInvariant, PTL

\* No note ever holds two repairs of the same characters, whatever crashed, was
\* reloaded, prepared anew or still runs.
THEOREM RepairedOnce == PersistSpec => []NoDoubleRepair
<1>1. PersistInv => NoDoubleRepair
  BY DEF PersistInv, RepairInv
<1>. QED BY <1>1, PersistInvariant, PTL

\* At rest, the file holds each decision and each result.
THEOREM NothingToLose == PersistSpec => []AtRestRecorded
<1>1. PersistInv => AtRestRecorded
  BY DEF PersistInv, ResultsOnTheirWay, Recorded, Latest, AtRestRecorded
<1>. QED BY <1>1, PersistInvariant, PTL

\* The file says "applied" only of repairs that are in the notes whole, but for
\* what the user took out.
THEOREM DiskTellsTheTruth == PersistSpec => []DiskAppliedIsWhole
<1>1. PersistInv => DiskAppliedIsWhole
  BY DEF PersistInv, SaidIsSettled, SaidApplied, Whole, DiskAppliedIsWhole
<1>. QED BY <1>1, PersistInvariant, PTL

-----------------------------------------------------------------------------
(* The approvals in the file, unless the plugin is loaded again while the  *)
(* images of an earlier instance are on their way.                         *)

Rows == Seq(Actions)
\* A table that only grows: the order of the images of the approvals table.
Grows(old, new) == \A p \in Proposals : IsPrefix(old[p], new[p])

\* Each image is of a later table than the one that lands before it.
ImagesInOrder ==
  /\ ~up => writes = <<>>
  /\ up => Grows(Latest.trail, trail)
  /\ writes # <<>> => Grows(disk.trail, writes[1].trail)
  /\ \A i \in 1..(Len(writes) - 1) : Grows(writes[i].trail, writes[i + 1].trail)

\* A sequence is a prefix of itself and of what is appended to what it is a
\* prefix of.
LEMMA PrefixGrows ==
  ASSUME NEW s \in Rows, NEW t \in Rows, NEW a \in Actions, IsPrefix(s, t)
  PROVE  IsPrefix(s, Append(t, a)) /\ IsPrefix(t, t) /\ IsPrefix(t, Append(t, a))
<1>. USE DEF Rows, IsPrefix
<1>1. IsPrefix(t, t)
  OBVIOUS
<1>2. /\ Append(t, a) \in Rows /\ Len(Append(t, a)) = Len(t) + 1
      /\ \A i \in 1..Len(t) : Append(t, a)[i] = t[i]
  OBVIOUS
<1>3. ASSUME NEW r \in Rows, Len(r) <= Len(t), SubSeq(r, 1, Len(r)) = SubSeq(t, 1, Len(r))
      PROVE  SubSeq(r, 1, Len(r)) = SubSeq(Append(t, a), 1, Len(r))
  <2>1. SubSeq(t, 1, Len(r)) = SubSeq(Append(t, a), 1, Len(r))
    BY <1>2, <1>3
  <2>. QED BY <1>3, <2>1
<1>. QED BY <1>1, <1>2, <1>3

\* The approvals table only grows, but for a load.
LEMMA TrailGrows ==
  ASSUME TypeOK, [PersistNext]_allVars, ~Load, NEW p \in Proposals
  PROVE  trail'[p] = trail[p] \/ \E a \in Actions : trail'[p] = Append(trail[p], a)
<1>. USE DEF proposalVars, RecordApproval, Actions
<1>1. ASSUME NEW c \in Calls, CallStep(c)
      PROVE  trail'[p] = trail[p] \/ \E a \in Actions : trail'[p] = Append(trail[p], a)
  BY <1>1 DEF CallStep, ReadFails, PreflightStale, PreflightCanceled, PreflightPasses, WriteFails,
    FinishApplied, Reindexed, FinishRollback, Read, Write, Rollback, RollbackFails
<1>2. ASSUME NEW c \in Calls, Request(c)
      PROVE  trail'[p] = trail[p] \/ \E a \in Actions : trail'[p] = Append(trail[p], a)
  BY <1>2 DEF Request, RefuseBatch, StartBatch
<1>3. ASSUME NEW c \in Calls, OrphanWrites(c) \/ OrphanPasses(c) PROVE trail' = trail
  BY <1>3, OrphanFrame
<1>4. CASE \/ FlushOther \/ Land \/ Crash \/ Unload \/ Edit \/ UNCHANGED allVars
           \/ \E q \in Proposals : Prepare(q)
           \/ \E c \in Calls : FlushResult(c) \/ OrphanEnds(c)
  BY <1>4 DEF FlushOther, Land, Crash, Unload, Edit, UserEdit, allVars, vars, Prepare, SaveProposal,
              FlushResult, OrphanEnds
<1>. QED BY <1>1, <1>2, <1>3, <1>4 DEF PersistNext, Proceed

\* The file changes only when a write lands, and the images on their way only
\* by a flush, a landing or a crash.
LEMMA DiskSteps ==
  ASSUME "reload" \notin Stops, [PersistNext]_allVars
  PROVE  \/ UNCHANGED <<disk, writes, up>> /\ ~Load
         \/ up /\ UNCHANGED <<disk, up, trail>> /\ Flush
         \/ Land \/ Crash \/ Load
BY DEF diskVars, PersistNext, allVars, Prepare, Request, Proceed, FlushResult, FlushOther, Unload,
       OrphanWrites, OrphanPasses, OrphanEnds, Edit, Load, vars, proposalVars

\* The images stay in order, as long as none survives the instance it is of.
LEMMA OrderStep ==
  ASSUME "reload" \notin Stops
  PROVE  PersistTypeOK /\ PersistTypeOK' /\ ImagesInOrder /\ [PersistNext]_allVars => ImagesInOrder'
<1>. SUFFICES ASSUME PersistTypeOK, PersistTypeOK', ImagesInOrder, [PersistNext]_allVars
              PROVE  ImagesInOrder'
  OBVIOUS
<1>1. /\ TypeOK /\ writes \in Seq(Images) /\ disk \in Images
      /\ \A p \in Proposals : trail[p] \in Rows /\ disk.trail[p] \in Rows
      /\ \A i \in 1..Len(writes) : \A p \in Proposals : writes[i].trail[p] \in Rows
  <2>1. TypeOK /\ writes \in Seq(Images) /\ disk \in Images
    BY DEF PersistTypeOK, Images
  <2>2. \A m \in Images, p \in Proposals : m.trail[p] \in Rows
    BY DEF Images, Rows
  <2>3. \A i \in 1..Len(writes) : writes[i] \in Images
    BY <2>1
  <2>4. \A p \in Proposals : trail[p] \in Rows
    BY <2>1 DEF TypeOK, Rows
  <2>. QED BY <2>1, <2>2, <2>3, <2>4
<1>2. \A p \in Proposals : Latest.trail[p] \in Rows
  <2>1. writes # <<>> => Len(writes) \in 1..Len(writes)
    BY <1>1
  <2>. QED BY <1>1, <2>1 DEF Latest
<1>3. CASE UNCHANGED <<disk, writes, up>> /\ ~Load
  <2>1. ASSUME up PROVE Grows(Latest.trail, trail')
    <3>. SUFFICES ASSUME NEW p \in Proposals PROVE IsPrefix(Latest.trail[p], trail'[p])
      BY DEF Grows
    <3>1. IsPrefix(Latest.trail[p], trail[p])
      BY <2>1 DEF ImagesInOrder, Grows
    <3>2. \A a \in Actions : IsPrefix(Latest.trail[p], Append(trail[p], a))
      BY <1>1, <1>2, <3>1, PrefixGrows
    <3>. QED BY <1>1, <1>3, <3>1, <3>2, TrailGrows
  <2>2. Latest' = Latest
    BY <1>3 DEF Latest
  <2>. QED BY <1>3, <2>1, <2>2 DEF ImagesInOrder
<1>4. ASSUME Flush, UNCHANGED disk, up',
             Grows(Latest.trail, trail'), \A p \in Proposals : trail'[p] \in Rows
      PROVE  ImagesInOrder'
  <2>1. /\ Len(writes') = Len(writes) + 1 /\ writes' # <<>> /\ Len(writes) \in Nat
        /\ writes'[Len(writes) + 1].trail = trail'
        /\ \A i \in 1..Len(writes) : writes'[i] = writes[i]
    BY <1>1, <1>4 DEF Flush, Image
  <2>2. Latest'.trail = trail'
    BY <2>1 DEF Latest
  <2>3. Grows(trail', trail')
    <3>1. "approved" \in Actions
      BY DEF Actions
    <3>. SUFFICES ASSUME NEW p \in Proposals PROVE IsPrefix(trail'[p], trail'[p])
      BY DEF Grows
    <3>. QED BY <1>4 DEF IsPrefix
  <2>4. \A i \in 1..Len(writes) : Grows(writes'[i].trail, writes'[i + 1].trail)
    <3>. SUFFICES ASSUME NEW i \in 1..Len(writes)
                  PROVE  Grows(writes'[i].trail, writes'[i + 1].trail)
      OBVIOUS
    <3>1. CASE i = Len(writes)
      <4>1. Latest = writes[i] /\ writes'[i] = writes[i]
        BY <1>1, <2>1, <3>1 DEF Latest
      <4>. QED BY <1>4, <2>1, <3>1, <4>1
    <3>2. CASE i # Len(writes)
      <4>1. i \in 1..(Len(writes) - 1) /\ i + 1 \in 1..Len(writes)
        BY <2>1, <3>2
      <4>. QED BY <2>1, <4>1 DEF ImagesInOrder
    <3>. QED BY <3>1, <3>2
  <2>5. Grows(disk.trail, writes'[1].trail)
    <3>1. CASE writes = <<>>
      BY <1>4, <2>1, <3>1 DEF Latest
    <3>2. CASE writes # <<>>
      <4>1. 1 \in 1..Len(writes)
        BY <1>1, <3>2
      <4>. QED BY <2>1, <3>2, <4>1 DEF ImagesInOrder
    <3>. QED BY <3>1, <3>2
  <2>6. \A i \in 1..(Len(writes') - 1) : Grows(writes'[i].trail, writes'[i + 1].trail)
    BY <2>1, <2>4
  <2>. QED BY <1>4, <2>2, <2>3, <2>5, <2>6 DEF ImagesInOrder
<1>5. CASE up /\ UNCHANGED <<disk, up, trail>> /\ Flush
  BY <1>1, <1>4, <1>5 DEF ImagesInOrder
<1>6. CASE Load
  <2>1. ~up /\ up' /\ trail' = disk.trail /\ UNCHANGED disk /\ Flush /\ Latest = disk
    BY <1>6 DEF Load, ImagesInOrder, Latest
  <2>2. Grows(disk.trail, disk.trail)
    <3>. SUFFICES ASSUME NEW p \in Proposals PROVE IsPrefix(disk.trail[p], disk.trail[p])
      BY DEF Grows
    <3>. QED BY <1>1 DEF IsPrefix
  <2>. QED BY <1>1, <1>4, <2>1, <2>2
<1>7. CASE Land
  <2>1. Latest' = Latest /\ UNCHANGED <<up, trail>>
    BY <1>7, LandKeepsLatest DEF Land, vars, proposalVars
  <2>2. /\ disk' = writes[1] /\ Len(writes) \in Nat /\ Len(writes') = Len(writes) - 1
        /\ \A i \in 1..Len(writes') : writes'[i] = writes[i + 1]
    <3>1. writes # <<>> /\ disk' = Head(writes) /\ writes' = Tail(writes)
      BY <1>7 DEF Land
    <3>. QED BY <1>1, <3>1
  <2>3. up
    BY <1>7 DEF Land, ImagesInOrder
  <2>4. \A i \in 1..(Len(writes') - 1) : Grows(writes'[i].trail, writes'[i + 1].trail)
    <3>. SUFFICES ASSUME NEW i \in 1..(Len(writes') - 1)
                  PROVE  Grows(writes'[i].trail, writes'[i + 1].trail)
      OBVIOUS
    <3>1. /\ i + 1 \in 1..(Len(writes) - 1) /\ i \in 1..Len(writes') /\ i + 1 \in 1..Len(writes')
      BY <2>2
    <3>. QED BY <2>2, <3>1 DEF ImagesInOrder
  <2>5. writes' # <<>> => Grows(disk'.trail, writes'[1].trail)
    <3>. SUFFICES ASSUME writes' # <<>> PROVE Grows(writes[1].trail, writes'[1].trail)
      BY <2>2
    <3>1. writes' \in Seq(Images)
      BY DEF PersistTypeOK, Images
    <3>2. 1 \in 1..Len(writes') /\ 1 \in 1..(Len(writes) - 1) /\ writes'[1] = writes[1 + 1]
      BY <2>2, <3>1
    <3>. QED BY <3>2 DEF ImagesInOrder
  <2>. QED BY <2>1, <2>3, <2>4, <2>5 DEF ImagesInOrder
<1>8. CASE Crash
  <2>1. ~up' /\ writes' = <<>>
    BY <1>8 DEF Crash
  <2>. QED BY <2>1 DEF ImagesInOrder
<1>. QED BY <1>3, <1>5, <1>6, <1>7, <1>8, DiskSteps

\* Unless the plugin is reloaded, an approval row that has reached the file
\* stays there, whatever crashes: images land in the order of their tables.
\* (A reload may read the file before the last image of the old instance is in
\* it, and write an older table over it: TLC shows the ten steps.)
THEOREM ApprovalsStay ==
  ASSUME "reload" \notin Stops
  PROVE  PersistSpec => ApprovalsAppendOnly
<1>. DEFINE I == PersistInv /\ ImagesInOrder
<1>1. PersistInit => I
  <2>. SUFFICES ASSUME PersistInit PROVE ImagesInOrder
    BY PersistInvInit
  <2>1. up /\ writes = <<>> /\ disk.trail = trail /\ \A p \in Proposals : trail[p] = <<>>
    BY DEF PersistInit, Init, Image
  <2>2. Grows(trail, trail)
    BY <2>1 DEF Grows, IsPrefix
  <2>. QED BY <2>1, <2>2 DEF ImagesInOrder, Latest
<1>2. PersistInv /\ [PersistNext]_allVars => PersistInv'
  BY PersistTypeStep, RepairStep, HandsStep, WrittenStep, SettledStep, ResultsStep DEF PersistInv
<1>3. I /\ [PersistNext]_allVars => I'
  BY <1>2, OrderStep DEF PersistInv
<1>4. I /\ [PersistNext]_allVars
        => [\A p \in Proposals : IsPrefix(disk.trail[p], disk'.trail[p])]_allVars
  <2>. SUFFICES ASSUME PersistTypeOK, ImagesInOrder, [PersistNext]_allVars, NEW p \in Proposals
                PROVE  IsPrefix(disk.trail[p], disk'.trail[p])
    BY DEF PersistInv
  <2>1. disk.trail[p] \in Rows
    BY DEF PersistTypeOK, Rows
  <2>2. CASE UNCHANGED disk
    BY <2>1, <2>2 DEF IsPrefix
  <2>3. CASE Land
    <3>1. writes # <<>> /\ disk' = writes[1]
      BY <2>3 DEF Land, PersistTypeOK
    <3>. QED BY <3>1 DEF ImagesInOrder, Grows
  <2>4. CASE Crash \/ Load
    BY <2>2, <2>4 DEF Crash, Load
  <2>. QED BY <2>2, <2>3, <2>4, DiskSteps
<1>. QED BY <1>1, <1>3, <1>4, PTL DEF PersistSpec, ApprovalsAppendOnly
=============================================================================
