------------------------ MODULE ReviewWorkflowProofs ------------------------
(***************************************************************************)
(* Theorems of ReviewWorkflow, for any number of proposals, notes, calls   *)
(* and edits: its invariants; that it implements ProposalLedger, its       *)
(* initial states being the ledger's and each of its steps a step of the   *)
(* ledger or none; and that the approvals of a proposal tell its story,    *)
(* and nothing is written without one.                                     *)
(***************************************************************************)
EXTENDS ReviewWorkflow, TLAPS, SequenceTheorems

\* The status and approval updates keep the tables well typed.
LEMMA UpdateType ==
  ASSUME TypeOK, NEW S \in SUBSET Proposals, NEW s \in Status, UpdateStatus(S, s)
  PROVE  status' \in [Proposals -> Status]
BY DEF UpdateStatus, TypeOK

\* The approval rows stay sequences of actions.
LEMMA RecordType ==
  ASSUME TypeOK, NEW S \in SUBSET Proposals, NEW a \in Actions, RecordApproval(S, a)
  PROVE  trail' \in [Proposals -> Seq(Actions)]
<1>1. \A p \in Proposals : trail[p] \in Seq(Actions) /\ Append(trail[p], a) \in Seq(Actions)
  BY DEF TypeOK
<1>. QED BY <1>1 DEF RecordApproval, TypeOK

\* Splicing operations into a content yields a content.
LEMMA SpliceType ==
  ASSUME NEW f \in Content, NEW S \in SUBSET Operations
  PROVE  Splice(f, S) \in Content
BY DEF Splice, Content

\* A batch a caller passes has proposals of the model.
LEMMA BatchRange ==
  ASSUME NEW b \in Batches
  PROVE  Range(b) \in SUBSET Proposals
<1>1. b \in Seq(Proposals) BY ConstantsAssumption
<1>. QED BY <1>1 DEF Range

\* Every variable stays in its domain, whatever the step.
LEMMA TypeStep == TypeOK /\ CallShape /\ [Next]_vars => TypeOK'
<1>. SUFFICES ASSUME TypeOK, CallShape, [Next]_vars PROVE TypeOK'
  OBVIOUS
<1>. USE DEF proposalVars, callVars, userVars, Status, Terminal, Actions, Outcome, Active
<1>1. ASSUME NEW p \in Proposals, SaveProposal(p) PROVE TypeOK'
  <2>1. status' \in [Proposals -> Status]
    BY <1>1, UpdateType DEF SaveProposal
  <2>. QED BY <1>1, <2>1 DEF SaveProposal, TypeOK
<1>2. ASSUME NEW p \in Proposals, NEW a \in {"approved", "dismissed", "deferred"}, Act(p, a)
      PROVE  TypeOK'
  <2>1. status' \in [Proposals -> Status]
    BY <1>2, UpdateType DEF Act
  <2>2. trail' \in [Proposals -> Seq(Actions)]
    BY <1>2, RecordType DEF Act
  <2>. QED BY <1>2, <2>1, <2>2 DEF Act, TypeOK
<1>3. ASSUME NEW c \in Calls, NEW b \in Batches, RefuseBatch(c, b) PROVE TypeOK'
  BY <1>3 DEF RefuseBatch, Return, TypeOK
<1>4. ASSUME NEW c \in Calls, NEW b \in Batches, StartBatch(c, b) PROVE TypeOK'
  <2>1. status' \in [Proposals -> Status]
    BY <1>4, UpdateType, BatchRange DEF StartBatch
  <2>2. trail' \in [Proposals -> Seq(Actions)]
    BY <1>4, RecordType, BatchRange DEF StartBatch
  <2>3. batch' \in [Calls -> SUBSET Proposals]
    BY <1>4, BatchRange DEF StartBatch, TypeOK
  <2>. QED BY <1>4, <2>1, <2>2, <2>3 DEF StartBatch, TypeOK
<1>5. ASSUME NEW c \in Calls, NEW p \in Proposals, RefuseApply(c, p) PROVE TypeOK'
  BY <1>5 DEF RefuseApply, Return, TypeOK
<1>6. ASSUME NEW c \in Calls, NEW p \in Proposals, StartApply(c, p) PROVE TypeOK'
  <2>1. status' \in [Proposals -> Status]
    BY <1>6, UpdateType DEF StartApply
  <2>. QED BY <1>6, <2>1 DEF StartApply, TypeOK
<1>7. ASSUME NEW c \in Calls, Abort(c) PROVE TypeOK'
  BY <1>7 DEF Abort, TypeOK
<1>8. ASSUME NEW n \in Notes, NEW t \in Texts, NEW kept \in SUBSET note[n].ops,
             UserEdit(n, t, kept)
      PROVE  TypeOK'
  <2>1. kept \subseteq Operations /\ note[n].ops \subseteq Operations
    BY DEF TypeOK, Content
  <2>2. note' \in [Notes -> Content]
    BY <1>8, <2>1 DEF UserEdit, TypeOK, Content
  <2>. QED BY <1>8, <2>1, <2>2 DEF UserEdit, TypeOK
<1>9. ASSUME NEW c \in Calls, CallStep(c) PROVE TypeOK'
  <2>. DEFINE B == batch[c]
  <2>0. B \in SUBSET Proposals
    BY DEF TypeOK
  <2>1. CASE ReadFails(c)
    <3>1. status' \in [Proposals -> Status]
      BY <2>1, <2>0, UpdateType DEF ReadFails
    <3>. QED BY <2>1, <3>1 DEF ReadFails, Return, TypeOK
  <2>2. CASE PreflightStale(c)
    <3>1. status' \in [Proposals -> Status]
      BY <2>2, <2>0, UpdateType DEF PreflightStale
    <3>2. trail' \in [Proposals -> Seq(Actions)]
      BY <2>2, <2>0, RecordType DEF PreflightStale
    <3>. QED BY <2>2, <3>1, <3>2 DEF PreflightStale, Return, TypeOK
  <2>3. CASE PreflightCanceled(c)
    <3>1. status' \in [Proposals -> Status]
      BY <2>3, <2>0, UpdateType DEF PreflightCanceled
    <3>. QED BY <2>3, <3>1 DEF PreflightCanceled, Return, TypeOK
  <2>4. CASE PreflightPasses(c)
    <3>1. status' \in [Proposals -> Status]
      BY <2>4, <2>0, UpdateType DEF PreflightPasses
    <3>. QED BY <2>4, <3>1 DEF PreflightPasses, Return, TypeOK
  <2>5. CASE WriteFails(c)
    BY <2>5 DEF WriteFails, TypeOK
  <2>6. CASE FinishApplied(c)
    <3>1. status' \in [Proposals -> Status]
      BY <2>6, <2>0, UpdateType DEF FinishApplied
    <3>2. trail' \in [Proposals -> Seq(Actions)]
      BY <2>6, <2>0, RecordType DEF FinishApplied
    <3>. QED BY <2>6, <3>1, <3>2 DEF FinishApplied, TypeOK
  <2>7. CASE Reindexed(c)
    BY <2>7 DEF Reindexed, TypeOK
  <2>8. CASE FinishRollback(c)
    <3>1. status' \in [Proposals -> Status]
      BY <2>8, <2>0, UpdateType DEF FinishRollback
    <3>. QED BY <2>8, <3>1 DEF FinishRollback, Return, TypeOK
  <2>9. ASSUME NEW n \in Notes, Read(c, n) PROVE TypeOK'
    BY <2>9 DEF Read, TypeOK
  <2>10. ASSUME NEW n \in Notes, Write(c, n) PROVE TypeOK'
    <3>1. note[n] = got[c][n] /\ note[n] \in Content
      BY <2>10 DEF Write, WriteIfCurrent, TypeOK
    <3>2. OpsAt(B, n) \in SUBSET Operations
      BY DEF OpsAt, OpsOf
    <3>3. note' \in [Notes -> Content]
      BY <2>10, <3>1, <3>2, SpliceType DEF Write, WriteIfCurrent, TypeOK
    <3>. QED BY <2>10, <3>3 DEF Write, TypeOK
  <2>11. ASSUME NEW n \in Notes, Rollback(c, n) PROVE TypeOK'
    <3>1. got[c][n] \in Content
      BY <2>11 DEF Rollback, CallShape, AllRead, TypeOK
    <3>3. note' \in [Notes -> Content]
      BY <2>11, <3>1 DEF Rollback, WriteIfCurrent, TypeOK
    <3>. QED BY <2>11, <3>3 DEF Rollback, TypeOK
  <2>12. ASSUME NEW n \in Notes, RollbackFails(c, n) PROVE TypeOK'
    BY <2>12 DEF RollbackFails, TypeOK
  <2>. QED BY <1>9, <2>1, <2>2, <2>3, <2>4, <2>5, <2>6, <2>7, <2>8, <2>9, <2>10,
              <2>11, <2>12 DEF CallStep
<1>10. CASE UNCHANGED vars
  BY <1>10 DEF vars, TypeOK
<1>. QED
  BY <1>1, <1>2, <1>3, <1>4, <1>5, <1>6, <1>7, <1>8, <1>9, <1>10 DEF Next

\* A call keeps its shape from stage to stage.
LEMMA ShapeStep == TypeOK /\ CallShape /\ [Next]_vars => CallShape'
<1>. SUFFICES ASSUME TypeOK, CallShape, [Next]_vars PROVE CallShape'
  OBVIOUS
<1>. USE DEF proposalVars, callVars, userVars, Active, TypeOK, CallShape
<1>1. ASSUME NEW p \in Proposals, SaveProposal(p) PROVE CallShape'
  BY <1>1 DEF SaveProposal, AllRead
<1>2. ASSUME NEW p \in Proposals, NEW a \in {"approved", "dismissed", "deferred"}, Act(p, a)
      PROVE  CallShape'
  BY <1>2 DEF Act, AllRead
<1>3. ASSUME NEW c \in Calls, NEW b \in Batches, RefuseBatch(c, b) PROVE CallShape'
  BY <1>3 DEF RefuseBatch, Return, AllRead
<1>4. ASSUME NEW c \in Calls, NEW b \in Batches, StartBatch(c, b) PROVE CallShape'
  BY <1>4 DEF StartBatch, AllRead
<1>5. ASSUME NEW c \in Calls, NEW p \in Proposals, RefuseApply(c, p) PROVE CallShape'
  BY <1>5 DEF RefuseApply, Return, AllRead
<1>6. ASSUME NEW c \in Calls, NEW p \in Proposals, StartApply(c, p) PROVE CallShape'
  BY <1>6 DEF StartApply, AllRead
<1>7. ASSUME NEW c \in Calls, Abort(c) PROVE CallShape'
  BY <1>7 DEF Abort, AllRead
<1>8. ASSUME NEW n \in Notes, NEW t \in Texts, NEW kept \in SUBSET note[n].ops,
             UserEdit(n, t, kept)
      PROVE  CallShape'
  BY <1>8 DEF UserEdit, AllRead
<1>9. ASSUME NEW c \in Calls, CallStep(c) PROVE CallShape'
  <2>1. CASE ReadFails(c)
    BY <2>1 DEF ReadFails, Return, AllRead
  <2>2. CASE PreflightStale(c)
    BY <2>2 DEF PreflightStale, Return, AllRead
  <2>3. CASE PreflightCanceled(c)
    BY <2>3 DEF PreflightCanceled, Return, AllRead
  <2>4. CASE PreflightPasses(c)
    BY <2>4 DEF PreflightPasses, Return, AllRead
  <2>5. CASE WriteFails(c)
    BY <2>5 DEF WriteFails, AllRead
  <2>6. CASE FinishApplied(c)
    BY <2>6 DEF FinishApplied, AllRead
  <2>7. CASE Reindexed(c)
    BY <2>7 DEF Reindexed, AllRead
  <2>8. CASE FinishRollback(c)
    BY <2>8 DEF FinishRollback, Return, AllRead
  <2>9. ASSUME NEW n \in Notes, Read(c, n) PROVE CallShape'
    BY <2>9 DEF Read, AllRead
  <2>10. ASSUME NEW n \in Notes, Write(c, n) PROVE CallShape'
    BY <2>10 DEF Write, AllRead
  <2>11. ASSUME NEW n \in Notes, Rollback(c, n) PROVE CallShape'
    BY <2>11 DEF Rollback, AllRead
  <2>12. ASSUME NEW n \in Notes, RollbackFails(c, n) PROVE CallShape'
    BY <2>12 DEF RollbackFails, AllRead
  <2>. QED BY <1>9, <2>1, <2>2, <2>3, <2>4, <2>5, <2>6, <2>7, <2>8, <2>9, <2>10,
              <2>11, <2>12 DEF CallStep
<1>10. CASE UNCHANGED vars
  BY <1>10 DEF vars, AllRead
<1>. QED
  BY <1>1, <1>2, <1>3, <1>4, <1>5, <1>6, <1>7, <1>8, <1>9, <1>10 DEF Next

\* No two running calls share a proposal, and a running call's proposals keep
\* the status it gave them: entry points check and set a status in one step.
LEMMA OwnerStep ==
  ASSUME SingleEntry
  PROVE  TypeOK /\ CallShape /\ OneOwner /\ BatchStatus /\ [Next]_vars
           => OneOwner' /\ BatchStatus'
<1>. SUFFICES ASSUME TypeOK, CallShape, OneOwner, BatchStatus, [Next]_vars
              PROVE OneOwner' /\ BatchStatus'
  OBVIOUS
<1>. USE DEF proposalVars, callVars, userVars, Active, TypeOK, OneOwner, BatchStatus
<1>1. ASSUME NEW p \in Proposals, SaveProposal(p) PROVE OneOwner' /\ BatchStatus'
  BY <1>1 DEF SaveProposal, UpdateStatus
<1>2. ASSUME NEW p \in Proposals, NEW a \in {"approved", "dismissed", "deferred"}, Act(p, a)
      PROVE  OneOwner' /\ BatchStatus'
  BY <1>2 DEF Act, UpdateStatus
<1>3. ASSUME NEW c \in Calls, NEW b \in Batches, RefuseBatch(c, b) PROVE OneOwner' /\ BatchStatus'
  BY <1>3 DEF RefuseBatch, Return
<1>4. ASSUME NEW c \in Calls, NEW b \in Batches, StartBatch(c, b) PROVE OneOwner' /\ BatchStatus'
  <2>1. \A p \in Range(b) : status[p] = "pending"
    BY <1>4, ConstantsAssumption DEF StartBatch, ValidBatch, Range
  <2>2. \A d \in Calls : pc[d] \in Active => batch[d] \cap Range(b) = {}
    BY <2>1
  <2>. QED BY <1>4, <2>1, <2>2, BatchRange DEF StartBatch, UpdateStatus
<1>5. ASSUME NEW c \in Calls, NEW p \in Proposals, RefuseApply(c, p) PROVE OneOwner' /\ BatchStatus'
  BY <1>5 DEF RefuseApply, Return
<1>6. ASSUME NEW c \in Calls, NEW p \in Proposals, StartApply(c, p) PROVE OneOwner' /\ BatchStatus'
  <2>1. \A d \in Calls : pc[d] \in Active => kind[d] = "apply"
    BY <1>6 DEF StartApply, SingleEntry, CallShape
  <2>2. \A d \in Calls : pc[d] \in Active => p \notin batch[d]
    BY <1>6, <2>1 DEF StartApply
  <2>. QED BY <1>6, <2>2 DEF StartApply, UpdateStatus
<1>7. ASSUME NEW c \in Calls, Abort(c) PROVE OneOwner' /\ BatchStatus'
  BY <1>7 DEF Abort
<1>8. ASSUME NEW n \in Notes, NEW t \in Texts, NEW kept \in SUBSET note[n].ops,
             UserEdit(n, t, kept)
      PROVE  OneOwner' /\ BatchStatus'
  BY <1>8 DEF UserEdit
<1>9. ASSUME NEW c \in Calls, CallStep(c) PROVE OneOwner' /\ BatchStatus'
  <2>1. CASE ReadFails(c)
    BY <2>1 DEF ReadFails, Return, UpdateStatus
  <2>2. CASE PreflightStale(c)
    BY <2>2 DEF PreflightStale, Return, UpdateStatus
  <2>3. CASE PreflightCanceled(c)
    BY <2>3 DEF PreflightCanceled, Return, UpdateStatus
  <2>4. CASE PreflightPasses(c)
    <3>1. CASE CreateWritesThrows(OpsOf(batch[c]))
      <4>1. pc' = [pc EXCEPT ![c] = "done"] /\ UNCHANGED <<batch, kind>>
        BY <2>4, <3>1 DEF PreflightPasses, Return
      <4>2. \A q \in Proposals \ batch[c] : status'[q] = status[q]
        BY <2>4, <3>1 DEF PreflightPasses, UpdateStatus
      <4>. QED BY <2>4, <4>1, <4>2 DEF PreflightPasses
    <3>2. CASE ~CreateWritesThrows(OpsOf(batch[c]))
      <4>1. pc' = [pc EXCEPT ![c] = "writing"] /\ UNCHANGED <<batch, kind>> /\ pc[c] = "reading"
        BY <2>4, <3>2 DEF PreflightPasses
      <4>2. status' = [q \in Proposals |-> IF q \in batch[c] THEN "applying" ELSE status[q]]
        BY <2>4, <3>2 DEF PreflightPasses, UpdateStatus
      <4>3. OneOwner'
        BY <4>1
      <4>. QED BY <4>1, <4>2, <4>3
    <3>. QED BY <3>1, <3>2
  <2>5. CASE WriteFails(c)
    BY <2>5 DEF WriteFails
  <2>6. CASE FinishApplied(c)
    BY <2>6 DEF FinishApplied, UpdateStatus
  <2>7. CASE Reindexed(c)
    BY <2>7 DEF Reindexed
  <2>8. CASE FinishRollback(c)
    BY <2>8 DEF FinishRollback, Return, UpdateStatus
  <2>9. ASSUME NEW n \in Notes, Read(c, n) PROVE OneOwner' /\ BatchStatus'
    BY <2>9 DEF Read
  <2>10. ASSUME NEW n \in Notes, Write(c, n) PROVE OneOwner' /\ BatchStatus'
    BY <2>10 DEF Write
  <2>11. ASSUME NEW n \in Notes, Rollback(c, n) PROVE OneOwner' /\ BatchStatus'
    BY <2>11 DEF Rollback
  <2>12. ASSUME NEW n \in Notes, RollbackFails(c, n) PROVE OneOwner' /\ BatchStatus'
    BY <2>12 DEF RollbackFails
  <2>. QED BY <1>9, <2>1, <2>2, <2>3, <2>4, <2>5, <2>6, <2>7, <2>8, <2>9, <2>10,
              <2>11, <2>12 DEF CallStep
<1>10. CASE UNCHANGED vars
  BY <1>10 DEF vars
<1>. QED
  BY <1>1, <1>2, <1>3, <1>4, <1>5, <1>6, <1>7, <1>8, <1>9, <1>10 DEF Next

\* The preflight reads notes in which no operation of the call has landed.
LEMMA CleanStep ==
  TypeOK /\ CallShape /\ OneOwner /\ BatchStatus /\ Accounted /\ PreflightClean /\ [Next]_vars
    => PreflightClean'
<1>. SUFFICES ASSUME TypeOK, CallShape, OneOwner, BatchStatus, Accounted, PreflightClean,
                     [Next]_vars
              PROVE  PreflightClean'
  OBVIOUS
<1>. USE DEF proposalVars, callVars, userVars, Active, PreflightClean, OpsOf
<1>1. ASSUME NEW c \in Calls, NEW n \in Notes, Read(c, n) PROVE PreflightClean'
  <2>1. ASSUME NEW o \in OpsOf(batch[c]), InVault(o) PROVE FALSE
    <3>1. status[o.proposal] \notin {"applied", "recovery-required"}
      BY <1>1 DEF Read, BatchStatus, TypeOK
    <3>2. PICK d \in Calls : pc[d] \in {"writing", "rolling"} /\ o.proposal \in batch[d]
      BY <2>1, <3>1 DEF Accounted, AccountedFor
    <3>. QED BY <1>1, <3>2 DEF Read, OneOwner
  <2>2. \A o \in OpsOf(batch[c]) : o.path = n => o \notin note[n].ops
    BY <2>1 DEF InVault
  <2>. QED BY <1>1, <2>2, OperationsAssumption DEF Read, TypeOK
<1>2. ASSUME NEW c \in Calls, NEW b \in Batches, StartBatch(c, b) PROVE PreflightClean'
  BY <1>2, OperationsAssumption DEF StartBatch, CallShape, TypeOK
<1>3. ASSUME NEW c \in Calls, NEW p \in Proposals, StartApply(c, p) PROVE PreflightClean'
  BY <1>3, OperationsAssumption DEF StartApply, CallShape, TypeOK
<1>4. CASE UNCHANGED <<pc, batch, got>>
  BY <1>4
<1>5. ASSUME NEW c \in Calls, CallStep(c), \A n \in Notes : ~Read(c, n) PROVE PreflightClean'
  <2>1. UNCHANGED <<batch, got>> /\ \A d \in Calls : pc'[d] \in Active => pc[d] \in Active
    BY <1>5 DEF CallStep, ReadFails, PreflightStale, PreflightCanceled, PreflightPasses,
                WriteFails, FinishApplied, Reindexed, FinishRollback, Write, Rollback,
                RollbackFails, Return, TypeOK
  <2>. QED BY <2>1
<1>6. ASSUME NEW c \in Calls, pc' = [pc EXCEPT ![c] = "done"], UNCHANGED <<batch, got>>
      PROVE  PreflightClean'
  BY <1>6 DEF TypeOK
<1>. QED
  BY <1>1, <1>2, <1>3, <1>4, <1>5, <1>6
     DEF Next, vars, SaveProposal, Act, RefuseBatch, RefuseApply, Return, Abort, UserEdit

\* A change of status that stays within the proposals of one call leaves the
\* account of every operation intact as long as that call had landed nothing.
LEMMA AccountFrame ==
  ASSUME TypeOK, BatchStatus, OneOwner, Accounted,
         NEW S \in SUBSET Proposals, NEW s \in Status, UpdateStatus(S, s),
         \A p \in S : status[p] \notin {"applied", "recovery-required"},
         \A p \in S : \A d \in Calls : pc[d] \in {"writing", "rolling"} => p \notin batch[d],
         UNCHANGED <<note, done, stuck>>,
         \A d \in Calls : pc[d] \in {"writing", "rolling"} =>
                           pc'[d] = pc[d] /\ batch'[d] = batch[d]
  PROVE  Accounted'
<1>. SUFFICES ASSUME NEW o \in Operations, InVault(o)
              PROVE  AccountedFor(o)'
  BY DEF Accounted, InVault
<1>1. o.proposal \in Proposals /\ AccountedFor(o)
  BY OperationsAssumption DEF Accounted
<1>2. CASE status[o.proposal] \in {"applied", "recovery-required"}
  BY <1>1, <1>2 DEF AccountedFor, UpdateStatus
<1>3. CASE status[o.proposal] \notin {"applied", "recovery-required"}
  BY <1>1, <1>3 DEF AccountedFor
<1>. QED BY <1>2, <1>3

\* Every operation in a note stays accounted for.
LEMMA AccountStep ==
  TypeOK /\ CallShape /\ OneOwner /\ BatchStatus /\ PreflightClean /\ Accounted /\ [Next]_vars
    => Accounted'
<1>. SUFFICES ASSUME TypeOK, CallShape, OneOwner, BatchStatus, PreflightClean, Accounted,
                     [Next]_vars
              PROVE  Accounted'
  OBVIOUS
<1>. USE DEF proposalVars, callVars, userVars, Active
<1>1. ASSUME NEW p \in Proposals, SaveProposal(p) PROVE Accounted'
  BY <1>1, AccountFrame DEF SaveProposal, BatchStatus, Status
<1>2. ASSUME NEW p \in Proposals, NEW a \in {"approved", "dismissed", "deferred"}, Act(p, a)
      PROVE  Accounted'
  BY <1>2, AccountFrame DEF Act, BatchStatus, Status, Terminal
<1>3. ASSUME NEW c \in Calls, NEW b \in Batches, RefuseBatch(c, b) PROVE Accounted'
  BY <1>3 DEF RefuseBatch, Return, Accounted, AccountedFor, InVault, TypeOK
<1>4. ASSUME NEW c \in Calls, NEW b \in Batches, StartBatch(c, b) PROVE Accounted'
  <2>1. \A p \in Range(b) : status[p] = "pending"
    BY <1>4, ConstantsAssumption DEF StartBatch, ValidBatch, Range
  <2>2. \A d \in Calls : pc[d] \in {"writing", "rolling"} =>
          pc'[d] = pc[d] /\ batch'[d] = batch[d] /\ Range(b) \cap batch[d] = {}
    BY <1>4, <2>1 DEF StartBatch, BatchStatus, TypeOK
  <2>. QED BY <1>4, <2>1, <2>2, BatchRange, AccountFrame DEF StartBatch, Status
<1>5. ASSUME NEW c \in Calls, NEW p \in Proposals, RefuseApply(c, p) PROVE Accounted'
  BY <1>5 DEF RefuseApply, Return, Accounted, AccountedFor, InVault, TypeOK
<1>6. ASSUME NEW c \in Calls, NEW p \in Proposals, StartApply(c, p) PROVE Accounted'
  <2>1. \A d \in Calls : pc[d] \in {"writing", "rolling"} =>
          pc'[d] = pc[d] /\ batch'[d] = batch[d] /\ p \notin batch[d]
    BY <1>6 DEF StartApply, BatchStatus, TypeOK
  <2>. QED BY <1>6, <2>1, AccountFrame DEF StartApply, Status
<1>7. ASSUME NEW c \in Calls, Abort(c) PROVE Accounted'
  BY <1>7 DEF Abort, Accounted, AccountedFor, InVault
<1>8. ASSUME NEW n \in Notes, NEW t \in Texts, NEW kept \in SUBSET note[n].ops,
             UserEdit(n, t, kept)
      PROVE  Accounted'
  <2>1. \A o \in Operations : InVault(o)' => InVault(o)
    BY <1>8, OperationsAssumption DEF UserEdit, InVault, TypeOK
  <2>. QED BY <1>8, <2>1 DEF UserEdit, Accounted, AccountedFor
<1>9. ASSUME NEW c \in Calls, CallStep(c) PROVE Accounted'
  <2>1. ASSUME NEW s \in Status, pc[c] = "reading", UpdateStatus(batch[c], s),
               UNCHANGED <<note, batch, done, stuck>>,
               \A d \in Calls : d # c => pc'[d] = pc[d]
        PROVE  Accounted'
    <3>1. \A p \in batch[c] : status[p] \notin {"applied", "recovery-required"}
      BY <2>1 DEF BatchStatus, TypeOK
    <3>2. \A p \in batch[c] : \A d \in Calls : pc[d] \in {"writing", "rolling"} => p \notin batch[d]
      BY <2>1 DEF OneOwner
    <3>3. batch[c] \in SUBSET Proposals
      BY DEF TypeOK
    <3>. QED BY <2>1, <3>1, <3>2, <3>3, AccountFrame
  <2>2. CASE ReadFails(c)
    BY <2>1, <2>2 DEF ReadFails, Return, TypeOK, Status, Terminal
  <2>3. CASE PreflightStale(c)
    BY <2>1, <2>3 DEF PreflightStale, Return, TypeOK, Status, Terminal
  <2>4. CASE PreflightCanceled(c)
    BY <2>1, <2>4 DEF PreflightCanceled, Return, TypeOK, Status
  <2>5. CASE PreflightPasses(c)
    <3>1. \E s \in Status : UpdateStatus(batch[c], s)
      BY <2>5 DEF PreflightPasses, Status, Terminal
    <3>2. \A d \in Calls : d # c => pc'[d] = pc[d]
      BY <2>5 DEF PreflightPasses, Return, TypeOK
    <3>. QED BY <2>1, <2>5, <3>1, <3>2 DEF PreflightPasses
  <2>6. CASE WriteFails(c)
    BY <2>6 DEF WriteFails, Accounted, AccountedFor, InVault, TypeOK
  <2>7. CASE FinishApplied(c)
    <3>1. ASSUME NEW o \in Operations, InVault(o) PROVE AccountedFor(o)'
      <4>1. o.proposal \in Proposals /\ AccountedFor(o)
        BY <3>1, OperationsAssumption DEF Accounted
      <4>2. CASE o.proposal \in batch[c]
        BY <2>7, <4>1, <4>2 DEF FinishApplied, UpdateStatus, AccountedFor
      <4>3. CASE o.proposal \notin batch[c]
        BY <2>7, <4>1, <4>3 DEF FinishApplied, UpdateStatus, AccountedFor, TypeOK
      <4>. QED BY <4>2, <4>3
    <3>. QED BY <2>7, <3>1 DEF FinishApplied, Accounted, InVault
  <2>8. CASE Reindexed(c)
    BY <2>8 DEF Reindexed, Accounted, AccountedFor, InVault, TypeOK
  <2>9. CASE FinishRollback(c)
    <3>1. ASSUME NEW o \in Operations, InVault(o) PROVE AccountedFor(o)'
      <4>1. o.proposal \in Proposals /\ AccountedFor(o)
        BY <3>1, OperationsAssumption DEF Accounted
      <4>2. CASE o.proposal \in batch[c]
        <5>1. status[o.proposal] = "applying"
          BY <2>9, <4>2 DEF FinishRollback, BatchStatus
        <5>2. stuck[c]
          BY <2>9, <4>1, <4>2, <5>1 DEF FinishRollback, AccountedFor, OneOwner
        <5>. QED BY <2>9, <4>1, <4>2, <5>2 DEF FinishRollback, UpdateStatus, AccountedFor
      <4>3. CASE o.proposal \notin batch[c]
        BY <2>9, <4>1, <4>3 DEF FinishRollback, Return, UpdateStatus, AccountedFor, TypeOK
      <4>. QED BY <4>2, <4>3
    <3>. QED BY <2>9, <3>1 DEF FinishRollback, Accounted, InVault
  <2>10. ASSUME NEW n \in Notes, Read(c, n) PROVE Accounted'
    BY <2>10 DEF Read, Accounted, AccountedFor, InVault
  <2>11. ASSUME NEW n \in Notes, Write(c, n) PROVE Accounted'
    <3>1. ASSUME NEW o \in Operations, InVault(o)' PROVE AccountedFor(o)'
      <4>1. CASE InVault(o)
        <5>1. AccountedFor(o)
          BY <4>1 DEF Accounted
        <5>. QED BY <2>11, <5>1 DEF Write, AccountedFor, TypeOK
      <4>2. CASE ~InVault(o)
        <5>1. o \in OpsAt(batch[c], n)
          BY <2>11, <3>1, <4>2, OperationsAssumption
             DEF Write, WriteIfCurrent, InVault, Splice, TypeOK, Content
        <5>. QED BY <2>11, <5>1 DEF Write, AccountedFor, OpsAt, OpsOf, TypeOK
      <4>. QED BY <4>1, <4>2
    <3>. QED BY <3>1 DEF Accounted
  <2>12. ASSUME NEW n \in Notes, Rollback(c, n) PROVE Accounted'
    <3>1. got[c][n] # Unread /\ got[c][n] \in Content
      BY <2>12 DEF Rollback, CallShape, AllRead, TypeOK
    <3>2. ASSUME NEW o \in Operations, InVault(o)' PROVE AccountedFor(o)'
      <4>1. InVault(o) /\ (o.path = n => o \in got[c][n].ops)
        BY <2>12, <3>1, <3>2, OperationsAssumption
           DEF Rollback, WriteIfCurrent, InVault, Splice, TypeOK, Content
      <4>2. o.path = n => o.proposal \notin batch[c]
        BY <2>12, <3>1, <4>1 DEF Rollback, PreflightClean, OpsOf
      <4>3. AccountedFor(o)
        BY <4>1 DEF Accounted
      <4>. QED BY <2>12, <4>2, <4>3 DEF Rollback, AccountedFor, TypeOK
    <3>. QED BY <3>2 DEF Accounted
  <2>13. ASSUME NEW n \in Notes, RollbackFails(c, n) PROVE Accounted'
    BY <2>13 DEF RollbackFails, Accounted, AccountedFor, InVault, TypeOK
  <2>. QED BY <1>9, <2>2, <2>3, <2>4, <2>5, <2>6, <2>7, <2>8, <2>9, <2>10,
              <2>11, <2>12, <2>13 DEF CallStep
<1>10. CASE UNCHANGED vars
  BY <1>10 DEF vars, Accounted, AccountedFor, InVault
<1>. QED
  BY <1>1, <1>2, <1>3, <1>4, <1>5, <1>6, <1>7, <1>8, <1>9, <1>10 DEF Next

\* A written operation stays in its note, and an applied proposal stays whole,
\* unless the user takes it out: the rollback of another call takes out only
\* operations of its own.
LEMMA WholeStep ==
  TypeOK /\ CallShape /\ OneOwner /\ BatchStatus /\ WrittenIsThere /\ AppliedIsWhole
         /\ [Next]_vars
    => WrittenIsThere' /\ AppliedIsWhole'
<1>. SUFFICES ASSUME TypeOK, CallShape, OneOwner, BatchStatus, WrittenIsThere,
                     AppliedIsWhole, [Next]_vars
              PROVE  WrittenIsThere' /\ AppliedIsWhole'
  OBVIOUS
<1>. USE DEF proposalVars, callVars, userVars, Active, OpsOf
<1>1. ASSUME UNCHANGED <<note, reverted, done>>,
             \A p \in Proposals : status'[p] = "applied" => status[p] = "applied",
             \A d \in Calls : pc'[d] = "writing" /\ done[d] # {} =>
                               pc[d] = "writing" /\ batch'[d] = batch[d]
      PROVE  WrittenIsThere' /\ AppliedIsWhole'
  <2>1. WrittenIsThere'
    BY <1>1 DEF WrittenIsThere, InVault
  <2>. QED BY <1>1, <2>1, OperationsAssumption DEF AppliedIsWhole, InVault
<1>2. ASSUME NEW p \in Proposals, SaveProposal(p) PROVE WrittenIsThere' /\ AppliedIsWhole'
  BY <1>1, <1>2 DEF SaveProposal, UpdateStatus
<1>3. ASSUME NEW p \in Proposals, NEW a \in {"approved", "dismissed", "deferred"}, Act(p, a)
      PROVE  WrittenIsThere' /\ AppliedIsWhole'
  BY <1>1, <1>3 DEF Act, UpdateStatus
<1>4. ASSUME NEW c \in Calls, NEW b \in Batches, RefuseBatch(c, b) \/ StartBatch(c, b)
      PROVE  WrittenIsThere' /\ AppliedIsWhole'
  BY <1>1, <1>4 DEF RefuseBatch, StartBatch, Return, UpdateStatus, TypeOK
<1>5. ASSUME NEW c \in Calls, NEW p \in Proposals, RefuseApply(c, p) \/ StartApply(c, p)
      PROVE  WrittenIsThere' /\ AppliedIsWhole'
  BY <1>1, <1>5 DEF RefuseApply, StartApply, Return, UpdateStatus, TypeOK
<1>6. ASSUME NEW c \in Calls, Abort(c) PROVE WrittenIsThere' /\ AppliedIsWhole'
  BY <1>1, <1>6 DEF Abort
<1>7. ASSUME NEW n \in Notes, NEW t \in Texts, NEW kept \in SUBSET note[n].ops,
             UserEdit(n, t, kept)
      PROVE  WrittenIsThere' /\ AppliedIsWhole'
  <2>1. \A o \in Operations : InVault(o) \/ o \in reverted => InVault(o)' \/ o \in reverted'
    BY <1>7, OperationsAssumption DEF UserEdit, InVault, TypeOK
  <2>. QED BY <1>7, <2>1 DEF UserEdit, WrittenIsThere, AppliedIsWhole
<1>8. ASSUME NEW c \in Calls, CallStep(c) PROVE WrittenIsThere' /\ AppliedIsWhole'
  <2>1. CASE ReadFails(c) \/ PreflightStale(c) \/ PreflightCanceled(c) \/ PreflightPasses(c)
    <3>1. UNCHANGED <<note, reverted, done, batch>> /\ done[c] = {}
      BY <2>1 DEF ReadFails, PreflightStale, PreflightCanceled, PreflightPasses, CallShape
    <3>2. \A p \in Proposals : status'[p] = "applied" => status[p] = "applied"
      BY <2>1 DEF ReadFails, PreflightStale, PreflightCanceled, PreflightPasses, UpdateStatus
    <3>3. \A d \in Calls : d # c => pc'[d] = pc[d]
      BY <2>1 DEF ReadFails, PreflightStale, PreflightCanceled, PreflightPasses, Return, TypeOK
    <3>. QED BY <1>1, <3>1, <3>2, <3>3
  <2>2. CASE WriteFails(c) \/ Reindexed(c)
    BY <1>1, <2>2 DEF WriteFails, Reindexed, TypeOK
  <2>3. CASE FinishRollback(c)
    BY <1>1, <2>3 DEF FinishRollback, Return, UpdateStatus, TypeOK
  <2>4. CASE FinishApplied(c)
    <3>1. \A o \in OpsOf(batch[c]) : InVault(o) \/ o \in reverted
      BY <2>4 DEF FinishApplied, PathsOf, WrittenIsThere
    <3>2. WrittenIsThere'
      BY <2>4 DEF FinishApplied, WrittenIsThere, InVault, TypeOK
    <3>3. AppliedIsWhole'
      BY <2>4, <3>1, OperationsAssumption DEF FinishApplied, UpdateStatus, AppliedIsWhole, InVault
    <3>. QED BY <3>2, <3>3
  <2>5. ASSUME NEW n \in Notes, Read(c, n) PROVE WrittenIsThere' /\ AppliedIsWhole'
    BY <1>1, <2>5 DEF Read
  <2>6. ASSUME NEW n \in Notes, Write(c, n) PROVE WrittenIsThere' /\ AppliedIsWhole'
    <3>1. \A o \in Operations :
            /\ InVault(o) => InVault(o)'
            /\ o \in OpsAt(batch[c], n) => InVault(o)'
      BY <2>6, OperationsAssumption
         DEF Write, WriteIfCurrent, Splice, InVault, OpsAt, TypeOK, Content
    <3>2. AppliedIsWhole'
      BY <2>6, <3>1 DEF Write, AppliedIsWhole
    <3>3. WrittenIsThere'
      BY <2>6, <3>1 DEF Write, WrittenIsThere, OpsAt, TypeOK
    <3>. QED BY <3>2, <3>3
  <2>7. ASSUME NEW n \in Notes, Rollback(c, n) PROVE WrittenIsThere' /\ AppliedIsWhole'
    <3>1. got[c][n] \in Content
      BY <2>7 DEF Rollback, CallShape, AllRead, TypeOK
    <3>2. \A o \in Operations : InVault(o) => InVault(o)' \/ o.proposal \in batch[c]
      BY <2>7, <3>1, OperationsAssumption
         DEF Rollback, WriteIfCurrent, Splice, InVault, OpsAt, TypeOK, Content
    <3>3. AppliedIsWhole'
      <4>1. ASSUME NEW p \in Proposals, status[p] = "applied" PROVE p \notin batch[c]
        BY <2>7, <4>1 DEF Rollback, BatchStatus
      <4>. QED BY <2>7, <3>2, <4>1 DEF Rollback, AppliedIsWhole
    <3>4. WrittenIsThere'
      <4>1. ASSUME NEW d \in Calls, pc[d] = "writing" PROVE batch[d] \cap batch[c] = {}
        BY <2>7, <4>1 DEF Rollback, OneOwner
      <4>2. \A d \in Calls : pc[d] = "writing" => done'[d] = done[d]
        BY <2>7 DEF Rollback, TypeOK
      <4>. QED BY <2>7, <3>2, <4>1, <4>2 DEF Rollback, WrittenIsThere
    <3>. QED BY <3>3, <3>4
  <2>8. ASSUME NEW n \in Notes, RollbackFails(c, n) PROVE WrittenIsThere' /\ AppliedIsWhole'
    BY <2>8 DEF RollbackFails, WrittenIsThere, AppliedIsWhole, InVault, TypeOK
  <2>. QED BY <1>8, <2>1, <2>2, <2>3, <2>4, <2>5, <2>6, <2>7, <2>8 DEF CallStep
<1>9. CASE UNCHANGED vars
  BY <1>1, <1>9 DEF vars
<1>. QED
  BY <1>2, <1>3, <1>4, <1>5, <1>6, <1>7, <1>8, <1>9 DEF Next

\* Neither a write nor a rollback changes the text the user left.
LEMMA TextStep ==
  TypeOK /\ CallShape /\ UserTextKept /\ [Next]_vars => UserTextKept'
<1>. SUFFICES ASSUME TypeOK, CallShape, UserTextKept, [Next]_vars PROVE UserTextKept'
  OBVIOUS
<1>. USE DEF proposalVars, callVars, userVars, Active
<1>1. CASE UNCHANGED <<note, typed>>
  BY <1>1 DEF UserTextKept
<1>2. ASSUME NEW n \in Notes, NEW t \in Texts, NEW kept \in SUBSET note[n].ops,
             UserEdit(n, t, kept)
      PROVE  UserTextKept'
  BY <1>2 DEF UserEdit, UserTextKept, TypeOK
<1>3. ASSUME NEW c \in Calls, NEW n \in Notes, Write(c, n) PROVE UserTextKept'
  BY <1>3 DEF Write, WriteIfCurrent, Splice, UserTextKept, TypeOK, Content
<1>4. ASSUME NEW c \in Calls, NEW n \in Notes, Rollback(c, n) PROVE UserTextKept'
  <2>1. got[c][n] \in Content
    BY <1>4 DEF Rollback, CallShape, AllRead, TypeOK
  <2>. QED BY <1>4, <2>1 DEF Rollback, WriteIfCurrent, Splice, UserTextKept, TypeOK, Content
<1>. QED
  BY <1>1, <1>2, <1>3, <1>4
     DEF Next, vars, SaveProposal, Act, RefuseBatch, StartBatch, RefuseApply, StartApply, Abort,
         CallStep, ReadFails, PreflightStale, PreflightCanceled, PreflightPasses, WriteFails,
         FinishApplied, Reindexed, FinishRollback, Read, RollbackFails

\* Saved proposals and running batches stay free of overlaps.
LEMMA OverlapStep ==
  TypeOK /\ BatchStatus /\ NoOverlap /\ [Next]_vars => NoOverlap'
<1>. SUFFICES ASSUME TypeOK, BatchStatus, NoOverlap, [Next]_vars PROVE NoOverlap'
  OBVIOUS
<1>. USE DEF proposalVars, callVars, userVars, Active
<1>1. ASSUME \A p \in Proposals : status'[p] # "absent" => status[p] # "absent",
             \A c \in Calls : pc'[c] \in Active => pc[c] \in Active /\ batch'[c] = batch[c]
      PROVE  NoOverlap'
  BY <1>1 DEF NoOverlap, OpsOf
<1>2. ASSUME NEW p \in Proposals, SaveProposal(p) PROVE NoOverlap'
  BY <1>2 DEF SaveProposal, UpdateStatus, NoOverlap, OpsOf
<1>3. ASSUME NEW p \in Proposals, NEW a \in {"approved", "dismissed", "deferred"}, Act(p, a)
      PROVE  NoOverlap'
  BY <1>1, <1>3 DEF Act, UpdateStatus
<1>4. ASSUME NEW c \in Calls, NEW b \in Batches, RefuseBatch(c, b) PROVE NoOverlap'
  BY <1>1, <1>4 DEF RefuseBatch, Return, TypeOK
<1>5. ASSUME NEW c \in Calls, NEW b \in Batches, StartBatch(c, b) PROVE NoOverlap'
  <2>1. \A p \in Range(b) : status[p] # "absent"
    BY <1>5 DEF StartBatch, ValidBatch, Range
  <2>2. \A p \in Proposals : status'[p] # "absent" => status[p] # "absent"
    BY <1>5, <2>1 DEF StartBatch, UpdateStatus
  <2>3. ~HasOverlappingOperations(OpsOf(Range(b)))
    BY <1>5 DEF StartBatch, ValidBatch
  <2>4. batch'[c] = Range(b) /\ \A d \in Calls : d # c => batch'[d] = batch[d] /\ pc'[d] = pc[d]
    BY <1>5 DEF StartBatch, TypeOK
  <2>. QED BY <2>2, <2>3, <2>4 DEF NoOverlap, OpsOf
<1>6. ASSUME NEW c \in Calls, NEW p \in Proposals, RefuseApply(c, p) PROVE NoOverlap'
  BY <1>1, <1>6 DEF RefuseApply, Return, TypeOK
<1>7. ASSUME NEW c \in Calls, NEW p \in Proposals, StartApply(c, p) PROVE NoOverlap'
  <2>1. ~HasOverlappingOperations(OpsOf({p}))
    BY <1>7 DEF StartApply, NoOverlap
  <2>2. \A q \in Proposals : status'[q] # "absent" => status[q] # "absent"
    BY <1>7 DEF StartApply, UpdateStatus
  <2>3. batch'[c] = {p} /\ \A d \in Calls : d # c => batch'[d] = batch[d] /\ pc'[d] = pc[d]
    BY <1>7 DEF StartApply, TypeOK
  <2>. QED BY <2>1, <2>2, <2>3 DEF NoOverlap, OpsOf
<1>8. ASSUME NEW c \in Calls, Abort(c) PROVE NoOverlap'
  BY <1>1, <1>8 DEF Abort
<1>9. ASSUME NEW n \in Notes, NEW t \in Texts, NEW kept \in SUBSET note[n].ops,
             UserEdit(n, t, kept)
      PROVE  NoOverlap'
  BY <1>1, <1>9 DEF UserEdit
<1>10. ASSUME NEW c \in Calls, CallStep(c) PROVE NoOverlap'
  <2>1. UNCHANGED batch
    BY <1>10 DEF CallStep, ReadFails, PreflightStale, PreflightCanceled, PreflightPasses,
                 WriteFails, FinishApplied, Reindexed, FinishRollback, Read, Write, Rollback,
                 RollbackFails
  <2>2. \A d \in Calls : pc'[d] \in Active => pc[d] \in Active
    BY <1>10 DEF CallStep, ReadFails, PreflightStale, PreflightCanceled, PreflightPasses,
                 WriteFails, FinishApplied, Reindexed, FinishRollback, Read, Write, Rollback,
                 RollbackFails, Return, TypeOK
  <2>3. pc[c] \in Active => \A p \in batch[c] : status[p] # "absent"
    BY DEF BatchStatus
  <2>4. \A p \in Proposals : status'[p] # "absent" => status[p] # "absent"
    BY <1>10, <2>3
       DEF CallStep, ReadFails, PreflightStale, PreflightCanceled, PreflightPasses,
           WriteFails, FinishApplied, Reindexed, FinishRollback, Read, Write, Rollback,
           RollbackFails, UpdateStatus
  <2>. QED BY <1>1, <2>1, <2>2, <2>4
<1>11. CASE UNCHANGED vars
  BY <1>1, <1>11 DEF vars
<1>. QED
  BY <1>2, <1>3, <1>4, <1>5, <1>6, <1>7, <1>8, <1>9, <1>10, <1>11 DEF Next

-----------------------------------------------------------------------------
\* The inductive invariant holds of a fresh workflow.
LEMMA InvInit == Init => WorkflowInv
<1>. SUFFICES ASSUME Init PROVE WorkflowInv
  OBVIOUS
<1>. USE DEF Init, Active
<1>1. TypeOK
  <2>1. note \in [Notes -> Content]
    BY DEF Content
  <2>2. \A n \in Notes : note[n].text \in Texts
    BY <2>1 DEF Content
  <2>. QED BY <2>1, <2>2 DEF TypeOK, Status, Terminal, Outcome
<1>2. OneOwner /\ BatchStatus /\ PreflightClean /\ WrittenIsThere /\ AppliedIsWhole /\ NoOverlap
  BY DEF OneOwner, BatchStatus, PreflightClean, WrittenIsThere, AppliedIsWhole, NoOverlap, OpsOf
<1>3. CallShape
  BY DEF CallShape
<1>4. Accounted
  BY OperationsAssumption DEF Accounted, InVault
<1>5. UserTextKept
  BY DEF UserTextKept
<1>. QED BY <1>1, <1>2, <1>3, <1>4, <1>5 DEF WorkflowInv

\* The plugin's entry points keep the workflow's inductive invariant: each of
\* its parts is kept by a step from a few of the others.
THEOREM WorkflowInvariant == ASSUME SingleEntry PROVE Spec => []WorkflowInv
<1>1. WorkflowInv /\ [Next]_vars => WorkflowInv'
  <2>. SUFFICES ASSUME WorkflowInv, [Next]_vars PROVE WorkflowInv'
    OBVIOUS
  <2>1. /\ TypeOK /\ OneOwner /\ BatchStatus /\ CallShape /\ PreflightClean /\ Accounted
        /\ WrittenIsThere /\ AppliedIsWhole /\ NoOverlap /\ UserTextKept
    BY DEF WorkflowInv
  <2>2. TypeOK' /\ CallShape' /\ UserTextKept'
    BY <2>1, TypeStep, ShapeStep, TextStep
  <2>3. OneOwner' /\ BatchStatus'
    BY <2>1, OwnerStep, SingleEntry
  <2>4. PreflightClean' /\ Accounted'
    BY <2>1, CleanStep, AccountStep
  <2>5. WrittenIsThere' /\ AppliedIsWhole' /\ NoOverlap'
    BY <2>1, WholeStep, OverlapStep
  <2>. QED BY <2>2, <2>3, <2>4, <2>5 DEF WorkflowInv
<1>. QED BY <1>1, InvInit, PTL DEF Spec

\* Every variable stays in its domain, and the notes keep the text the user
\* last typed, through every entry point, used together or not.
THEOREM UserTextSafe == Spec => [](TypeOK /\ UserTextKept)
<1>. DEFINE I == TypeOK /\ CallShape /\ UserTextKept
<1>1. Init => I
  BY InvInit DEF WorkflowInv
<1>2. I /\ [Next]_vars => I'
  BY TypeStep, ShapeStep, TextStep
<1>3. I => TypeOK /\ UserTextKept
  OBVIOUS
<1>. QED BY <1>1, <1>2, <1>3, PTL DEF Spec

\* No proposal is worked on by two calls at once.
THEOREM OneOwnerSafe == ASSUME SingleEntry PROVE Spec => []OneOwner
<1>1. WorkflowInv => OneOwner
  BY DEF WorkflowInv
<1>. QED BY <1>1, WorkflowInvariant, SingleEntry, PTL

\* A proposal whose operation is in some note is being applied, was applied,
\* or asks for recovery.
THEOREM NothingLeftBehindSafe == ASSUME SingleEntry PROVE Spec => []NothingLeftBehind
<1>1. WorkflowInv => NothingLeftBehind
  <2>. SUFFICES ASSUME WorkflowInv, NEW p \in Proposals, Landed(p) # {}
                PROVE  status[p] \in {"applying", "applied", "recovery-required"}
    BY DEF NothingLeftBehind
  <2>1. PICK o \in Operations : o.proposal = p /\ InVault(o)
    BY DEF Landed, OpsOf
  <2>2. AccountedFor(o)
    BY <2>1 DEF WorkflowInv, Accounted
  <2>. QED BY <2>1, <2>2 DEF WorkflowInv, AccountedFor, BatchStatus
<1>. QED BY <1>1, WorkflowInvariant, SingleEntry, PTL

\* An applied proposal is in the notes whole but for what the user took out.
THEOREM AppliedIsWholeSafe == ASSUME SingleEntry PROVE Spec => []AppliedIsWhole
<1>1. WorkflowInv => AppliedIsWhole
  BY DEF WorkflowInv
<1>. QED BY <1>1, WorkflowInvariant, SingleEntry, PTL

\* The test of createWrites, which sorts by start alone, finds no overlap that
\* hasOverlappingOperations, which sorts by start and end, has missed.
LEMMA SortsAgree ==
  ASSUME NEW S \in SUBSET Operations, \A o \in S : o.quoted, CreateWritesThrows(S)
  PROVE  HasOverlappingOperations(S)
<1>1. PICK a, b \in S : a # b /\ a.path = b.path /\ a.start <= b.start /\ b.start < a.end
  BY DEF CreateWritesThrows
<1>2. /\ a.start \in Nat /\ a.end \in Nat /\ b.start \in Nat /\ b.end \in Nat
      /\ b.start < b.end
  BY OperationsAssumption
<1>3. CASE a.start < b.start \/ a.end <= b.end
  BY <1>1, <1>2, <1>3 DEF HasOverlappingOperations
<1>4. CASE a.start = b.start /\ b.end < a.end
  <2>1. b # a /\ b.path = a.path /\ b.start = a.start /\ b.end <= a.end /\ a.start < b.end
    BY <1>1, <1>2, <1>4
  <2>. QED BY <2>1 DEF HasOverlappingOperations
<1>. QED BY <1>1, <1>2, <1>3, <1>4

\* A call that passed its checks never meets an overlap while splicing.
THEOREM SpliceSafe == ASSUME SingleEntry PROVE Spec => []SpliceNeverThrows
<1>1. WorkflowInv => SpliceNeverThrows
  <2>. SUFFICES ASSUME WorkflowInv, NEW c \in Calls, pc[c] = "reading", AllCurrent(c),
                       CreateWritesThrows(OpsOf(batch[c]))
                PROVE  FALSE
    BY DEF SpliceNeverThrows
  <2>1. OpsOf(batch[c]) \in SUBSET Operations /\ \A o \in OpsOf(batch[c]) : o.quoted
    BY DEF AllCurrent, IsCurrent, OpsOf
  <2>2. HasOverlappingOperations(OpsOf(batch[c]))
    BY <2>1, SortsAgree
  <2>. QED BY <2>2 DEF WorkflowInv, NoOverlap, Active
<1>. QED BY <1>1, WorkflowInvariant, SingleEntry, PTL

\* No step takes a decided proposal out of its decision.
THEOREM DecisionsStand == ASSUME SingleEntry PROVE Spec => DecidedForGood
<1>1. WorkflowInv /\ [Next]_vars
        => [\A p \in Proposals : status[p] \in Terminal => status'[p] = status[p]]_vars
  <2>. SUFFICES ASSUME WorkflowInv, Next, NEW p \in Proposals, status[p] \in Terminal
                PROVE  status'[p] = status[p]
    OBVIOUS
  <2>. USE DEF proposalVars, Terminal, UpdateStatus
  <2>1. TypeOK /\ BatchStatus
    BY DEF WorkflowInv
  <2>2. ASSUME NEW q \in Proposals, NEW a \in {"approved", "dismissed", "deferred"},
               SaveProposal(q) \/ Act(q, a)
        PROVE  status'[p] = status[p]
    BY <2>2 DEF SaveProposal, Act
  <2>3. ASSUME NEW c \in Calls, NEW b \in Batches, RefuseBatch(c, b) \/ StartBatch(c, b)
        PROVE  status'[p] = status[p]
    BY <2>3 DEF RefuseBatch, StartBatch, ValidBatch, Range
  <2>4. ASSUME NEW c \in Calls, NEW q \in Proposals, RefuseApply(c, q) \/ StartApply(c, q)
        PROVE  status'[p] = status[p]
    BY <2>4 DEF RefuseApply, StartApply
  <2>5. ASSUME NEW c \in Calls, CallStep(c) PROVE status'[p] = status[p]
    <3>1. pc[c] \in Active => p \notin batch[c]
      BY <2>1 DEF BatchStatus, Active
    <3>. QED BY <2>5, <3>1
         DEF CallStep, ReadFails, PreflightStale, PreflightCanceled, PreflightPasses,
             WriteFails, FinishApplied, Reindexed, FinishRollback, Read, Write, Rollback,
             RollbackFails, Active
  <2>6. ASSUME NEW c \in Calls, Abort(c) PROVE status'[p] = status[p]
    BY <2>6 DEF Abort
  <2>7. ASSUME NEW n \in Notes, NEW t \in Texts, NEW kept \in SUBSET note[n].ops,
               UserEdit(n, t, kept)
        PROVE  status'[p] = status[p]
    BY <2>7 DEF UserEdit
  <2>. QED BY <2>2, <2>3, <2>4, <2>5, <2>6, <2>7 DEF Next
<1>. QED BY <1>1, WorkflowInvariant, SingleEntry, PTL DEF Spec, DecidedForGood

-----------------------------------------------------------------------------
(* The ledger.                                                             *)

\* A call reports when it ends, and has something in hand until then.
LedgerShape ==
  \A c \in Calls :
    /\ pc[c] \in Active \cup {"idle"} => outcome[c] = "none"
    /\ pc[c] \in Active => batch[c] # {}

\* No step lets a call report early or go on with nothing in hand.
LEMMA LedgerShapeStep == TypeOK /\ LedgerShape /\ [Next]_vars => LedgerShape'
<1>. SUFFICES ASSUME TypeOK, LedgerShape, [Next]_vars PROVE LedgerShape'
  OBVIOUS
<1>. USE DEF proposalVars, callVars, userVars, Active, TypeOK, LedgerShape, Return
<1>1. ASSUME NEW p \in Proposals, NEW a \in {"approved", "dismissed", "deferred"},
             SaveProposal(p) \/ Act(p, a)
      PROVE  LedgerShape'
  BY <1>1 DEF SaveProposal, Act
<1>2. ASSUME NEW c \in Calls, NEW b \in Batches, RefuseBatch(c, b) PROVE LedgerShape'
  BY <1>2 DEF RefuseBatch
<1>3. ASSUME NEW c \in Calls, NEW b \in Batches, StartBatch(c, b) PROVE LedgerShape'
  <2>1. b \in Seq(Proposals) /\ Len(b) >= 1
    BY <1>3, ConstantsAssumption DEF StartBatch, ValidBatch
  <2>2. b[1] \in Range(b)
    BY <2>1 DEF Range
  <2>. QED BY <1>3, <2>2 DEF StartBatch
<1>4. ASSUME NEW c \in Calls, NEW p \in Proposals, RefuseApply(c, p) \/ StartApply(c, p)
      PROVE  LedgerShape'
  <2>1. CASE RefuseApply(c, p)
    BY <2>1 DEF RefuseApply
  <2>2. CASE StartApply(c, p)
    <3>1. pc' = [pc EXCEPT ![c] = "reading"] /\ batch' = [batch EXCEPT ![c] = {p}]
          /\ outcome' = outcome /\ pc[c] = "idle"
      BY <2>2 DEF StartApply
    <3>. QED BY <3>1
  <2>. QED BY <1>4, <2>1, <2>2
<1>5. ASSUME NEW c \in Calls, CallStep(c) \/ Abort(c) PROVE LedgerShape'
  <2>1. CASE PreflightPasses(c)
    <3>1. CASE pc' = [pc EXCEPT ![c] = "writing"] /\ UNCHANGED <<batch, outcome>>
      BY <2>1, <3>1 DEF PreflightPasses
    <3>2. CASE pc' = [pc EXCEPT ![c] = "done"] /\ batch' = batch
               /\ \E r \in Outcome : outcome' = [outcome EXCEPT ![c] = r]
      BY <3>2
    <3>. QED BY <2>1, <3>1, <3>2 DEF PreflightPasses, Outcome
  <2>2. CASE ReadFails(c) \/ PreflightStale(c) \/ PreflightCanceled(c) \/ WriteFails(c)
             \/ FinishApplied(c) \/ Reindexed(c) \/ FinishRollback(c) \/ Abort(c)
    BY <2>2 DEF ReadFails, PreflightStale, PreflightCanceled, WriteFails, FinishApplied,
                Reindexed, FinishRollback, Abort
  <2>3. ASSUME NEW n \in Notes, Read(c, n) \/ Write(c, n) \/ Rollback(c, n) \/ RollbackFails(c, n)
        PROVE  LedgerShape'
    BY <2>3 DEF Read, Write, Rollback, RollbackFails
  <2>. QED BY <1>5, <2>1, <2>2, <2>3 DEF CallStep
<1>6. ASSUME NEW n \in Notes, NEW t \in Texts, NEW kept \in SUBSET note[n].ops, UserEdit(n, t, kept)
      PROVE  LedgerShape'
  BY <1>6 DEF UserEdit
<1>7. CASE UNCHANGED vars
  BY <1>7 DEF vars
<1>. QED BY <1>1, <1>2, <1>3, <1>4, <1>5, <1>6, <1>7 DEF Next

\* A proposal that is pending or absent is in no call's hands, and one that
\* a call has is in no other's.
LEMMA HeldOnce ==
  ASSUME TypeOK, OneOwner, BatchStatus
  PROVE  /\ \A p \in Proposals, c \in Calls : p \in Held(c) => status[p] \in {"approved", "applying"}
         /\ \A p \in Proposals, c, d \in Calls : p \in Held(c) /\ p \in Held(d) => c = d
         /\ \A c \in Calls : Held(c) \subseteq Proposals
<1>1. \A c \in Calls : kind[c] \in {"batch", "apply"} /\ batch[c] \subseteq Proposals
  BY DEF TypeOK
<1>. QED BY <1>1 DEF Held, OneOwner, BatchStatus, Active

\* A step that leaves what is held and every proposal that is not.
LEMMA LedgerStutter ==
  ASSUME \A c \in Calls : Held(c)' = Held(c), outcome' = outcome,
         \A p \in Proposals : status'[p] = status[p] \/ \E c \in Calls : p \in Held(c)
  PROVE  UNCHANGED <<LedgerState, Holding, outcome>>
BY DEF LedgerState, Holding

\* A call ends with one status for all it has, as it reports.
LEMMA LedgerSettles ==
  ASSUME TypeOK, OneOwner, BatchStatus, LedgerShape,
         NEW c \in Calls, pc[c] \in Active, batch' = batch,
         NEW ended, ended \notin Active, pc' = [pc EXCEPT ![c] = ended],
         NEW result \in Results, UpdateStatus(batch[c], result[2]),
         outcome' = [outcome EXCEPT ![c] = result[1]]
  PROVE  Ledger!Settle(c)
<1>1. Held(c) = batch[c] /\ Held(c)' = {} /\ \A d \in Calls \ {c} : Held(d)' = Held(d)
  BY DEF Held, TypeOK
<1>2. Holding[c] # {} /\ Holding[c] = batch[c]
  BY <1>1 DEF Holding, LedgerShape
<1>3. Holding' = [Holding EXCEPT ![c] = {}]
  BY <1>1 DEF Holding
<1>4. \A p \in Proposals : LedgerState'[p] = IF p \in batch[c] THEN result[2] ELSE LedgerState[p]
  <2>. SUFFICES ASSUME NEW p \in Proposals
                PROVE  LedgerState'[p] = IF p \in batch[c] THEN result[2] ELSE LedgerState[p]
    OBVIOUS
  <2>1. CASE p \in batch[c]
    <3>1. \A d \in Calls : p \notin Held(d)'
      BY <1>1, <2>1, HeldOnce
    <3>2. status'[p] = result[2]
      BY <2>1 DEF UpdateStatus
    <3>. QED BY <2>1, <3>1, <3>2 DEF LedgerState
  <2>2. CASE p \notin batch[c]
    <3>1. (\E d \in Calls : p \in Held(d)') <=> (\E d \in Calls : p \in Held(d))
      BY <1>1, <2>2
    <3>2. status'[p] = status[p]
      BY <2>2 DEF UpdateStatus
    <3>. QED BY <2>2, <3>1, <3>2 DEF LedgerState
  <2>. QED BY <2>1, <2>2
<1>5. LedgerState' = [p \in Proposals |-> IF p \in Holding[c] THEN result[2] ELSE LedgerState[p]]
  BY <1>2, <1>4 DEF LedgerState
<1>. QED BY <1>2, <1>3, <1>5 DEF Ledger!Settle, Ledger!Become

\* A call takes proposals that are pending or approved and in no other's hands.
LEMMA LedgerTakes ==
  ASSUME TypeOK, LedgerShape, NEW c \in Calls, pc[c] = "idle", outcome' = outcome,
         NEW S \in SUBSET Proposals, S # {},
         \A p \in S : status[p] \in {"pending", "approved"} /\ \A d \in Calls : p \notin Held(d),
         pc' = [pc EXCEPT ![c] = "reading"], batch' = [batch EXCEPT ![c] = S],
         \A p \in Proposals \ S : status'[p] = status[p]
  PROVE  Ledger!Take(c)
<1>1. Held(c) = {} /\ Held(c)' = S /\ \A d \in Calls \ {c} : Held(d)' = Held(d)
  BY DEF Held, TypeOK, Active
<1>2. Holding[c] = {} /\ outcome[c] = "none" /\ Holding' = [Holding EXCEPT ![c] = S]
  BY <1>1 DEF Holding, LedgerShape
<1>3. \A p \in S : LedgerState[p] \in {"pending", "approved"}
  BY DEF LedgerState
<1>4. LedgerState' = [p \in Proposals |-> IF p \in S THEN "taken" ELSE LedgerState[p]]
  BY <1>1 DEF LedgerState
<1>. QED BY <1>2, <1>3, <1>4 DEF Ledger!Take, Ledger!Become

\* The status of one proposal that nobody has changes.
LEMMA LedgerDecides ==
  ASSUME NEW p \in Proposals, NEW s, UpdateStatus({p}, s), UNCHANGED <<pc, batch, outcome>>,
         \A c \in Calls : p \notin Held(c)
  PROVE  Ledger!Become({p}, s) /\ UNCHANGED <<Holding, outcome>> /\ LedgerState[p] = status[p]
<1>1. \A c \in Calls : Held(c)' = Held(c)
  BY DEF Held
<1>2. Holding' = Holding
  BY <1>1 DEF Holding
<1>3. LedgerState' = [q \in Proposals |-> IF q \in {p} THEN s ELSE LedgerState[q]]
  BY <1>1 DEF LedgerState, UpdateStatus
<1>4. LedgerState[p] = status[p]
  BY DEF LedgerState
<1>. QED BY <1>2, <1>3, <1>4 DEF Ledger!Become

\* Every step of the workflow is a step of the ledger, or none.
LEMMA LedgerStep ==
  ASSUME SingleEntry
  PROVE  WorkflowInv /\ LedgerShape /\ [Next]_vars => [Ledger!Next]_<<LedgerState, Holding, outcome>>
<1>. SUFFICES ASSUME WorkflowInv, LedgerShape, [Next]_vars
              PROVE  Ledger!Next \/ UNCHANGED <<LedgerState, Holding, outcome>>
  OBVIOUS
<1>0. TypeOK /\ OneOwner /\ BatchStatus /\ CallShape /\ NoOverlap
  BY DEF WorkflowInv
<1>. USE <1>0 DEF proposalVars, callVars, userVars
<1>1. ASSUME NEW p \in Proposals, SaveProposal(p) PROVE Ledger!Save(p)
  <2>1. status[p] = "absent" /\ UpdateStatus({p}, "pending") /\ UNCHANGED <<pc, batch, outcome>>
    BY <1>1 DEF SaveProposal
  <2>2. \A c \in Calls : p \notin Held(c)
    BY <2>1, HeldOnce
  <2>. QED BY <2>1, <2>2, LedgerDecides DEF Ledger!Save
<1>2. ASSUME NEW p \in Proposals, NEW a \in {"approved", "dismissed", "deferred"}, Act(p, a)
      PROVE  Ledger!Decide(p)
  <2>1. status[p] = "pending" /\ UpdateStatus({p}, a) /\ UNCHANGED <<pc, batch, outcome>>
    BY <1>2 DEF Act
  <2>2. \A c \in Calls : p \notin Held(c)
    BY <2>1, HeldOnce
  <2>3. Ledger!Become({p}, a) /\ UNCHANGED <<Holding, outcome>> /\ LedgerState[p] = "pending"
    BY <2>1, <2>2, LedgerDecides
  <2>. QED BY <2>3 DEF Ledger!Decide
<1>3. ASSUME NEW c \in Calls, NEW result \in {"invalid", "canceled"}, pc[c] = "idle",
             Return(c, result), UNCHANGED <<status, batch>>
      PROVE  Ledger!Refuse(c)
  <2>1. pc' = [pc EXCEPT ![c] = "done"] /\ outcome' = [outcome EXCEPT ![c] = result]
    BY <1>3 DEF Return
  <2>2. \A d \in Calls : Held(d)' = Held(d)
    BY <1>3, <2>1 DEF Held, Active, TypeOK
  <2>3. Holding[c] = {} /\ outcome[c] = "none"
    BY <1>3 DEF Holding, Held, Active, LedgerShape
  <2>4. UNCHANGED <<LedgerState, Holding>>
    BY <1>3, <2>2 DEF LedgerState, Holding
  <2>. QED BY <2>1, <2>3, <2>4 DEF Ledger!Refuse
<1>4. ASSUME NEW c \in Calls, NEW b \in Batches, StartBatch(c, b) PROVE Ledger!Take(c)
  <2>1. b \in Seq(Proposals) /\ Len(b) >= 1 /\ \A i \in DOMAIN b : status[b[i]] = "pending"
    BY <1>4, ConstantsAssumption DEF StartBatch, ValidBatch
  <2>2. b[1] \in Range(b) /\ \A p \in Range(b) : status[p] = "pending"
    BY <2>1 DEF Range
  <2>3. Range(b) \in SUBSET Proposals
    BY BatchRange
  <2>4. \A p \in Range(b), d \in Calls : p \notin Held(d)
    BY <2>2, <2>3, HeldOnce
  <2>5. /\ pc[c] = "idle" /\ pc' = [pc EXCEPT ![c] = "reading"] /\ outcome' = outcome
        /\ batch' = [batch EXCEPT ![c] = Range(b)]
        /\ \A p \in Proposals \ Range(b) : status'[p] = status[p]
    BY <1>4 DEF StartBatch, UpdateStatus
  <2>. QED BY <2>2, <2>3, <2>4, <2>5, LedgerTakes
<1>5. ASSUME NEW c \in Calls, NEW p \in Proposals, StartApply(c, p) PROVE Ledger!Take(c)
  <2>1. /\ status[p] = "approved" /\ pc[c] = "idle" /\ pc' = [pc EXCEPT ![c] = "reading"]
        /\ batch' = [batch EXCEPT ![c] = {p}] /\ outcome' = outcome
        /\ \A q \in Proposals \ {p} : status'[q] = status[q]
    BY <1>5 DEF StartApply, UpdateStatus
  <2>2. \A d \in Calls : p \notin Held(d)
    BY <1>5, <2>1 DEF StartApply, SingleEntry, CallShape, Held, BatchStatus, Active
  <2>3. {p} \in SUBSET Proposals /\ {p} # {} /\ \A q \in {p} : status[q] \in {"pending", "approved"}
                                              /\ \A d \in Calls : q \notin Held(d)
    BY <2>1, <2>2
  <2>. QED BY <2>1, <2>3, LedgerTakes
<1>6. ASSUME NEW c \in Calls, CallStep(c)
      PROVE  Ledger!Settle(c) \/ UNCHANGED <<LedgerState, Holding, outcome>>
  <2>1. ASSUME NEW result \in Results, pc[c] \in Active, batch' = batch,
               NEW ended \in {"done", "reindexing"}, pc' = [pc EXCEPT ![c] = ended],
               UpdateStatus(batch[c], result[2]), outcome' = [outcome EXCEPT ![c] = result[1]]
        PROVE  Ledger!Settle(c)
    <3>1. ended \notin Active
      BY DEF Active
    <3>. QED BY <2>1, <3>1, LedgerSettles
  <2>2. <<"applied", "applied">> \in Results /\ <<"stale", "stale">> \in Results
        /\ <<"canceled", "approved">> \in Results /\ <<"write-failed", "apply-failed">> \in Results
        /\ <<"recovery-required", "recovery-required">> \in Results
    BY DEF Results
  <2>3. CASE ReadFails(c)
    BY <2>1, <2>2, <2>3 DEF ReadFails, Return, Active
  <2>4. CASE PreflightStale(c)
    BY <2>1, <2>2, <2>4 DEF PreflightStale, Return, Active
  <2>5. CASE PreflightCanceled(c)
    BY <2>1, <2>2, <2>5 DEF PreflightCanceled, Return, Active
  <2>6. CASE PreflightPasses(c)
    <3>1. ~CreateWritesThrows(OpsOf(batch[c]))
      <4>1. OpsOf(batch[c]) \in SUBSET Operations /\ \A o \in OpsOf(batch[c]) : o.quoted
        BY <2>6 DEF PreflightPasses, AllCurrent, IsCurrent, OpsOf
      <4>2. ~HasOverlappingOperations(OpsOf(batch[c]))
        BY <2>6 DEF PreflightPasses, NoOverlap, Active
      <4>. QED BY <4>1, <4>2, SortsAgree
    <3>2. /\ pc[c] = "reading" /\ pc' = [pc EXCEPT ![c] = "writing"] /\ batch' = batch /\ outcome' = outcome
          /\ UpdateStatus(batch[c], "applying")
      BY <2>6, <3>1 DEF PreflightPasses
    <3>3. \A d \in Calls : Held(d)' = Held(d)
      BY <3>2 DEF Held, Active, TypeOK
    <3>4. \A p \in Proposals : status'[p] = status[p] \/ \E d \in Calls : p \in Held(d)
      BY <3>2 DEF UpdateStatus, Held, Active
    <3>. QED BY <3>2, <3>3, <3>4, LedgerStutter
  <2>7. CASE FinishApplied(c)
    <3>1. /\ pc[c] \in Active /\ batch' = batch /\ UpdateStatus(batch[c], "applied")
          /\ outcome' = [outcome EXCEPT ![c] = "applied"]
          /\ \E ended \in {"done", "reindexing"} : pc' = [pc EXCEPT ![c] = ended]
      BY <2>7 DEF FinishApplied, Active
    <3>. QED BY <2>1, <2>2, <3>1
  <2>8. CASE FinishRollback(c)
    <3>1. pc[c] \in Active /\ batch' = batch /\ pc' = [pc EXCEPT ![c] = "done"] /\ kind[c] \in EntryPoints
          /\ kind[c] \in {"batch", "apply"}
      BY <2>8 DEF FinishRollback, Return, Active, CallShape, TypeOK
    <3>2. CASE ~stuck[c]
      <4>1. UpdateStatus(batch[c], "apply-failed") /\ outcome' = [outcome EXCEPT ![c] = "write-failed"]
        BY <2>8, <3>2 DEF FinishRollback, Return
      <4>. QED BY <2>1, <2>2, <3>1, <4>1
    <3>3. CASE stuck[c] /\ kind[c] = "batch"
      <4>1. UpdateStatus(batch[c], "recovery-required")
            /\ outcome' = [outcome EXCEPT ![c] = "recovery-required"]
        BY <2>8, <3>3 DEF FinishRollback, Return
      <4>. QED BY <2>1, <2>2, <3>1, <4>1
    <3>4. CASE stuck[c] /\ kind[c] = "apply"
      <4>1. UpdateStatus(batch[c], "recovery-required")
            /\ outcome' = [outcome EXCEPT ![c] = "write-failed"]
        BY <2>8, <3>4 DEF FinishRollback, Return
      <4>2. <<"write-failed", "recovery-required">> \in Results
        BY <3>1, <3>4 DEF Results
      <4>. QED BY <2>1, <3>1, <4>1, <4>2
    <3>. QED BY <3>1, <3>2, <3>3, <3>4
  <2>9. CASE WriteFails(c) \/ Reindexed(c)
    <3>1. status' = status /\ outcome' = outcome
      BY <2>9 DEF WriteFails, Reindexed
    <3>2. \A d \in Calls : Held(d)' = Held(d)
      BY <2>9 DEF WriteFails, Reindexed, Held, Active, TypeOK
    <3>. QED BY <3>1, <3>2, LedgerStutter
  <2>10. ASSUME NEW n \in Notes, Read(c, n) \/ Write(c, n) \/ Rollback(c, n) \/ RollbackFails(c, n)
         PROVE  UNCHANGED <<LedgerState, Holding, outcome>>
    <3>1. UNCHANGED <<status, outcome, pc, batch>>
      BY <2>10 DEF Read, Write, Rollback, RollbackFails
    <3>. QED BY <3>1, LedgerStutter DEF Held
  <2>. QED BY <1>6, <2>3, <2>4, <2>5, <2>6, <2>7, <2>8, <2>9, <2>10 DEF CallStep
<1>7. ASSUME UNCHANGED <<status, outcome, pc, batch>> PROVE UNCHANGED <<LedgerState, Holding, outcome>>
  BY <1>7, LedgerStutter DEF Held
<1>8. ASSUME NEW c \in Calls, NEW b \in Batches, RefuseBatch(c, b) PROVE Ledger!Refuse(c)
  <2>1. \E result \in {"invalid", "canceled"} : Return(c, result)
    BY <1>8 DEF RefuseBatch
  <2>. QED BY <1>3, <1>8, <2>1 DEF RefuseBatch
<1>9. ASSUME NEW c \in Calls, NEW p \in Proposals, RefuseApply(c, p) PROVE Ledger!Refuse(c)
  BY <1>3, <1>9 DEF RefuseApply
<1>10. ASSUME NEW c \in Calls, Abort(c) PROVE UNCHANGED <<status, outcome, pc, batch>>
  BY <1>10 DEF Abort
<1>11. ASSUME NEW n \in Notes, NEW t \in Texts, NEW kept \in SUBSET note[n].ops, UserEdit(n, t, kept)
       PROVE  UNCHANGED <<status, outcome, pc, batch>>
  BY <1>11 DEF UserEdit
<1>12. CASE UNCHANGED vars
  BY <1>7, <1>12 DEF vars
<1>. QED
  BY <1>1, <1>2, <1>4, <1>5, <1>6, <1>7, <1>8, <1>9, <1>10, <1>11, <1>12 DEF Next, Ledger!Next

\* The workflow implements the ledger when the batch and the single apply are
\* not used side by side.
THEOREM LedgerKept == ASSUME SingleEntry PROVE Spec => KeepsLedger
<1>1. Init => LedgerShape /\ Ledger!Init
  <2>1. Init => \A c \in Calls : Held(c) = {} /\ pc[c] = "idle" /\ outcome[c] = "none"
    BY DEF Init, Held, Active
  <2>. QED BY <2>1 DEF Init, LedgerShape, Active, Ledger!Init, LedgerState, Holding
<1>2. WorkflowInv /\ LedgerShape /\ [Next]_vars => LedgerShape'
  BY LedgerShapeStep DEF WorkflowInv
<1>3. Spec => []WorkflowInv
  BY WorkflowInvariant, SingleEntry
<1>. QED BY <1>1, <1>2, <1>3, LedgerStep, SingleEntry, PTL DEF Spec, KeepsLedger, Ledger!Spec

-----------------------------------------------------------------------------
(* The approvals.                                                          *)

\* The approvals t that a proposal of status s may have.
Tells(t, s) ==
  /\ s \in {"absent", "pending"} => t = <<>>
  /\ s \in {"dismissed", "deferred"} => t = <<s>>
  /\ s \in {"approved", "applying", "apply-failed", "recovery-required"} => t = <<"approved">>
  /\ s = "applied" => t = <<"approved", "applied">>
  /\ s = "stale" => t \in {<<"approved">>, <<"approved", "stale">>}

TrailStory == \A p \in Proposals : Tells(trail[p], status[p])

\* The members of a call that has not ended are approved, and nothing more.
LEMMA MembersApproved ==
  ASSUME TypeOK, BatchStatus, TrailStory, NEW c \in Calls, pc[c] \in Active, NEW p \in batch[c]
  PROVE  p \in Proposals /\ trail[p] = <<"approved">>
<1>1. p \in Proposals
  BY DEF TypeOK
<1>2. status[p] \in {"approved", "applying"}
  BY DEF BatchStatus, Active
<1>. QED BY <1>1, <1>2 DEF TrailStory, Tells

\* Proposals that change their status alone.
LEMMA StoryMoves ==
  ASSUME TypeOK, TrailStory, NEW S \in SUBSET Proposals, NEW s, UpdateStatus(S, s), trail' = trail,
         \A p \in S : Tells(trail[p], s)
  PROVE  TrailStory'
<1>. SUFFICES ASSUME NEW p \in Proposals PROVE Tells(trail[p], status'[p])
  BY DEF TrailStory
<1>1. status'[p] = IF p \in S THEN s ELSE status[p]
  BY DEF UpdateStatus
<1>. QED BY <1>1 DEF TrailStory

\* Proposals whose new status is recorded, after what is recorded of them.
LEMMA StoryGrows ==
  ASSUME TypeOK, TrailStory, NEW S \in SUBSET Proposals, NEW s, NEW a \in Actions,
         UpdateStatus(S, s), RecordApproval(S, a),
         \A p \in S : Tells(Append(trail[p], a), s)
  PROVE  TrailStory'
<1>. SUFFICES ASSUME NEW p \in Proposals PROVE Tells(trail'[p], status'[p])
  BY DEF TrailStory
<1>1. status'[p] = IF p \in S THEN s ELSE status[p]
  BY DEF UpdateStatus
<1>2. trail'[p] = IF p \in S THEN Append(trail[p], a) ELSE trail[p]
  BY DEF RecordApproval
<1>. QED BY <1>1, <1>2 DEF TrailStory

\* A second row behind a first.
LEMMA SecondRow ==
  ASSUME NEW a, NEW b
  PROVE  Append(<<a>>, b) = <<a, b>>
<1>. DEFINE S == {a, b}
<1>1. <<a>> \in Seq(S) /\ <<a, b>> \in Seq(S)
  OBVIOUS
<1>2. /\ Append(<<a>>, b) \in Seq(S) /\ Len(Append(<<a>>, b)) = 2
      /\ Append(<<a>>, b)[1] = a /\ Append(<<a>>, b)[2] = b
  BY <1>1, AppendProperties
<1>3. \A i \in 1..2 : Append(<<a>>, b)[i] = <<a, b>>[i]
  BY <1>2
<1>. QED BY <1>1, <1>2, <1>3, SeqEqual

\* Every step that touches a status or an approval goes on with the story.
LEMMA StoryStep == TypeOK /\ BatchStatus /\ TrailStory /\ [Next]_vars => TrailStory'
<1>. SUFFICES ASSUME TypeOK, BatchStatus, TrailStory, [Next]_vars PROVE TrailStory'
  OBVIOUS
<1>. USE DEF proposalVars, callVars, userVars
<1>0. /\ Append(<<>>, "approved") = <<"approved">>
      /\ Append(<<>>, "dismissed") = <<"dismissed">>
      /\ Append(<<>>, "deferred") = <<"deferred">>
      /\ Append(<<"approved">>, "applied") = <<"approved", "applied">>
      /\ Append(<<"approved">>, "stale") = <<"approved", "stale">>
  <2>1. Append(<<"approved">>, "applied") = <<"approved", "applied">>
    BY SecondRow
  <2>2. Append(<<"approved">>, "stale") = <<"approved", "stale">>
    BY SecondRow
  <2>. QED BY <2>1, <2>2
<1>1. ASSUME NEW p \in Proposals, SaveProposal(p) PROVE TrailStory'
  <2>1. Tells(trail[p], "pending")
    BY <1>1 DEF SaveProposal, TrailStory, Tells
  <2>. QED BY <1>1, <2>1, StoryMoves DEF SaveProposal
<1>2. ASSUME NEW p \in Proposals, NEW a \in {"approved", "dismissed", "deferred"}, Act(p, a)
      PROVE  TrailStory'
  <2>1. trail[p] = <<>>
    BY <1>2 DEF Act, TrailStory, Tells
  <2>2. Tells(Append(trail[p], a), a)
    BY <2>1, <1>0 DEF Tells
  <2>3. a \in Actions
    BY DEF Actions
  <2>4. UpdateStatus({p}, a) /\ RecordApproval({p}, a)
    BY <1>2 DEF Act
  <2>. QED BY <2>2, <2>3, <2>4, StoryGrows
<1>3. ASSUME NEW c \in Calls, NEW b \in Batches, StartBatch(c, b) PROVE TrailStory'
  <2>1. Range(b) \in SUBSET Proposals
    BY BatchRange
  <2>2. ASSUME NEW p \in Range(b) PROVE Tells(Append(trail[p], "approved"), "approved")
    <3>1. status[p] = "pending"
      BY <1>3, <2>2 DEF StartBatch, ValidBatch, Range
    <3>2. trail[p] = <<>>
      BY <3>1, <2>1 DEF TrailStory, Tells
    <3>. QED BY <3>2, <1>0 DEF Tells
  <2>3. "approved" \in Actions
    BY DEF Actions
  <2>4. UpdateStatus(Range(b), "approved") /\ RecordApproval(Range(b), "approved")
    BY <1>3 DEF StartBatch
  <2>. QED BY <2>1, <2>2, <2>3, <2>4, StoryGrows
<1>4. ASSUME NEW c \in Calls, NEW p \in Proposals, StartApply(c, p) PROVE TrailStory'
  <2>1. Tells(trail[p], "applying")
    BY <1>4 DEF StartApply, TrailStory, Tells
  <2>. QED BY <1>4, <2>1, StoryMoves DEF StartApply
<1>5. ASSUME NEW c \in Calls, CallStep(c) PROVE TrailStory'
  <2>1. batch[c] \in SUBSET Proposals
    BY DEF TypeOK
  <2>2. ASSUME NEW s \in {"approved", "applying", "apply-failed", "recovery-required", "stale"},
               pc[c] \in Active, UpdateStatus(batch[c], s), trail' = trail
        PROVE  TrailStory'
    <3>1. \A p \in batch[c] : Tells(trail[p], s)
      BY <2>2, MembersApproved DEF Tells
    <3>. QED BY <2>1, <2>2, <3>1, StoryMoves
  <2>3. ASSUME NEW s \in {"applied", "stale"}, pc[c] \in Active,
               UpdateStatus(batch[c], s), RecordApproval(batch[c], s)
        PROVE  TrailStory'
    <3>1. \A p \in batch[c] : Tells(Append(trail[p], s), s)
      BY <2>3, <1>0, MembersApproved DEF Tells
    <3>2. s \in Actions
      BY DEF Actions
    <3>. QED BY <2>1, <2>3, <3>1, <3>2, StoryGrows
  <2>4. CASE ReadFails(c)
    BY <2>4, <2>2 DEF ReadFails, Active
  <2>5. CASE PreflightStale(c)
    BY <2>5, <2>3 DEF PreflightStale, Active
  <2>6. CASE PreflightCanceled(c)
    BY <2>6, <2>2 DEF PreflightCanceled, Active
  <2>7. CASE PreflightPasses(c)
    <3>1. \E s \in {"stale", "apply-failed", "applying"} : UpdateStatus(batch[c], s)
      BY <2>7 DEF PreflightPasses
    <3>2. pc[c] \in Active /\ trail' = trail
      BY <2>7 DEF PreflightPasses, Active
    <3>. QED BY <3>1, <3>2, <2>2
  <2>8. CASE FinishApplied(c)
    BY <2>8, <2>3 DEF FinishApplied, Active
  <2>9. CASE FinishRollback(c)
    <3>1. \E s \in {"recovery-required", "apply-failed"} : UpdateStatus(batch[c], s)
      BY <2>9 DEF FinishRollback
    <3>2. pc[c] \in Active /\ trail' = trail
      BY <2>9 DEF FinishRollback, Active
    <3>. QED BY <3>1, <3>2, <2>2
  <2>10. CASE WriteFails(c) \/ Reindexed(c)
    BY <2>10 DEF WriteFails, Reindexed, TrailStory
  <2>11. ASSUME NEW n \in Notes, Read(c, n) \/ Write(c, n) \/ Rollback(c, n) \/ RollbackFails(c, n)
         PROVE  TrailStory'
    BY <2>11 DEF Read, Write, Rollback, RollbackFails, TrailStory
  <2>. QED BY <1>5, <2>4, <2>5, <2>6, <2>7, <2>8, <2>9, <2>10, <2>11 DEF CallStep
<1>6. CASE UNCHANGED <<status, trail>>
  BY <1>6 DEF TrailStory
<1>7. ASSUME NEW c \in Calls, NEW b \in Batches, RefuseBatch(c, b) PROVE UNCHANGED <<status, trail>>
  BY <1>7 DEF RefuseBatch
<1>8. ASSUME NEW c \in Calls, NEW p \in Proposals, RefuseApply(c, p) PROVE UNCHANGED <<status, trail>>
  BY <1>8 DEF RefuseApply
<1>9. ASSUME NEW c \in Calls, Abort(c) PROVE UNCHANGED <<status, trail>>
  BY <1>9 DEF Abort
<1>10. ASSUME NEW n \in Notes, NEW t \in Texts, NEW kept \in SUBSET note[n].ops, UserEdit(n, t, kept)
       PROVE  UNCHANGED <<status, trail>>
  BY <1>10 DEF UserEdit
<1>11. CASE UNCHANGED vars
  BY <1>11, <1>6 DEF vars
<1>. QED BY <1>1, <1>2, <1>3, <1>4, <1>5, <1>6, <1>7, <1>8, <1>9, <1>10, <1>11 DEF Next

\* The story holds in every state, if the batch and the single apply are not
\* used side by side.
LEMMA StoryInvariant == ASSUME SingleEntry PROVE Spec => [](WorkflowInv /\ TrailStory)
<1>1. Init => TrailStory
  BY DEF Init, TrailStory, Tells
<1>2. WorkflowInv /\ TrailStory /\ [Next]_vars => TrailStory'
  BY StoryStep DEF WorkflowInv
<1>3. Spec => []WorkflowInv
  BY WorkflowInvariant, SingleEntry
<1>. QED BY <1>1, <1>2, <1>3, PTL DEF Spec

\* The approvals of a proposal are one decision and at most one result, which
\* is its status: act, approveAndApplyBatch and apply never change a status
\* away from what they have recorded.
THEOREM TrailMatches == ASSUME SingleEntry PROVE Spec => []TrailMatchesStatus
<1>1. WorkflowInv /\ TrailStory => TrailMatchesStatus
  <2>. SUFFICES ASSUME TypeOK, TrailStory, NEW p \in Proposals
                PROVE  LET t == trail[p] IN
                       /\ Len(t) <= 2
                       /\ t = <<>> <=> status[p] \in {"absent", "pending"}
                       /\ Len(t) = 2 => t[1] = "approved" /\ t[2] = status[p]
                       /\ status[p] \in {"dismissed", "deferred"} => t = <<status[p]>>
                       /\ status[p] = "applied" => t = <<"approved", "applied">>
    BY DEF TrailMatchesStatus, WorkflowInv
  <2>1. Tells(trail[p], status[p])
    BY DEF TrailStory
  <2>2. status[p] \in Terminal \cup {"absent", "pending", "approved", "applying"}
    BY DEF TypeOK, Status
  <2>3. CASE status[p] \in {"absent", "pending"}
    <3>1. trail[p] = <<>> /\ Len(trail[p]) = 0
      BY <2>1, <2>3 DEF Tells
    <3>. QED BY <2>3, <3>1
  <2>4. CASE status[p] \in {"dismissed", "deferred"}
    <3>1. trail[p] = <<status[p]>>
      BY <2>1, <2>4 DEF Tells
    <3>2. Len(trail[p]) = 1 /\ trail[p] # <<>>
      BY <3>1
    <3>. QED BY <2>4, <3>1, <3>2
  <2>5. CASE \/ status[p] \in {"approved", "applying", "apply-failed", "recovery-required"}
             \/ status[p] = "stale" /\ trail[p] = <<"approved">>
    <3>1. trail[p] = <<"approved">>
      BY <2>1, <2>5 DEF Tells
    <3>2. Len(trail[p]) = 1 /\ trail[p] # <<>>
      BY <3>1
    <3>. QED BY <2>5, <3>2
  <2>6. CASE status[p] \in {"applied", "stale"} /\ trail[p] = <<"approved", status[p]>>
    <3>1. Len(trail[p]) = 2 /\ trail[p][1] = "approved" /\ trail[p][2] = status[p] /\ trail[p] # <<>>
      BY <2>6
    <3>2. status[p] = "applied" => trail[p] = <<"approved", "applied">>
      BY <2>6
    <3>. QED BY <2>6, <3>1, <3>2
  <2>. QED BY <2>1, <2>2, <2>3, <2>4, <2>5, <2>6 DEF Terminal, Tells
<1>. QED BY <1>1, StoryInvariant, SingleEntry, PTL

\* Nothing of a proposal is in a note without its approval on record: what is
\* in a note is being applied, was applied or asks for recovery.
THEOREM ApprovalFirst == ASSUME SingleEntry PROVE Spec => []ApprovalPrecedesWrite
<1>1. NothingLeftBehind /\ TrailStory => ApprovalPrecedesWrite
  <2>. SUFFICES ASSUME NothingLeftBehind, TrailStory, NEW p \in Proposals, Landed(p) # {}
                PROVE  "approved" \in Range(trail[p])
    BY DEF ApprovalPrecedesWrite
  <2>1. status[p] \in {"applying", "applied", "recovery-required"}
    BY DEF NothingLeftBehind
  <2>2. trail[p] = <<"approved">> \/ trail[p] = <<"approved", "applied">>
    BY <2>1 DEF TrailStory, Tells
  <2>3. 1 \in DOMAIN trail[p] /\ trail[p][1] = "approved"
    BY <2>2
  <2>. QED BY <2>3 DEF Range
<1>2. Spec => []NothingLeftBehind
  BY NothingLeftBehindSafe, SingleEntry
<1>. QED BY <1>1, <1>2, StoryInvariant, SingleEntry, PTL
=============================================================================
