--------------------------- MODULE ReviewWorkflow ---------------------------
(***************************************************************************)
(* The review and apply workflow (src/review/workflow.ts) over the         *)
(* proposal and approval tables of the repository and the vault writer.    *)
(*                                                                         *)
(* The plugin runs on one JavaScript thread: the code between two awaits   *)
(* is one step.  Between the steps of a call the user may edit any note    *)
(* and other calls of the workflow may run.                                *)
(*                                                                         *)
(* Abstractions.  A note is the text the user typed and the set of         *)
(* operations spliced into it; its revision (a SHA-256 of path and         *)
(* content) is the content itself.  A proposal's patch_json is inserted    *)
(* once and parsed back through its digest, so the object a call works on  *)
(* is the persisted one and a digest is not a variable of its own.  The    *)
(* vault offers process(), as every Obsidian version the manifest allows   *)
(* does, so a conditional write is atomic.                                 *)
(*                                                                         *)
(* Definitions commented "Faulty:" are mistakes the code does not make;    *)
(* each breaks a property when it takes the place of the definition that   *)
(* follows it, which shows that the property depends on that code.         *)
(***************************************************************************)
EXTENDS Naturals, FiniteSets, Sequences, Functions

CONSTANTS
  Proposals,    \* ids of the proposals that may be saved
  Notes,        \* vault paths of Markdown notes
  Calls,        \* calls of the workflow; each id is used once
  Texts,        \* what a user may type into a note
  Operations,   \* the replace-range operations of all the proposals
  Finding,      \* Finding[p]: the finding that p repairs
  Scan,         \* Scan[p]: the scan of that finding
  Batches,      \* the sequences of proposals a caller passes as a batch
  EntryPoints,  \* what callers use: "batch", "act", "apply", "signal" to abort
  MaxBatch,     \* 20 in the code
  MaxEdits,     \* bound on the user's edits
  Unread        \* no content: a read that has not been answered

Content == [text : Texts, ops : SUBSET Operations]

ASSUME OperationsAssumption ==
  /\ Operations \subseteq [proposal : Proposals, path : Notes,
                           start : Nat, end : Nat, quoted : BOOLEAN]
  \* "quoted": the (non-empty) expected text of the operation is what its
  \* source revision holds from start to end.
  /\ \A o \in Operations : o.start <= o.end /\ (o.quoted => o.start < o.end)
  /\ Unread \notin Content

ASSUME ConstantsAssumption ==
  /\ Finding \in [Proposals -> Range(Finding)]
  /\ Scan \in [Proposals -> Range(Scan)]
  /\ \A b \in Batches : b \in Seq(Proposals)
  /\ EntryPoints \subseteq {"batch", "act", "apply", "signal"}
  /\ MaxBatch \in Nat
  /\ MaxEdits \in Nat

VARIABLES
  status,   \* proposals.status, "absent" before the row is inserted
  trail,    \* the approvals rows of each proposal, in order of insertion
  source,   \* the contents a proposal's operations were prepared from
  note,     \* the vault
  pc,       \* where each call is
  kind,     \* approveAndApplyBatch or apply
  batch,    \* the proposals the call works on
  got,      \* what the call's preflight has read
  done,     \* notes the call has written and not yet rolled back
  stuck,    \* a rollback write of the call has failed
  aborted,  \* the call's AbortSignal
  outcome,  \* what the call reported
  typed,    \* history: the text the user last left in each note
  reverted, \* history: operations the user has taken out of a note
  edits     \* number of edits so far

proposalVars == <<status, trail, source>>
callVars     == <<pc, kind, batch, got, done, stuck, aborted, outcome>>
userVars     == <<typed, reverted, edits>>
vars         == <<proposalVars, note, callVars, userVars>>

Terminal == {"dismissed", "deferred", "applied", "apply-failed", "stale",
             "recovery-required"}
Status   == Terminal \cup {"absent", "pending", "approved", "applying"}
Actions  == {"approved", "dismissed", "deferred", "applied", "stale"}
Outcome  == {"none", "invalid", "canceled", "stale", "write-failed",
             "recovery-required", "applied"}
Active   == {"reading", "writing", "rolling"}

-----------------------------------------------------------------------------
(* Operations and writes.                                                  *)

OpsOf(S)        == {o \in Operations : o.proposal \in S}
OpsAt(S, n)     == {o \in OpsOf(S) : o.path = n}
PathsOf(S)      == {o.path : o \in OpsOf(S)}
InVault(o)      == o \in note[o.path].ops
Landed(p)       == {o \in OpsOf({p}) : InVault(o)}
Splice(f, ops)  == [f EXCEPT !.ops = @ \cup ops]

\* Faulty: overlaps between the members of a batch go unnoticed.
OverlapsWithinOneProposal(ops) ==
  \E a, b \in ops :
    a # b /\ a.proposal = b.proposal /\ a.path = b.path /\ a.start <= b.start /\ b.start < a.end

\* Sorted by start, then end, some operation starts before its predecessor
\* on the same path has ended.
HasOverlappingOperations(ops) ==
  \E a, b \in ops :
    /\ a # b
    /\ a.path = b.path
    /\ a.start < b.start \/ (a.start = b.start /\ a.end <= b.end)
    /\ b.start < a.end

\* createWrites sorts by start alone; a quoted operation is not empty, so
\* either order of two operations with one start throws.
CreateWritesThrows(ops) ==
  \E a, b \in ops :
    /\ a # b
    /\ a.path = b.path
    /\ a.start <= b.start
    /\ b.start < a.end

\* Faulty: the revision of the file is not compared.
IsQuoted(o, file) == o.quoted

\* The sourceRevision and expected text of an operation against a file.
IsCurrent(o, file) == o.quoted /\ file = source[o.proposal][o.path]

\* Faulty: the file is written whatever it holds by now.
WriteAnyway(n, before, after) == note' = [note EXCEPT ![n] = after]

\* vault.process: the write happens only on the content it was computed from.
WriteIfCurrent(n, before, after) ==
  /\ note[n] = before
  /\ note' = [note EXCEPT ![n] = after]

UpdateStatus(S, s) ==
  status' = [p \in Proposals |-> IF p \in S THEN s ELSE status[p]]

RecordApproval(S, a) ==
  trail' = [p \in Proposals |-> IF p \in S THEN Append(trail[p], a) ELSE trail[p]]

Return(c, result) ==
  /\ pc' = [pc EXCEPT ![c] = "done"]
  /\ outcome' = [outcome EXCEPT ![c] = result]

-----------------------------------------------------------------------------
Init ==
  /\ status = [p \in Proposals |-> "absent"]
  /\ trail = [p \in Proposals |-> <<>>]
  /\ note \in [Notes -> {[text |-> t, ops |-> {}] : t \in Texts}]
  /\ source = [p \in Proposals |-> note]
  /\ pc = [c \in Calls |-> "idle"]
  /\ kind = [c \in Calls |-> "batch"]
  /\ batch = [c \in Calls |-> {}]
  /\ got = [c \in Calls |-> [n \in Notes |-> Unread]]
  /\ done = [c \in Calls |-> {}]
  /\ stuck = [c \in Calls |-> FALSE]
  /\ aborted = [c \in Calls |-> FALSE]
  /\ outcome = [c \in Calls |-> "none"]
  /\ typed = [n \in Notes |-> note[n].text]
  /\ reverted = {}
  /\ edits = 0

\* A repair is prepared from the notes as they are and its proposal row
\* inserted; a proposal id is inserted at most once and its operations do
\* not overlap (parseProposal).
SaveProposal(p) ==
  /\ status[p] = "absent"
  /\ OpsOf({p}) # {}
  /\ ~HasOverlappingOperations(OpsOf({p}))
  /\ UpdateStatus({p}, "pending")
  /\ source' = [source EXCEPT ![p] = note]
  /\ UNCHANGED <<trail, note, callVars, userVars>>

\* Faulty: a deferred proposal may be taken up again.
ActOnDeferred(p, action) ==
  /\ "act" \in EntryPoints
  /\ status[p] \in {"pending", "deferred"}
  /\ UpdateStatus({p}, action)
  /\ RecordApproval({p}, action)
  /\ UNCHANGED <<source, note, callVars, userVars>>

\* Review of a single pending proposal.
Act(p, action) ==
  /\ "act" \in EntryPoints
  /\ status[p] = "pending"
  /\ UpdateStatus({p}, action)
  /\ RecordApproval({p}, action)
  /\ UNCHANGED <<source, note, callVars, userVars>>

\* Faulty: a batch is approved whatever became of its members.
ValidWhateverStatus(b) ==
  /\ Len(b) \in 1..MaxBatch
  /\ IsInjective(b)
  /\ \A i, j \in DOMAIN b : i # j => Finding[b[i]] # Finding[b[j]]
  /\ \A i, j \in DOMAIN b : Scan[b[i]] = Scan[b[j]]
  /\ ~HasOverlappingOperations(OpsOf(Range(b)))

\* The checks of approveAndApplyBatch before anything is approved.
ValidBatch(b) ==
  /\ Len(b) \in 1..MaxBatch
  /\ IsInjective(b)
  /\ \A i, j \in DOMAIN b : i # j => Finding[b[i]] # Finding[b[j]]
  /\ \A i, j \in DOMAIN b : Scan[b[i]] = Scan[b[j]]
  /\ ~HasOverlappingOperations(OpsOf(Range(b)))
  /\ \A i \in DOMAIN b : status[b[i]] = "pending"

RefuseBatch(c, b) ==
  /\ "batch" \in EntryPoints
  /\ pc[c] = "idle"
  /\ ~ValidBatch(b) \/ aborted[c]
  /\ Return(c, IF ValidBatch(b) THEN "canceled" ELSE "invalid")
  /\ UNCHANGED <<proposalVars, note, kind, batch, got, done, stuck, aborted,
                 userVars>>

\* Every member is approved, with its approval row, before the first read.
StartBatch(c, b) ==
  /\ "batch" \in EntryPoints
  /\ pc[c] = "idle"
  /\ ValidBatch(b)
  /\ ~aborted[c]
  /\ UpdateStatus(Range(b), "approved")
  /\ RecordApproval(Range(b), "approved")
  /\ batch' = [batch EXCEPT ![c] = Range(b)]
  /\ kind' = [kind EXCEPT ![c] = "batch"]
  /\ pc' = [pc EXCEPT ![c] = "reading"]
  /\ UNCHANGED <<source, note, got, done, stuck, aborted, outcome, userVars>>

RefuseApply(c, p) ==
  /\ "apply" \in EntryPoints
  /\ pc[c] = "idle"
  /\ status[p] = "approved"
  /\ aborted[c]
  /\ Return(c, "canceled")
  /\ UNCHANGED <<proposalVars, note, kind, batch, got, done, stuck, aborted,
                 userVars>>

\* Faulty: the proposal is not marked before the first await.
StartApplyUnmarked(c, p) ==
  /\ "apply" \in EntryPoints
  /\ pc[c] = "idle"
  /\ status[p] = "approved"
  /\ ~aborted[c]
  /\ batch' = [batch EXCEPT ![c] = {p}]
  /\ kind' = [kind EXCEPT ![c] = "apply"]
  /\ pc' = [pc EXCEPT ![c] = "reading"]
  /\ UNCHANGED <<proposalVars, note, got, done, stuck, aborted, outcome, userVars>>

\* Faulty: a pending proposal may be applied.
StartApplyUnapproved(c, p) ==
  /\ "apply" \in EntryPoints
  /\ pc[c] = "idle"
  /\ status[p] \in {"pending", "approved"}
  /\ ~aborted[c]
  /\ UpdateStatus({p}, "applying")
  /\ batch' = [batch EXCEPT ![c] = {p}]
  /\ kind' = [kind EXCEPT ![c] = "apply"]
  /\ pc' = [pc EXCEPT ![c] = "reading"]
  /\ UNCHANGED <<trail, source, note, got, done, stuck, aborted, outcome, userVars>>

StartApply(c, p) ==
  /\ "apply" \in EntryPoints
  /\ pc[c] = "idle"
  /\ status[p] = "approved"
  /\ ~aborted[c]
  /\ UpdateStatus({p}, "applying")
  /\ batch' = [batch EXCEPT ![c] = {p}]
  /\ kind' = [kind EXCEPT ![c] = "apply"]
  /\ pc' = [pc EXCEPT ![c] = "reading"]
  /\ UNCHANGED <<trail, source, note, got, done, stuck, aborted, outcome,
                 userVars>>

\* The reads of the preflight are concurrent: answered one by one, in any
\* order.
Read(c, n) ==
  /\ pc[c] = "reading"
  /\ n \in PathsOf(batch[c])
  /\ got[c][n] = Unread
  /\ got' = [got EXCEPT ![c][n] = note[n]]
  /\ UNCHANGED <<proposalVars, note, pc, kind, batch, done, stuck, aborted,
                 outcome, userVars>>

\* One rejected read rejects Promise.all.
ReadFails(c) ==
  /\ pc[c] = "reading"
  /\ \E n \in PathsOf(batch[c]) : got[c][n] = Unread
  /\ UpdateStatus(batch[c], "apply-failed")
  /\ Return(c, "write-failed")
  /\ UNCHANGED <<trail, source, note, kind, batch, got, done, stuck, aborted,
                 userVars>>

AllRead(c) == \A n \in PathsOf(batch[c]) : got[c][n] # Unread
AllCurrent(c) == \A o \in OpsOf(batch[c]) : IsCurrent(o, got[c][o.path])

\* The whole batch is stale as soon as one operation is.
PreflightStale(c) ==
  /\ pc[c] = "reading"
  /\ AllRead(c)
  /\ ~AllCurrent(c)
  /\ UpdateStatus(batch[c], "stale")
  /\ RecordApproval(batch[c], "stale")
  /\ Return(c, "stale")
  /\ UNCHANGED <<source, note, kind, batch, got, done, stuck, aborted, userVars>>

PreflightCanceled(c) ==
  /\ pc[c] = "reading"
  /\ AllRead(c)
  /\ AllCurrent(c)
  /\ aborted[c]
  /\ UpdateStatus(batch[c], "approved")
  /\ Return(c, "canceled")
  /\ UNCHANGED <<trail, source, note, kind, batch, got, done, stuck, aborted,
                 userVars>>

\* createWrites, then the write loop.  If createWrites throws a batch is
\* marked stale and a single proposal apply-failed.
PreflightPasses(c) ==
  /\ pc[c] = "reading"
  /\ AllRead(c)
  /\ AllCurrent(c)
  /\ ~aborted[c]
  /\ IF CreateWritesThrows(OpsOf(batch[c]))
     THEN IF kind[c] = "batch"
          THEN UpdateStatus(batch[c], "stale") /\ Return(c, "invalid")
          ELSE UpdateStatus(batch[c], "apply-failed") /\ Return(c, "write-failed")
     ELSE /\ UpdateStatus(batch[c], "applying")
          /\ pc' = [pc EXCEPT ![c] = "writing"]
          /\ UNCHANGED outcome
  /\ UNCHANGED <<trail, source, note, kind, batch, got, done, stuck, aborted,
                 userVars>>

\* A path is written once, so the order of the writes is left open.
Write(c, n) ==
  /\ pc[c] = "writing"
  /\ n \in PathsOf(batch[c]) \ done[c]
  /\ WriteIfCurrent(n, got[c][n], Splice(got[c][n], OpsAt(batch[c], n)))
  /\ done' = [done EXCEPT ![c] = @ \cup {n}]
  /\ UNCHANGED <<proposalVars, pc, kind, batch, got, stuck, aborted, outcome,
                 userVars>>

\* The note has changed, is gone, or the vault throws.
WriteFails(c) ==
  /\ pc[c] = "writing"
  /\ PathsOf(batch[c]) \ done[c] # {}
  /\ pc' = [pc EXCEPT ![c] = "rolling"]
  /\ UNCHANGED <<proposalVars, note, kind, batch, got, done, stuck, aborted,
                 outcome, userVars>>

\* Faulty: applied as soon as the first write has resolved.
FinishAppliedEarly(c) ==
  /\ pc[c] = "writing"
  /\ done[c] # {}
  /\ UpdateStatus(batch[c], "applied")
  /\ RecordApproval(batch[c], "applied")
  /\ pc' = [pc EXCEPT ![c] = IF kind[c] = "batch" THEN "reindexing" ELSE "done"]
  /\ outcome' = [outcome EXCEPT ![c] = "applied"]
  /\ UNCHANGED <<source, note, kind, batch, got, done, stuck, aborted, userVars>>

\* Faulty: the result of a single proposal is not recorded.
FinishAppliedUnrecorded(c) ==
  /\ pc[c] = "writing"
  /\ PathsOf(batch[c]) \subseteq done[c]
  /\ UpdateStatus(batch[c], "applied")
  /\ pc' = [pc EXCEPT ![c] = IF kind[c] = "batch" THEN "reindexing" ELSE "done"]
  /\ outcome' = [outcome EXCEPT ![c] = "applied"]
  /\ UNCHANGED <<trail, source, note, kind, batch, got, done, stuck, aborted, userVars>>

\* All writes resolved: the batch is applied, then the vault re-indexed.
FinishApplied(c) ==
  /\ pc[c] = "writing"
  /\ PathsOf(batch[c]) \subseteq done[c]
  /\ UpdateStatus(batch[c], "applied")
  /\ RecordApproval(batch[c], "applied")
  /\ pc' = [pc EXCEPT ![c] = IF kind[c] = "batch" THEN "reindexing" ELSE "done"]
  /\ outcome' = [outcome EXCEPT ![c] = "applied"]
  /\ UNCHANGED <<source, note, kind, batch, got, done, stuck, aborted, userVars>>

\* The awaited re-index ends; a failure of it does not fail the batch.
Reindexed(c) ==
  /\ pc[c] = "reindexing"
  /\ pc' = [pc EXCEPT ![c] = "done"]
  /\ UNCHANGED <<proposalVars, note, kind, batch, got, done, stuck, aborted,
                 outcome, userVars>>

\* Faulty: the preflight content is put back over what others wrote since.
RollbackBlindly(c, n) ==
  /\ pc[c] = "rolling"
  /\ n \in done[c]
  /\ note' = [note EXCEPT ![n] = got[c][n]]
  /\ done' = [done EXCEPT ![c] = @ \ {n}]
  /\ UNCHANGED <<proposalVars, pc, kind, batch, got, stuck, aborted, outcome, userVars>>

\* rollbackWrites puts back the preflight content of each written note, if
\* the note still holds what was written.
Rollback(c, n) ==
  /\ pc[c] = "rolling"
  /\ n \in done[c]
  /\ WriteIfCurrent(n, Splice(got[c][n], OpsAt(batch[c], n)), got[c][n])
  /\ done' = [done EXCEPT ![c] = @ \ {n}]
  /\ UNCHANGED <<proposalVars, pc, kind, batch, got, stuck, aborted, outcome,
                 userVars>>

RollbackFails(c, n) ==
  /\ pc[c] = "rolling"
  /\ n \in done[c]
  /\ done' = [done EXCEPT ![c] = @ \ {n}]
  /\ stuck' = [stuck EXCEPT ![c] = TRUE]
  /\ UNCHANGED <<proposalVars, note, pc, kind, batch, got, aborted, outcome,
                 userVars>>

\* Faulty: a failed rollback is not told from a complete one.
FinishRollbackAlike(c) ==
  /\ pc[c] = "rolling"
  /\ done[c] = {}
  /\ UpdateStatus(batch[c], "apply-failed")
  /\ Return(c, "write-failed")
  /\ UNCHANGED <<trail, source, note, kind, batch, got, done, stuck, aborted, userVars>>

\* Faulty: the batch reports a failed rollback the way apply does.
FinishRollbackUntold(c) ==
  /\ pc[c] = "rolling"
  /\ done[c] = {}
  /\ UpdateStatus(batch[c], IF stuck[c] THEN "recovery-required" ELSE "apply-failed")
  /\ Return(c, "write-failed")
  /\ UNCHANGED <<trail, source, note, kind, batch, got, done, stuck, aborted, userVars>>

\* Faulty: a failed rollback is never reported.
FinishRollbackComplete(c) ==
  /\ pc[c] = "rolling"
  /\ done[c] = {}
  /\ ~stuck[c]
  /\ UpdateStatus(batch[c], "apply-failed")
  /\ Return(c, "write-failed")
  /\ UNCHANGED <<trail, source, note, kind, batch, got, done, stuck, aborted, userVars>>

\* apply reports write-failed either way, a batch tells them apart.
FinishRollback(c) ==
  /\ pc[c] = "rolling"
  /\ done[c] = {}
  /\ UpdateStatus(batch[c], IF stuck[c] THEN "recovery-required" ELSE "apply-failed")
  /\ Return(c, IF stuck[c] /\ kind[c] = "batch" THEN "recovery-required"
               ELSE "write-failed")
  /\ UNCHANGED <<trail, source, note, kind, batch, got, done, stuck, aborted,
                 userVars>>

\* The signal is looked at on entry and after the preflight.
Abort(c) ==
  /\ "signal" \in EntryPoints
  /\ pc[c] \in {"idle", "reading"}
  /\ ~aborted[c]
  /\ aborted' = [aborted EXCEPT ![c] = TRUE]
  /\ UNCHANGED <<proposalVars, note, pc, kind, batch, got, done, stuck, outcome,
                 userVars>>

\* The user types into a note, keeping or taking out what was spliced in.
UserEdit(n, t, kept) ==
  /\ edits < MaxEdits
  /\ kept \subseteq note[n].ops
  /\ note' = [note EXCEPT ![n] = [text |-> t, ops |-> kept]]
  /\ note' # note
  /\ typed' = [typed EXCEPT ![n] = t]
  /\ reverted' = reverted \cup (note[n].ops \ kept)
  /\ edits' = edits + 1
  /\ UNCHANGED <<proposalVars, callVars>>

-----------------------------------------------------------------------------
CallStep(c) ==
  \/ ReadFails(c) \/ PreflightStale(c) \/ PreflightCanceled(c) \/ PreflightPasses(c)
  \/ WriteFails(c) \/ FinishApplied(c) \/ Reindexed(c) \/ FinishRollback(c)
  \/ \E n \in Notes :
       Read(c, n) \/ Write(c, n) \/ Rollback(c, n) \/ RollbackFails(c, n)

Next ==
  \/ \E p \in Proposals : SaveProposal(p)
  \/ \E p \in Proposals, a \in {"approved", "dismissed", "deferred"} : Act(p, a)
  \/ \E c \in Calls, b \in Batches : RefuseBatch(c, b) \/ StartBatch(c, b)
  \/ \E c \in Calls, p \in Proposals : RefuseApply(c, p) \/ StartApply(c, p)
  \/ \E c \in Calls : CallStep(c) \/ Abort(c)
  \/ \E n \in Notes, t \in Texts : \E kept \in SUBSET note[n].ops : UserEdit(n, t, kept)

Spec == Init /\ [][Next]_vars

\* A started call runs on: its promises settle and the event loop takes
\* their continuations.  Nothing obliges the user or the callers to act.
Fairness == \A c \in Calls : WF_vars(CallStep(c))
FairSpec == Spec /\ Fairness

-----------------------------------------------------------------------------
(* Properties.                                                             *)

\* Every variable stays in its domain.
TypeOK ==
  /\ status \in [Proposals -> Status]
  /\ trail \in [Proposals -> Seq(Actions)]
  /\ source \in [Proposals -> [Notes -> Content]]
  /\ note \in [Notes -> Content]
  /\ pc \in [Calls -> Active \cup {"idle", "reindexing", "done"}]
  /\ kind \in [Calls -> {"batch", "apply"}]
  /\ batch \in [Calls -> SUBSET Proposals]
  /\ got \in [Calls -> [Notes -> Content \cup {Unread}]]
  /\ done \in [Calls -> SUBSET Notes]
  /\ stuck \in [Calls -> BOOLEAN]
  /\ aborted \in [Calls -> BOOLEAN]
  /\ outcome \in [Calls -> Outcome]
  /\ typed \in [Notes -> Texts]
  /\ reverted \subseteq Operations
  /\ edits \in Nat

\* A proposal is worked on by at most one call at a time: the status check
\* and the status update of an entry point are not separated by an await.
OneOwner ==
  \A c, d \in Calls :
    c # d /\ pc[c] \in Active /\ pc[d] \in Active => batch[c] \cap batch[d] = {}

\* No operation of a proposal is in any note unless the proposal is being
\* applied, was applied, or asks for recovery: a pending, refused, canceled,
\* stale or failed proposal has left nothing behind, whatever the user and
\* the other calls did meanwhile.
NothingLeftBehind ==
  \A p \in Proposals :
    Landed(p) # {} => status[p] \in {"applying", "applied", "recovery-required"}

\* An applied proposal is in the notes whole, except for what the user took
\* out: no other call, and no rollback of another call, has dropped it.
AppliedIsWhole ==
  \A p \in Proposals :
    status[p] = "applied" =>
      \A o \in OpsOf({p}) : InVault(o) \/ o \in reverted

\* What the user typed last is what the note holds: neither a write nor a
\* rollback puts an older text back.
UserTextKept == \A n \in Notes : note[n].text = typed[n]

\* Nothing of a proposal reaches a note without its approval on record.
ApprovalPrecedesWrite ==
  \A p \in Proposals : Landed(p) # {} => "approved" \in Range(trail[p])

\* The workflow keeps the ledger: whatever is read, written, rolled back,
\* edited and aborted in between, a proposal is decided once and is in one
\* call's hands at a time, and the proposals of a call end together, as it
\* reports (approveAndApplyBatch and apply).  apply alone tells a failed
\* rollback from a complete one in the status only.
Held(c) == IF pc[c] \in Active THEN batch[c] ELSE {}

LedgerState == [p \in Proposals |-> IF \E c \in Calls : p \in Held(c) THEN "taken" ELSE status[p]]
Holding     == [c \in Calls |-> Held(c)]
Results     == {<<"applied", "applied">>, <<"stale", "stale">>, <<"canceled", "approved">>,
                <<"write-failed", "apply-failed">>, <<"recovery-required", "recovery-required">>}
               \cup {r \in {<<"write-failed", "recovery-required">>} : "apply" \in EntryPoints}

Ledger == INSTANCE ProposalLedger WITH state <- LedgerState, held <- Holding, report <- outcome

KeepsLedger == Ledger!Spec

\* The approvals of a proposal tell its story: one decision, then at most one
\* result, and the result agrees with the status.
TrailMatchesStatus ==
  \A p \in Proposals :
    LET t == trail[p] IN
    /\ Len(t) <= 2
    /\ t = <<>> <=> status[p] \in {"absent", "pending"}
    /\ Len(t) = 2 => t[1] = "approved" /\ t[2] = status[p]
    /\ status[p] \in {"dismissed", "deferred"} => t = <<status[p]>>
    /\ status[p] = "applied" => t = <<"approved", "applied">>

\* A decided proposal is decided for good: a dismissed, deferred, stale,
\* failed or applied proposal needs a new proposal and a new approval.
DecidedForGood ==
  [][\A p \in Proposals : status[p] \in Terminal => status'[p] = status[p]]_vars

\* A call that has passed the overlap check never meets an overlap again when
\* it splices: createWrites does not throw.
SpliceNeverThrows ==
  \A c \in Calls :
    pc[c] = "reading" /\ AllRead(c) /\ AllCurrent(c) =>
      ~CreateWritesThrows(OpsOf(batch[c]))

\* Every started call comes to an end, and its proposals with it: none stays
\* in "applying".
CallsEnd ==
  \A c \in Calls : pc[c] \in Active \cup {"reindexing"} ~> pc[c] = "done"

-----------------------------------------------------------------------------
(* The inductive invariant from which the safety properties follow.        *)

\* Proposals a call works on keep the status the call gave them.
BatchStatus ==
  \A c \in Calls : \A p \in batch[c] :
    /\ pc[c] = "reading" =>
         status[p] = IF kind[c] = "batch" THEN "approved" ELSE "applying"
    /\ pc[c] \in {"writing", "rolling"} => status[p] = "applying"

\* What a call has in hand at each of its stages.
CallShape ==
  \A c \in Calls :
    /\ pc[c] = "idle" => batch[c] = {} /\ \A n \in Notes : got[c][n] = Unread
    /\ pc[c] \in {"idle", "reading"} => done[c] = {}
    /\ pc[c] \in {"idle", "reading", "writing"} => ~stuck[c]
    /\ pc[c] \in {"writing", "rolling"} => AllRead(c)
    /\ pc[c] \in Active => kind[c] \in EntryPoints /\ done[c] \subseteq PathsOf(batch[c])

\* The preflight of a call has seen none of its own operations.
PreflightClean ==
  \A c \in Calls : \A o \in OpsOf(batch[c]) :
    pc[c] \in Active /\ got[c][o.path] # Unread => o \notin got[c][o.path].ops

\* An operation in a note is accounted for: its proposal is applied or asks
\* for recovery, or a running call will still take it back.
AccountedFor(o) ==
  \/ status[o.proposal] \in {"applied", "recovery-required"}
  \/ \E c \in Calls :
       /\ pc[c] \in {"writing", "rolling"}
       /\ o.proposal \in batch[c]
       /\ o.path \in done[c] \/ stuck[c]

Accounted == \A o \in Operations : InVault(o) => AccountedFor(o)

\* The notes a call has written hold its operations.
WrittenIsThere ==
  \A c \in Calls : \A o \in OpsOf(batch[c]) :
    pc[c] = "writing" /\ o.path \in done[c] => InVault(o) \/ o \in reverted

\* Neither a saved proposal nor a running batch overlaps itself.
NoOverlap ==
  /\ \A p \in Proposals :
       status[p] # "absent" => ~HasOverlappingOperations(OpsOf({p}))
  /\ \A c \in Calls :
       pc[c] \in Active => ~HasOverlappingOperations(OpsOf(batch[c]))

\* The plugin's interface offers one way to write: the prepared batch.
SingleEntry == ~({"batch", "apply"} \subseteq EntryPoints)

WorkflowInv ==
  /\ TypeOK
  /\ OneOwner
  /\ BatchStatus
  /\ CallShape
  /\ PreflightClean
  /\ Accounted
  /\ WrittenIsThere
  /\ AppliedIsWhole
  /\ NoOverlap
  /\ UserTextKept
=============================================================================
