# Vault Steward in TLA+

Vault Steward is an Obsidian plugin. It scans the notes of a vault, reports
defects (broken references, stale decisions, duplicate entities), prepares
repairs, and applies the repairs the user approves. This directory holds TLA+
models of the parts of it that several actors share: the plugin's promises, the
user who types in the same notes, the timer, the database file, and a process
that may stop at any moment. TLC checks the models on small instances and TLAPS
proves the properties that matter most for all instances.

Paths below are those of the repository: `src/...` is the implementation,
`docs/...` and `tests/...` its documents and tests.

Contents: 1 inventory, 2 modules, 3 runs and bounds, 4 proofs, 5 disagreements
between code and documents, 6 what is not modelled, 7 plan.

## 1 Inventory

The plugin is one JavaScript process on one thread. The code between two
`await`s runs alone; at each `await` any other call, timer, vault event or edit
may come in between. This is the grain of every model here.

| component | state | operations | interacts with |
|---|---|---|---|
| review workflow, `review/workflow.ts` | proposal statuses and approval rows (tables); per call: what it read, what it wrote | `act`, `apply`, `approveAndApplyBatch`, `recoverInterruptedApplies` | repository, vault writer; awaits reads, writes, rollback writes and the re-index |
| vault writer, `vault-adapter/obsidian-reader.ts` | none | `read`, `write`, `writeIfCurrent` over `vault.process` | the notes, which the user edits too |
| plugin database, `plugin/database.ts`, `storage/` | SQLite image in memory, image in a file | open, `flush`, `close`, `saveCompletedScan`, `loadFindings` | everything; the file is written only by `flush` |
| scan snapshots and findings store, `storage/repositories.ts` | scans, inputs, findings, lineage, traces, feedback | `createSnapshot`, `transition`, queries of findings, lifecycle and observability, retention | `saveCompletedScan`, views |
| plugin, `main.ts` | `parsedNotes`, `activeSnapshot`, `recentRenames`, `activeScan`, `maintenanceState`, settings | `onload`, `onunload`, `scanVault`, `prepareRecommendedRepairBatch`, `applyPreparedRepairBatch`, settings | composes all components |
| maintenance scheduler, `maintenance/scheduler.ts` | last run, pending event, budget window | `decideMaintenanceRun`, `nextScheduleState` | timer of the plugin, vault events, settings, `scanVault` |
| vault reader, `vault-adapter/obsidian-reader.ts` | queue of vault events | `listFiles`, `watchInvalidations`, `consumeInvalidatedEvents` | notes, `scanVault` |
| governed scan, checks and agents, `core/`, `agents/`, `model-provider/`, `tasks/`, `decisions/`, `schema/`, `policy/evaluate.ts`, `findings/` | cache of agent results | checks of a snapshot; four routes of agents, two attempts per provider | `scanVault`, settings (which clear the cache), clock |
| references, `reference/`, `indexing/impact.ts`, `maintenance/change-aware.ts`, `review/propose.ts`, `review/reference-recommendation.ts`, `review/entity-consolidation.ts` | none | snapshot, events and previous snapshot to findings; finding and note to operations | `scanVault`, preparation |
| repair preparation, `review/prepare-*.ts`, `review/task-decision-*.ts`, `contracts/prepared-repair.ts` | none of its own | three families of repairs, combined to one batch; selection and conflicts | model provider, notes, proposals table, scans that complete meanwhile |
| workspace, `ui/VaultStewardWorkspace.tsx` | mode, findings, prepared batch, selection, dismissals | the buttons and the awaits of their handlers | calls of the plugin, overlapping |
| settings, policy files, portability, diagnostics, packaging, evaluation | files, values | parsing, formatting, reports | |

Hard behaviours, and what makes each component correct:

* **Review workflow.** A batch is several conditional writes with reads before
  and a rollback behind, all of them awaited, over notes the user edits and
  other calls write. It must be atomic as far as the notes allow, must tell the
  truth when it could not be, must never lose what the user typed, must write
  nothing that was not approved, and must come to an end.
* **Database file.** The tables change in memory; the file follows with whole
  images, later. A crash or a reload leaves notes and file apart. The next
  instance must not repair what is already repaired, and the file must not
  claim what did not happen.
* **Scheduler.** Interval, debounce, hourly budget, pause and running scans
  delay each other. Events must be served in time and the budget must hold.
* **Findings store.** A save is many statements, of which only the first are a
  transaction; the machine's clock, which may be set back, orders scans, and
  views read that order in two ways. A view must not show a scan that is not
  whole, and retention must delete what it promised to and nothing else.
* **Agents.** Requests fail, come late or answer anything; meanwhile the user
  edits, saves other settings, and days go by. What a scan says must be about
  what it read, by the model it was to ask, with its limitations told, and the
  deterministic checks must not depend on any of it.
* **References.** One piece of code reads links, another writes them, a third
  looks for what a rename touched; vault events are taken by one scan and gone
  with it. A written repair must reach its target, and a rename taken for
  verified must be the note that moved.
* **Workspace.** Preparation takes several awaits per finding, persists as it
  goes, and may see another scan complete between two families. What the user
  confirms must be what is written, and no busy mode may last for ever.
* **Scans.** Events are taken first and notes read later, one by one, while the
  vault changes. No change may be lost between the two, a failed scan must not
  stop the index from catching up, and a repair that says it was re-indexed
  must have been.

PROJECT.json lists the hazards one by one with the line where each bites.

## 2 Modules

| module | models | composes |
|---|---|---|
| `ReviewWorkflow` | review workflow, vault writer, proposals and approvals tables, user edits | `ProposalLedger` (which it implements) |
| `ReviewWorkflowProofs` | | theorems about `ReviewWorkflow`: its invariants, the refinement, the audit trail |
| `ProposalLedger` | the abstract promise of the review workflow | |
| `RepairPersistence` | database file, flushes, crash, unload and load, preparation and request of batches | `ReviewWorkflow` |
| `RepairPersistenceProofs` | | theorems about `RepairPersistence` |
| `MaintenanceScheduler` | scheduler, timer, settings | |
| `MaintenanceSchedulerProofs` | | theorems about `MaintenanceScheduler` |
| `ScanLifecycle` | scan, vault reader, event queue, index, re-index of a repair | |
| `ScanLifecycleProofs` | | theorems about `ScanLifecycle` |
| `FindingStore` | scans, findings, lineage and traces in the database, their views, retention | |
| `FindingStoreProofs` | | theorems about `FindingStore` |
| `GovernedScan` | deterministic checks, agents, cache, providers, settings | |
| `GovernedScanProofs` | | theorems about `GovernedScan` |
| `References` | resolution, integrity, impact, repair targets, link rewriting, consolidation, over a vault that changes between and during scans | |
| `ReferencesProofs` | | theorems about `References` |
| `RepairFamilies` | operators: findings with repairs, candidates, requests, operations, combination, selection, conflicts | |
| `Workspace` | the view, preparation and application of repairs, scans that complete meanwhile | `RepairFamilies` |
| `WorkspaceProofs` | | theorems about `Workspace` and what it takes from `RepairFamilies` |
| `MCReviewWorkflow`, `MCRepairPersistence`, `MCFindingStore`, `MCGovernedScan`, `MCReferences`, `MCWorkspace` | instances for TLC | |

The modules meet where one's action is another's call: `Workspace.ApplyBatch` is
what `ReviewWorkflow` does step by step (its outcomes and nothing else),
`Workspace.CompleteScan` and `References.CompleteScan` are the end of
`ScanLifecycle`'s scan, whose save is `FindingStore`'s and whose findings are
`GovernedScan`'s.

In each module some definitions are marked `Faulty:`. They are mistakes the code
does not make, written beside the definition they would stand for. No run uses
them as they are; PROJECT.json names for every property one that breaks it, so
that a property which holds is known to depend on the code.

### ReviewWorkflow

*State.* `status` and `trail` are the columns `proposals.status` and the rows of
`approvals`. `note` is the vault: the text the user typed and the set of
operations spliced into it, so that two contents are equal exactly when typed
text and splices are, which is all a SHA-256 revision tells. `source` is the
content a proposal was prepared from (`sourceRevision`). `pc`, `kind`, `batch`,
`got`, `done`, `stuck`, `aborted` and `outcome` are the locals of a call across
its awaits. `typed` and `reverted` are history.

*Actions.* One per stretch between two awaits. `StartBatch` is everything
`approveAndApplyBatch` does up to its first read, `Read` one answered read of
the `Promise.all`, `PreflightStale`, `PreflightCanceled` and `PreflightPasses`
what follows the last answer, `Write` one `vault.process`, `WriteFails` its
refusal (another content, a missing note, an exception), `Rollback` and
`RollbackFails` one step of `rollbackWrites`, `FinishApplied` and
`FinishRollback` the statuses and the result. `apply` shares these actions: it
differs from the batch in its start, in the statuses it passes through, and in
reporting `write-failed` for either outcome of a rollback.

*Left out.* Digests: a proposal is parsed back from the row its digest is
stored in. The texts: `quoted` says whether an operation's expected text is
what its source holds at its range. A write the vault carries out and then
reports as failed cannot be told from a failed one by this code; the vault is
taken not to do that.

### RepairPersistence

`Image` is what `exportDatabase` returns, `writes` the images handed to the
adapter, `disk` the file. `Prepare` inserts a proposal's row (flushed by
`FlushOther`), `Request` is `applyPreparedRepairBatch` up to its first await, `Proceed` a
step of the call, `FlushResult` the flush behind it. `Crash` drops everything
that is not in the notes or in the file. `Unload` hands over a last image
without waiting; `Load` reads the file and writes it back, as
`openPluginDatabase` does. A call that was running at the unload goes on in the
vault (`OrphanWrites`, `OrphanPasses`, `OrphanEnds`), and what it does to its
own tables reaches no file any more.

*Assumptions about the adapter.* It writes images one after the other in the
order they came, reads may overtake writes, and a crash leaves the old file or
the new one, not a part.

### MaintenanceScheduler

Time counts in minutes, the period of the timer. `Tick` is `runMaintenanceTick`
with `decideMaintenanceRun` (`Eligible`) and `nextScheduleState` (`StartRun`);
`VaultEvent`, `SaveSettings`, `OtherScan` and `ScanEnds` come at any moment of a
minute. `runs` and `ableSince` are history.

### ScanLifecycle

A note is an Obsidian file handle with a path and a version. `Begin` is
`scanVault` up to the first read: the events are taken and the handles listed
in one step. `NextHandle` and `ReadNote` are the loop of `listFiles`, in any
order of the handles; the path is looked up when a handle's turn comes and the
content when the read is answered. `Listed` stands for the parsing and the
checks, `Save` for the replacement of the index and `saveCompletedScan`,
`Flushed` for the end. `Fail`, `SaveFails` and `ListingFails` are the ways out.
`Reindex` is the re-index of an applied repair, which is refused while a scan is
running.

### ProposalLedger

The abstract specification: `Save`, `Decide`, `Take`, `Settle` and `Refuse` over
proposals, the calls that hold them and what the calls report, without notes,
reads, writes or rollbacks. `ReviewWorkflow!Ledger` instantiates it with the
mapping `LedgerState` (a member of a call that is under way is `taken`, any
other proposal has its stored status), `Holding` (`batch` while the call is
active) and `outcome`. `Results` lists how a call may end. `apply` reports
`write-failed` also for a rollback that failed, so that this pair is a result
only where `apply` is an entry point.

### FindingStore

*State.* `scans` is the table of scans with status and times, `rows` all other
tables as triples `<<table, scan, item>>`, `pending` the time the running scan
started, `now` the machine's clock, `days` the retention period. `found` and
`pruned` are history: what a completed scan had found, and what the last pruning
saw.

*Actions.* `SaveCompletedScan` with its statements in order (`SaveStages`),
normalization (one finding of a place is kept, untraceable ones dropped), and
the pruning behind it; `SaveThrows` after any prefix of the statements, with the
status `failed`; `PruneThrows`, a failure behind a save that is complete;
`OpenPluginDatabase`, the two deletions of traces, the retention setting,
feedback, and a clock that may be set back. `LatestCompleted`, `Lifecycle`,
`Resolved` and `GetObservabilitySnapshot` are the queries.

`deleteTraceForScan` and the pruning keep the rows of `model_traces`, as the
code does. *Left out:* the contents of rows; the inputs and notes of a scan are
one item.

### GovernedScan

*State.* `scan` is the scan under way with the snapshot, day and provider it has
captured, the routes it has left and what it has collected; `cache` is
`agentResultCache`, which outlives scans; `settings` the provider and the
acknowledged clouds; `answered` is history.

*Actions.* `StartScan` (refused without consent or a valid policy), `Reuse` and
`Ask` for the next route, `Reply` with any response a provider may give
(answers in either field and form, lateness, errors, redirects, excess, no
JSON), of which `AnswerValid` ends the route and `AnswerFails` leads to the next
attempt, the next provider, or a limitation; `Finish`; `SaveSettings`, which
replaces an invalid provider and clears the cache; `EditVault` and `NextDay`.
`RunGovernedScan` composes the result: tasks, decisions, templates, policies
(`DeterministicFindings`) and the candidates of three routes. The entity
agent's candidates never become findings: they carry no explanation.

*Left out.* Wording, ranking and hashes; a second response under way: requests
of one scan are made one after the other. The findings on references are
those of `References`.

### References

*State.* `disk` holds a note or none at each path: its aliases, anchors, body (a
sequence of references), dependencies and whether it is superseded. `queue`,
`scan`, `snap` and `findings` are the reader's events, the scan in flight, the
active snapshot and the stored findings; `intent` is a repair before its source
is read, `proposal` one that is stored. `tenant` is history. The events of the
reader and the operations of a proposal are sets: their order decides only
which operations fall to a limit, and that is their `rank`.

*Actions.* The user renames, deletes, creates, edits and supersedes; `StartScan`
takes the events, `ListFiles` reads, `CompleteScan` runs
`CheckReferenceIntegrity`, `BuildContextualNormalizationFindings` and
`BuildChangeAwareFindings`, `FailScan` loses what the scan took. `Recommend`
picks among `BuildReferenceRepairCandidates`, `ChooseTarget` is the user's
choice, `Propose` reads the source and builds the operation, `Consolidate`
builds a consolidation up to its limit, `Apply` writes if all sources are as
read. Paths are sequences of their parts, so that relative links, `..` and base
names are computed and not assumed.

*Left out.* Letter case, dots inside names, percent encoding, the grammar of
links in a line (one reference per line).

### RepairFamilies and Workspace

`RepairFamilies` has the operators: which findings have repairs, the candidates
and kinds a model may choose from (`BuildSelectionRequest`), the answers that
pass (`Intents`), the operation of each kind with the places evidence is looked
for, and the functions on batches (`CombinePreparedRepairs`,
`SelectPreparedRepairItems`, `FindPreparedRepairConflicts`, `ParseProposal`).

*State of `Workspace`.* `mode`, `findings`, `prepared`, `selected`,
`actualResult`, `judgment` and `dismissed` are the view's; `flow[h]` is what
handler `h` has captured across its awaits; `prep` is
`prepareRecommendedRepairBatch` under way: the family, the snapshot it began
with, its findings still to do, in any order, and its proposals; `rows` are the stored
proposals, `snapshot` and `scan` the plugin's.

*Actions.* One per button (`CheckVault`, `ReviewNext`, `DismissJudgment`,
`Consolidate`, `Toggle`, `Apply`) and one per continuation (`CompleteScan` and
`FailScan` with `Resume`, `BeginPreparing`, `PrepareFinding`, `FinishFamily`,
`Choose`, `Dismissed`, `Consolidated`, `ApplyBatch`, `Applied`), besides
scheduled scans and edits. Any await may fail; a flush fails behind what it was
to store.

## 3 Runs and bounds

| run | module | checks | shows |
|---|---|---|---|
| ReviewBatch | MCReviewWorkflow | WorkflowInv, NothingLeftBehind, AppliedIsWhole, SpliceNeverThrows, KeepsLedger, CallsEnd | two batches over three proposals and two notes, with a user edit: atomic up to a reported recovery, the ledger is implemented, every call ends |
| ReviewApply | MCReviewWorkflow | UserTextKept, OneOwner, ApprovalPrecedesWrite, TrailMatchesStatus, DecidedForGood | reviews and single applies with aborts and two user edits |
| PersistStops | MCRepairPersistence | PersistTypeOK, NoDoubleRepair, AtRestRecorded, DiskAppliedIsWhole | a crash or a reload anywhere, then the repair of what is left |
| SchedulerBudget | MaintenanceScheduler | TypeOK, SlidingBudget, EventServed, IntervalKept | every order of events, settings and scans |
| ScanIndex | ScanLifecycle | ScanTypeOK, NothingMissed, PathsUnambiguous, ReindexedIsFresh, CatchesUp | scans over a changing vault, and that the index becomes the vault after the last change |
| StoreViews | MCFindingStore | CompletedIsWhole, ViewsAgree, RetentionKept, ViewStands | saves that fail at any statement, deletions, restarts, a clock set back |
| Agents | MCGovernedScan | AnalysisOwned, FindingsGrounded, LimitationsTold, ChecksWhateverTheModel, ScanEnds | any answers and failures of models, with edits, saved settings and another day meanwhile |
| References | MCReferences | VerifiedIsMoved, ImpactMatchesResolver, RepairReachesTarget, ConsolidationKeepsLinks | scans and repairs over notes that are renamed, deleted, created and edited at any moment |
| Workspace | MCWorkspace | ShownIsWritten, OfferedFromOneScan, EveryPressEnds | every press of every button, over scans that complete and notes that change meanwhile |
| PersistRecovery, SchedulerQuiet, WorkspaceOffer | | one property each | violated: see section 5 |

*Bounds of the review runs.* Two calls (`c1`, `c2`), two notes and two texts. A
race needs two calls, a partial write two notes. `p1` spans both notes, `p2`
touches `p1`'s range on `n1` without overlapping it, `p3` overlaps `p1` on `n2`;
the batches are all single proposals, three pairs, a repetition and one above
the limit (`MaxBatch` is 20 in the code and 2 here: the limit only guards the
entry). `MaxEdits` is 1 or 2: one edit makes a write stale, a second one meets
the rollback. ReviewApply uses symmetry over calls and texts. ReviewBatch checks
liveness, for which symmetry is not sound, and starts all notes from one text
instead: no action tells first texts apart.

*Bounds of the persistence run.* One stop (`MaxStops`), of either kind, and two
images on their way (`MaxWrites`). `p2` repairs on `n2` what `p1` repairs there:
what the next instance prepares for what a cut off `p1` has left.

*Bounds of the scheduler run.* An hour of 4 minutes, an interval of 2, a
debounce of 1, two runs an hour, 11 minutes: almost three windows, so that runs
of two of them can lie closest together.

*Bounds of the scan run.* Two notes and three paths (with three paths two notes
can be moved round so that one path is met twice), two changes, one failure.

*Bounds of the store run.* Two scans, because every view compares one scan with
another; two findings of one place, one of which normalization drops; three
units of time, one step back, and retention periods of one and two units, so
that a scan can expire under one and not under the other.

*Bounds of the agents run.* Two scans, because the cache matters to the second;
one save of settings and one edit between or during them; two valid
configurations, one local and one cloud, and one that is refused; three vaults
(tasks and decisions that lead into a cycle; an archived project with an open
task and an old note; a single plain note); prompts of two entries, of which one
route has more; evidence of two lines, where the code has 100.

*Bounds of the references run.* Four paths, two of which share a base name; five
vaults in which links are written as paths, relative links that climb, names,
aliases and with anchors; two scans, one repair, two changes of the user, at any
moment; two candidates and three operations where the code has twenty, so that
both limits are reached.

*Bounds of the workspace run.* Three vaults, which between them have findings of
every family (`MCWorkspace` names them), two scans, so that one may complete
under a preparation, one edit, and two rounds of the buttons that lead round.
`MaxPrepared` and `MaxItems` are the code's 5 and 20. WorkspaceOffer adds a
vault with two notes that link to a duplicate.

*Deadlock* is not checked: user and vault may stop changing anything, which is
where a bounded run ends.

*Fairness.* `CallsEnd` takes weak fairness of each started call: its promises
settle and the event loop runs their continuations; a refused write or a failed
read is such a settling too. Nothing obliges users or callers. `CatchesUp`
takes weak fairness of a running scan's steps for the same reason, of the tick,
a 60 s interval timer that lives as long as the plugin, and of `Reindex`, which
the continuation of an applied batch calls. Failures are bounded: a scan that
always fails never catches up. `ScanEnds` takes weak fairness of the steps of a
scan: a request is aborted when its provider's timeout is over, so that each
attempt ends, in `late` if in nothing else. `EveryPressEnds` takes weak fairness
of preparation, scans and application, which are awaited by the handlers and end
for the reasons above; nothing obliges the user, a dismissal or a consolidation,
which the view does not show as busy.

## 4 Proofs

Checked by TLAPS for every value of the constants that satisfies the named
assumptions of the modules.

*ReviewWorkflowProofs.* `WorkflowInv` is inductive. The properties themselves
are not: that no operation is left behind needs, at the moment a call reports,
that each operation found in a note belongs to a call that still has it in
`done` or has failed to take it back (`Accounted`); this needs that a call's
preflight has not seen its own operations (`PreflightClean`), or a rollback
would put them back; both need that two calls never share a proposal
(`OneOwner`), which follows from the statuses calls give to their members
(`BatchStatus`). `WrittenIsThere` and `AppliedIsWhole` say that what was written
stays until the user takes it out: a conditional write or rollback of another
call replaces only the content it was computed from. `NoOverlap` carries the
check at the entry to the splice, where `SortsAgree` shows that its sort order
and that of `createWrites` agree on quoted operations.

The theorems are `WorkflowInvariant`, `OneOwnerSafe`, `NothingLeftBehindSafe`,
`AppliedIsWholeSafe`, `SpliceSafe` and `DecisionsStand`, under the assumption
`SingleEntry`: callers use the batch or the single apply, not both. The plugin's
interface offers the batch only. Without the assumption they are false
(section 5). `UserTextSafe` needs no such assumption.

*The ledger (in ReviewWorkflowProofs).* `LedgerKept`: under `SingleEntry`, `Spec` implements
`Ledger!Spec`. Every step of the workflow is matched to a step of the ledger or
to none: `StartBatch` and `StartApply` take, the ways a call may end settle
all that it holds with one result, reads, writes and rollbacks stutter. The
mapping needs that a call in progress has reported nothing and holds something
(`LedgerShape`), that no two calls hold the same proposal and that the statuses
of a call's members are those its place in the code says (`WorkflowInv`), and
that the end in which `createWrites` throws does not occur (`SortsAgree`).

Of the audit trail it proves `TrailMatches` and `ApprovalFirst`, under
`SingleEntry`. `Tells` says of a proposal which rows its trail may hold for the status it has,
`TrailStory` says it of all proposals at every step. Beside it `BatchStatus` is
needed: the members of a call in progress are approved or being applied, so
their trail is the approval alone, and what the call appends or leaves out at its
end is the second row of theirs.

*RepairPersistenceProofs.* `PersistTypes`, `RepairedOnce`, `NothingToLose` and
`DiskTellsTheTruth`, from `PersistInv`, through crashes and reloads at any step.
That a note is repaired once needs to know whose operations a note may hold:
a proposal is prepared only for what the notes still need (`PreparedClean`), and
what a call, running or orphaned, has seen or may still write does not overlap
what another has written (`SeenDisjoint`, `CallsDisjoint`). That the file tells
the truth needs it of all images: those on their way are snapshots of statuses
of which every "applied" was whole when it was taken (`WrittenIsThere`) and
stays so, for what is written leaves a note by the user's hand only. That nothing is
lost at rest needs that each result is in the tables, in an image on its way or
in a flush that is still to come (`SaidIsSettled`, `ResultsOnTheirWay`).
`ApprovalsStay` says that no image takes an approval out of the file, of
instances that are never reloaded: it assumes that `Stops` has no reload. With
reloads it is false, and TLC finds the nine steps: the next instance reads the
file before the last image of the old one lands, and writes back what it has
read.

*MaintenanceSchedulerProofs.* `Promptness`, `ScheduleTypes` and `IntervalSafe`: `TypeOK`, `EventServed` and
`IntervalKept` hold for every hour, interval, debounce and budget; the invariant
adds to them what holds just before a tick of the minute. `BudgetSafe`: any hour
contains at most `2 * MaxRunsPerHour - 1` scheduled runs. The invariant says
which runs belong to the open window and that those before it were within the
budget of theirs; the argument counts the two parts of a sliding hour
separately. The setting "runs per hour" thus bounds the runs of a window that a
run opens, not of any sixty minutes; TLC reaches `2 * MaxRunsPerHour - 1`.

*ScanLifecycleProofs.* `ScanTypes`, `NothingMissedSafe`, `PathsUnambiguousSafe`
and `ReindexedIsFreshSafe`, for any notes, paths, changes and failures. None of
the last three is inductive. `ScanInv` adds what holds inside a scan: while a listing
runs and no event has come, each note is still to be read, is being read, or has
been read as it is (`ListingSound`), so that the index that is saved is the
vault or an event waits for the next scan (`IndexSound`); paths that have been
read are read no more (`ListedUnambiguous`); the scan that reports to a repair
is the one the repair has begun (`CallerKnown`), and such a scan has the notes
the repair wrote ahead of it or has read them as written or later
(`RepairSeen`).

*FindingStoreProofs.* `Wholeness`, `ViewAndHistory`, `Retention` and
`ViewStanding`, for any findings, periods, scans, failing statements and clock,
from `StoreTypeOK`, which says that every row belongs to a scan that is in the
table. `CompletedIsWhole` follows from `Whole`: the findings of a completed scan
are the queue of what it found, and its traces are all those of a save or none.
It is kept because a save writes rows of its new scan only (`SaveAdds`), other
steps write neither findings nor traces (`Quiet`), and what is taken of one scan
goes together (`TracesTogether`). That every finding is listed under its place
needs a first one of each place (`QueueCovers`), as the history needs a last
scan in which a finding was seen (`GreatestNumber`); both are the minimum of a
set of numbers, by the well-foundedness of `<`.

*GovernedScanProofs.* `AnalysisIsOwned`, `FindingsAreGrounded`,
`LimitationsAreTold` and `ChecksAlwaysRun`, for any vaults, policies, templates,
providers, responses, days and limits; the vaults are as a parser makes them
(`VaultsAssumption`: finitely many notes with text fields, numbers for dates).
`GovernedInv` says of the cache what makes it safe to keep across scans, edits
and days (`CacheSound`): a result under a key was said by a provider of the key
about the context of the key, and its candidates are right for every vault and
day that give this context. It rests on `ContextDeterminesEntries`, which says that two
vaults with one context have the same entries, and on `KeptCites`, that what
passes validation cites entries only. Of the scan under way (`ScanSound`) it says
that each route that is done has added such candidates or a limitation.
`ChecksAlwaysRun` says nothing of the models and needs no invariant but the
types; its argument is about the walk of `checkDecisions` along `supersedes`:
in a finite set of decisions that all supersede one of the set, a walk with as
many steps as there are decisions must meet one of them twice
(`CyclesAreFound`, the pigeonhole principle).

*WorkspaceProofs.* `ShownIsWhatIsWritten` and `OneScanIsOffered`, for any vaults,
edits, templates, duplicates, targets and bounds. A batch that is offered is
what a preparation has put together from parts, cut to a selection, and cut
again when it is applied; the rows it is applied by may have been stored by an
earlier preparation. `WorkspaceInv` follows a proposal along this way: those of a
turn, of a part and of an offer are of one scan, and stored with the same effect
(`Sound`). The template family takes any stored proposal for its own, so that there the
effect must be the same without a comparison: `TemplateRepairIsDecided` shows
that it is a function of the snapshot, whatever the note holds by then, and
`MadeUnder` that the rows hold what the active snapshot and that of the turn
decide, which needs that scans are numbered in their order and that no finding
is of a scan to come (`ScansOrdered`). That putting sequences together and
selecting from them adds nothing is `Flattened`, by induction on numbers
(`EveryNumber`).

*ReferencesProofs.* `VerifiedRenames`, for any vaults, edits, names and bounds. A
rename is forgotten with the next completed scan, but it is queued, taken by a
scan and kept with a snapshot before that, while the user goes on. `History`
says that at each of these stations every rename is accounted for: the note at
its new path is the one that last stood at its old path, or another event of the
same station touches one of the two paths. Why a scan keeps this while it waits
for the listing is that what is queued meanwhile counts too; why it may lose its
events is that the queue alone is accounted for. A candidate called a rename is
made from such an event (`RenameCandidate`).

`ReferenceTypeCorrect`, `ImpactMatches`, `RepairReaches` and
`ConsolidationKeeps` say that what one part of the program writes is what another
reads, for paths of any depth. Their invariant, `RepairInvariant`, holds what a
repair carries while the vault goes on without it: the operations of a
reference repair replace the line of the note they were read from by what
`replaceInternalReference` makes of it (`RepairOperations`), a consolidation that
was not cut holds all the operations its notes call for
(`ConsolidationOperations`), and the findings hold all that the events of
their scan touch (`ImpactKept`). `apply` compares revisions, so that each source is as
it was read, though the others need not be.

* *Paths.* `NormalizeResolvedPath` is a recursive function of the parts; its
  value is known by `NormalPath`: a walk that starts where it starts and
  climbs and descends as it does is the same walk, by induction on the number
  of parts (`EveryNumber`). `ReplacedReaches` follows it along what
  `relativeMarkdownPath` writes: up to the folder the two notes share, then down
  to the target. `PlainPath` says that a path without `..` is left as it is,
  which is where the impact analysis and the resolver agree on wiki links.
* *Consolidation.* A link that named the duplicate by an alias that only it
  has must resolve to the canonical note once the alias has moved, and a link that was
  resolved by a name must not become ambiguous. `MeantWritten`: a name that meant
  one note means that note or the canonical one afterwards, and nothing comes to
  mean the duplicate. `LinkKept` and `DuplicateLeft` follow.

The assumption `NotesAssumption` says what a parser and `normalizeTargetPath`
admit: no file or folder is called `..` or `https:`, typed targets and paths do
not climb, no heading is the absent anchor.

*Only model-checked.* Liveness (`CallsEnd`, `CatchesUp`, `ScanEnds`,
`EveryPressEnds`), which needs fairness and with it ENABLED. Every other property
of a run that passes is stated by a theorem. A wiki link with `..`
in it, which the resolver follows and the impact analysis compares as written,
is excluded by the premise of `ImpactMatchesResolver`. Each inductive
invariant was checked by TLC on the instance of its run before it was proved.

## 5 Where code and documents disagree

Shown by a run:

* **PersistRecovery.** `docs/interfaces.md:76` says that interrupted applies
  require explicit recovery. Statuses of a running batch are not flushed before
  it ends, and `recoverInterruptedApplies` has no caller.
* **SchedulerQuiet.** "Run local maintenance scans while Obsidian is open"
  (`src/main.ts:848`): before the first scheduled run the interval starts anew
  at each tick, so that without vault events no scheduled scan ever runs.
* **WorkspaceOffer.** `docs/manual-acceptance-suite.md:111-114` has a
  consolidation of three references applied. `selectPreparedRepairItems`
  (`review/prepare-repair-batch.ts:178`) counts each operation as an item, so
  that a proposal with more than one can never be selected.

Met while modelling; the models have the code's behaviour, no run is about it:

* A batch leaves its proposals `approved` while it reads, and `apply` takes
  approved proposals: with both on one proposal, the call that comes late marks
  it `apply-failed` while the other call's write stands
  (`docs/reliability.md:19`). The view uses the batch only; `SingleEntry`.
* Approvals may be lost: `onunload` does not wait for its flush, and a load that
  overtakes it writes an older file back (`docs/interfaces.md:76`).
* The notes in memory are replaced before the scan is saved (`main.ts:187`), so
  that a scan whose save throws has results (`docs/reliability.md:5`).
* Only the first finding of a type and evidence is kept
  (`coordinator/normalize.ts:8-9`), so that an issue may be absent although it
  was found (`docs/data-model.md:29`).
* The repairs of a decision's targets are never prepared: `governed-scan.ts:237`
  replaces the first hyphen of the issue only, and
  `task-decision-recommendation.ts` looks for the phrase without hyphens, which
  the tests give it. A decision's evidence is a field, which
  `exactEvidenceStart` does not resolve to a place.
* `assign-owner` and `assign-project` on a task without an id expect a space at
  the end of the line that is not there: offered, and refused as stale.
* Evidence is counted in the body and looked up in the whole file: below
  frontmatter no task repair is found, and a reference one only where the same
  line stands elsewhere.
* `expectedFindingsResolved` counts a finding as resolved although its repair
  may leave it (a new due date that is past too; an orphaned task without owner
  and project).
* A consolidation that follows a recommendation keeps the earlier selection, of
  which none is its own.
* `ReviewNext` leaves out all findings that were offered, selected or not. A
  scheduled scan that had read the notes before the repair brings repaired
  findings back, under new ids (the comment at
  `ui/VaultStewardWorkspace.tsx:227` says never), and so does the next scan with
  dismissed ones.
* "Not changed" (`ui/VaultStewardWorkspace.tsx:218`) is also shown when the
  flush behind a successful write fails.
* One earlier decided proposal of the same id drops the whole preparation
  (`main.ts:475`).
* A consolidation cut at its limit may leave references that are ambiguous
  (`docs/interfaces.md:152`). Its links keep anchors the target may lack, and a
  repair's target is not looked at again when it is applied.
* Impact analysis ignores names and aliases; renames are lost with a scan that
  fails, and chains of them are not followed.
* Agents of the entity route never contribute a finding; tasks below line 100
  have none; `required` rules of a policy fire for three fields only.

## 6 Not modelled

* `recoverInterruptedApplies`, `projectGraph`, `groupMaintenanceFindings`,
  `consumeInvalidatedPaths`: nothing calls them. `recoverInterruptedScans` is
  called when the database opens, and never finds a running scan, for a save is
  one synchronous function.
* `ObsidianVaultWriter` without `vault.process`, and `ReviewWorkflow` over a
  vault without `writeIfCurrent`: not what the plugin runs on.
* A flush the adapter rejects is seen by the view (`Workspace`) and not by
  `RepairPersistence`; a database file cut off while it is written is seen by
  neither.
* Of the workspace: suppression patterns, the loading of findings when the view
  is mounted, and the moment at which the rows of a preparation are flushed.
* The views of history, diagnostics, policies and the older review queue;
  aggregates for display and exports.
* Parsers (Markdown, YAML, policies, settings), formatters, prompts, HTTP, SQL
  text and rendering: sequential code over strings. Where their outcome matters
  it is a set of possible outcomes (`GovernedScan!Responses`, a token for a path).
* Migrations: SQL that runs once per version inside one transaction.
* Packaging, portability, evaluation and diagnostics: tools outside the running
  plugin.

## 7 Plan

Done, in the order in which the rest of the system depends on them:
`ReviewWorkflow`, `RepairPersistence`, `MaintenanceScheduler`, `ScanLifecycle`,
the ledger and its refinement, `FindingStore`, `GovernedScan`, `References`,
`RepairFamilies` with `Workspace`. What is left, in order:

1. A flush the adapter rejects in `RepairPersistence`, and what the tables of a
   running instance then promise of the file.
2. The steps of `Workspace`'s application refined to those of `ReviewWorkflow`,
   in place of one action with the same outcomes.
3. Suppressions, and the remaining views, if they come to share state.
