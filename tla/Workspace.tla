------------------------------ MODULE Workspace ------------------------------
(***************************************************************************)
(* The workspace of the plugin (src/ui/VaultStewardWorkspace.tsx) over the *)
(* preparation and the application of repairs (src/main.ts), while scans   *)
(* complete and the user edits notes.  Scanning itself is ScanLifecycle's, *)
(* the steps of an application are ReviewWorkflow's, and references are    *)
(* References'.  One press of each button runs at a time.                  *)
(***************************************************************************)
EXTENDS RepairFamilies

CONSTANTS
  Vaults,    \* the contents the vault may have at first
  Edits,     \* Edits[p]: the contents the user may give note p
  Nothing,   \* null
  Targets,   \* the targets a model may choose
  MaxScans, MaxEdits, MaxRounds  \* bounds

ASSUME WorkspaceAssumption == {MaxScans, MaxEdits, MaxRounds} \subseteq Nat

VARIABLES
  vault, edits,
  snapshot,      \* activeSnapshot; the findings stored are those of this scan
  scan,          \* the scan under way, or Nothing
  scans,
  rows,          \* the stored proposals
  mode, findings, prepared, selected, actualResult, judgment, dismissed, \* state of the view
  flow,          \* the handlers under way
  prep,          \* prepareRecommendedRepairBatch under way
  rounds

worldVars == <<vault, edits>>
scanVars  == <<snapshot, scan, scans>>
viewVars  == <<mode, findings, prepared, selected, actualResult, judgment, dismissed>>
vars      == <<worldVars, scanVars, rows, viewVars, flow, prep, rounds>>

Handlers == {"check", "next", "apply", "dismiss", "consolidate"}
Busy     == {"scanning", "preparing", "applying"}
Families == <<"reference", "task-decision", "template">>
Types    == <<{"broken-reference"}, {"task", "decision"}, {"schema"}>>  \* of the findings of each
Off      == [at |-> "off"]
Running(h) == flow[h].at # "off"

Stored      == IF snapshot = Nothing THEN {} ELSE Findings(snapshot)
ActiveOf(fs, gone) == {f \in fs : f \notin gone}

Init ==
  /\ vault \in Vaults /\ edits = 0
  /\ snapshot = Nothing /\ scan = Nothing /\ scans = 0
  /\ rows = <<>>
  /\ mode = "ready" /\ findings = {} /\ prepared = Nothing /\ selected = {}
  /\ actualResult = FALSE /\ judgment = Nothing /\ dismissed = {}
  /\ flow = [h \in Handlers |-> Off]
  /\ prep = Off
  /\ rounds = 0

-----------------------------------------------------------------------------
\* Scans.  A second one is refused while one runs.

Scanned(who) == [id |-> scans + 1, notes |-> vault, for |-> who]

ScheduledScan ==
  /\ scan = Nothing /\ scans < MaxScans
  /\ scan' = Scanned("schedule") /\ scans' = scans + 1
  /\ UNCHANGED <<worldVars, snapshot, rows, viewVars, flow, prep, rounds>>

\* What the handler that awaits the scan does then: checkVault loads the
\* findings and prepares, an application has only been told.
Resume(who, ok) ==
  \/ /\ who = "check" /\ ok
     /\ findings' = Findings(snapshot') /\ mode' = "preparing"
     /\ flow' = [flow EXCEPT !["check"] = [@ EXCEPT !.at = "preparing", !.findings = Findings(snapshot')]]
  \/ /\ who = "check" /\ ~ ok
     /\ mode' = "error" /\ flow' = [flow EXCEPT !["check"] = Off] /\ UNCHANGED findings
  \/ /\ who = "apply"
     /\ flow' = [flow EXCEPT !["apply"].at = "flushing"] /\ UNCHANGED <<mode, findings>>
  \/ who = "schedule" /\ UNCHANGED <<mode, findings, flow>>

\* The results are stored, after which the flush may still fail.
CompleteScan ==
  /\ scan # Nothing
  /\ snapshot' = [id |-> scan.id, notes |-> scan.notes] /\ scan' = Nothing
  /\ \E flushed \in BOOLEAN : Resume(scan.for, flushed)
  /\ UNCHANGED <<worldVars, scans, rows, prepared, selected, actualResult, judgment, dismissed, prep, rounds>>

FailScan ==
  /\ scan # Nothing
  /\ scan' = Nothing
  /\ UNCHANGED snapshot /\ Resume(scan.for, FALSE)
  /\ UNCHANGED <<worldVars, scans, rows, prepared, selected, actualResult, judgment, dismissed, prep, rounds>>

-----------------------------------------------------------------------------
\* prepareRecommendedRepairBatch: one family after the other, each under the
\* snapshot that is active when its turn comes, all of the findings loaded at
\* first.

OfFamily(k, fs) == {f \in fs : f.type \in Types[k]}
Turn(k, fs) == [family |-> k, snapshot |-> snapshot, todo |-> OfFamily(k, fs), got |-> <<>>]

BeginPreparing(h) ==
  /\ flow[h].at = "preparing" /\ prep.at = "off" /\ snapshot # Nothing
  /\ prep' = [at |-> "family", for |-> h, findings |-> Stored, parts |-> <<>>, turn |-> Turn(1, Stored)]
  /\ UNCHANGED <<worldVars, scanVars, rows, viewVars, flow, rounds>>

\* What a family makes of a finding with the answer of the model, if any, and
\* the note as it is now; nothing if the note cannot be read.
ReferenceRepair(s, f, source) ==
  IF f.scan # s.id THEN {}
  ELSE {ReferenceOperation(source, f, x) : x \in Targets \cap Meant[f.what] \cap DOMAIN s.notes}
TaskDecisionRepair(s, f, source) ==
  UNION {{IF f.type = "task" THEN TaskOperation(source, f, i) ELSE DecisionOperation(source, f, i) : i \in Intents(r)} :
         r \in BuildSelectionRequest(s, f)}
TemplateRepair(s, f, source) == {TemplateOperation(s, source, f)}

Repairs(k, s, f, source) ==
  IF Families[k] = "reference" THEN ReferenceRepair(s, f, source)
  ELSE IF Families[k] = "task-decision" THEN TaskDecisionRepair(s, f, source)
  ELSE TemplateRepair(s, f, source)

\* persistProposal: a stored proposal must be pending and the same.
Same(row, proposal)  == row.status = "pending" /\ row.ops = proposal.ops
Row(proposal) == [status |-> "pending", finding |-> proposal.finding, scan |-> proposal.scan, ops |-> proposal.ops]
Stores(r, proposal) ==
  [id \in DOMAIN r \cup {proposal.id} |-> IF id \in DOMAIN r THEN r[id] ELSE Row(proposal)]

\* Faulty: the proposal that is stored will do.
PersistAnyway(k, proposal) == TRUE

\* The template family takes any stored proposal for its own.
MayPersist(k, proposal) ==
  \/ proposal.id \notin DOMAIN rows
  \/ Same(rows[proposal.id], proposal)
  \/ Families[k] = "template"

AbandonPreparing == prep' = [prep EXCEPT !.at = "rejected"]

Unrepairable(f) == prep' = [prep EXCEPT !.turn.todo = @ \ {f}]

\* Faulty: a note that cannot be read is tried again.
SkipUnreadableForever(f) == UNCHANGED prep

\* The note could not be read, or the model abstained or failed.
Skip(f) == Unrepairable(f)

\* The findings come in the order they are loaded in, which is not modelled:
\* any of them may be next.
PrepareFinding ==
  /\ prep.at = "family" /\ prep.turn.todo # {} /\ Len(prep.turn.got) < MaxPrepared
  /\ \E f \in prep.turn.todo :
     LET k == prep.turn.family
         s == prep.turn.snapshot
         repairs == IF f.path \in DOMAIN vault THEN Repairs(k, s, f, vault[f.path]) ELSE {}
     IN \/ Skip(f) /\ UNCHANGED rows
        \/ \E ops \in repairs \ {{}} :
             LET p == Proposal(<<f>>, f, ops)
             IN IF MayPersist(k, p)
                THEN /\ rows' = Stores(rows, p)
                     /\ prep' = [prep EXCEPT !.turn.todo = @ \ {f}, !.turn.got = Append(@, p)]
                ELSE AbandonPreparing /\ UNCHANGED rows
  /\ UNCHANGED <<worldVars, scanVars, viewVars, flow, rounds>>

\* The family returns a batch under its snapshot, or null.
FinishFamily ==
  /\ prep.at = "family"
  /\ prep.turn.todo = {} \/ Len(prep.turn.got) = MaxPrepared
  /\ LET t == prep.turn
         parts == IF t.got = <<>> THEN prep.parts
                  ELSE Append(prep.parts, [scan |-> t.snapshot.id, proposals |-> t.got])
     IN prep' = IF t.family < Len(Families)
                THEN [prep EXCEPT !.parts = parts, !.turn = Turn(t.family + 1, prep.findings)]
                ELSE [prep EXCEPT !.parts = parts, !.at = "combining"]
  /\ UNCHANGED <<worldVars, scanVars, rows, viewVars, flow, rounds>>

-----------------------------------------------------------------------------
\* chooseNext: the recommendation, or the first finding to judge, or nothing.

ShowJudgment(active) ==
  /\ prepared' = Nothing
  /\ IF active # {} THEN judgment' = (CHOOSE f \in active : TRUE) /\ mode' = "judgment" /\ UNCHANGED actualResult
     ELSE judgment' = Nothing /\ mode' = "result" /\ actualResult' = FALSE
  /\ UNCHANGED selected

ChooseNext(active, offered) ==
  LET Allowed(p) == {x.id : x \in {y \in Range(p.proposals) : y.finding \in active}}
      next == UNION {SelectPreparedRepairItems(p, Allowed(p), Cardinality(active)) : p \in offered}
  IN IF next = {} THEN ShowJudgment(active)
     ELSE /\ prepared' = CHOOSE p \in next : TRUE
          /\ selected' = Ids(prepared'.proposals)
          /\ judgment' = Nothing /\ mode' = "recommendation"
          /\ UNCHANGED actualResult

\* The parts are combined under the snapshot that is active by now; a
\* preparation or a flush that throws is as if nothing was prepared.
Choose(h) ==
  /\ flow[h].at = "preparing" /\ prep.at \in {"combining", "rejected"} /\ prep.for = h
  /\ LET offered == IF prep.at = "rejected" THEN {}
                    ELSE CombinePreparedRepairs(snapshot.id, Cardinality(prep.findings), prep.parts)
     IN \E flushed \in BOOLEAN : ChooseNext(ActiveOf(flow[h].findings, flow[h].dismissed), IF flushed THEN offered ELSE {})
  /\ prep' = Off /\ flow' = [flow EXCEPT ![h] = Off]
  /\ UNCHANGED <<worldVars, scanVars, rows, findings, dismissed, rounds>>

-----------------------------------------------------------------------------
\* The buttons.

OffersCheck ==
  \/ mode \in {"ready", "judgment", "error"}
  \/ mode = "result" /\ ~ actualResult

CheckVault ==
  /\ OffersCheck /\ ~ Running("check") /\ scans < MaxScans
  /\ IF scan # Nothing THEN mode' = "error" /\ UNCHANGED <<scan, scans, flow>>
     ELSE /\ mode' = "scanning"
          /\ scan' = Scanned("check") /\ scans' = scans + 1
          /\ flow' = [flow EXCEPT !["check"] = [at |-> "scanning", findings |-> {}, dismissed |-> dismissed]]
  /\ UNCHANGED <<worldVars, snapshot, rows, findings, prepared, selected, actualResult, judgment, dismissed, prep, rounds>>

\* The findings of the repair just applied are left out, by their ids.
ReviewNext ==
  /\ mode = "result" /\ actualResult /\ ~ Running("next") /\ rounds < MaxRounds
  /\ LET repaired == IF prepared = Nothing THEN {} ELSE {p.finding : p \in Range(prepared.proposals)}
     IN /\ findings' = Stored \ repaired
        /\ flow' = [flow EXCEPT !["next"] = [at |-> "preparing", findings |-> findings', dismissed |-> dismissed]]
  /\ rounds' = rounds + 1
  /\ UNCHANGED <<worldVars, scanVars, rows, mode, prepared, selected, actualResult, judgment, dismissed, prep>>

DismissJudgment ==
  /\ mode = "judgment" /\ ~ Running("dismiss") /\ rounds < MaxRounds
  /\ flow' = [flow EXCEPT !["dismiss"] = [at |-> "saving", finding |-> judgment, findings |-> findings, dismissed |-> dismissed]]
  /\ rounds' = rounds + 1
  /\ UNCHANGED <<worldVars, scanVars, rows, viewVars, prep>>

\* The feedback is saved, or that fails; nothing is prepared then.
Dismissed ==
  /\ flow["dismiss"].at = "saving"
  /\ LET d == flow["dismiss"]
         gone == d.dismissed \cup {d.finding}
     IN \/ dismissed' = gone /\ ShowJudgment(ActiveOf(d.findings, gone))
        \/ mode' = "error" /\ UNCHANGED <<prepared, selected, actualResult, judgment, dismissed>>
  /\ flow' = [flow EXCEPT !["dismiss"] = Off]
  /\ UNCHANGED <<worldVars, scanVars, rows, findings, prep, rounds>>

\* Either note of the review may be taken as the canonical one; the model
\* only suggests one of them.
Consolidate ==
  /\ mode = "judgment" /\ snapshot # Nothing /\ ~ Running("consolidate") /\ rounds < MaxRounds
  /\ \E canonical \in BuildDuplicateEntityReview(snapshot, judgment) :
       flow' = [flow EXCEPT !["consolidate"] = [at |-> "reading", finding |-> judgment, snapshot |-> snapshot, canonical |-> canonical, active |-> Cardinality(Stored)]]
  /\ rounds' = rounds + 1
  /\ UNCHANGED <<worldVars, scanVars, rows, viewVars, prep>>

\* The selection stays as it was.  It may fail in the flush,
\* of which nothing is shown.
Consolidated ==
  /\ flow["consolidate"].at = "reading"
  /\ LET c == flow["consolidate"]
         f == c.finding
         duplicate == IF c.canonical = f.path THEN f.what ELSE f.path
         ops == IF c.snapshot.id = f.scan THEN ConsolidationOperations(c.snapshot, vault, c.canonical, duplicate) ELSE {}
         p   == Proposal(<<f, c.canonical>>, f, ops)
         made == {[scan |-> c.snapshot.id, proposals |-> <<p>>, outcome |-> o] :
                    o \in CalculatePreparedRepairOutcome(<<p>>, c.active, 0)}
         persists == ops # {} /\ (p.id \in DOMAIN rows => Same(rows[p.id], p))
     IN IF ~ persists THEN UNCHANGED <<rows, viewVars>>
        ELSE /\ rows' = Stores(rows, p)
             /\ \/ UNCHANGED viewVars
                \/ /\ \E b \in made : prepared' = b
                   /\ judgment' = Nothing /\ mode' = "recommendation"
                   /\ UNCHANGED <<findings, selected, actualResult, dismissed>>
  /\ flow' = [flow EXCEPT !["consolidate"] = Off]
  /\ UNCHANGED <<worldVars, scanVars, prep, rounds>>

\* One box, or all or none where there are several.
Toggle ==
  /\ mode = "recommendation"
  /\ LET all  == Ids(prepared.proposals)
         bulk == IF Cardinality(all) > 1 THEN {{}, all} ELSE {}
     IN \E S \in bulk \cup {SymDiff(selected, {id}) : id \in all} : S # selected /\ selected' = S
  /\ UNCHANGED <<worldVars, scanVars, rows, mode, findings, prepared, actualResult, judgment, dismissed, flow, prep, rounds>>

-----------------------------------------------------------------------------
\* Apply: the selection as it is shown, and the stored proposals of its ids.

LoadRows(batch) ==
  {[i \in DOMAIN batch.proposals |-> rows[batch.proposals[i].id]] :
     x \in {y \in {1} : \A i \in DOMAIN batch.proposals :
              LET p == batch.proposals[i]
              IN /\ p.id \in DOMAIN rows /\ ParseProposal(rows[p.id])
                 /\ rows[p.id].scan = batch.scan /\ rows[p.id].finding = p.finding}}

Apply ==
  /\ mode = "recommendation" /\ ~ Running("apply")
  /\ \E batch \in SelectPreparedRepairItems(prepared, selected, Cardinality(ActiveOf(findings, dismissed))) :
       /\ FindPreparedRepairConflicts(batch.proposals) = {}
       /\ \/ LoadRows(batch) = {} /\ mode' = "error" /\ UNCHANGED flow
          \/ \E loaded \in LoadRows(batch) :
               /\ mode' = "applying"
               /\ flow' = [flow EXCEPT !["apply"] = [at |-> "applying", batch |-> batch, loaded |-> loaded, ok |-> FALSE]]
  /\ UNCHANGED <<worldVars, scanVars, rows, findings, prepared, selected, actualResult, judgment, dismissed, prep, rounds>>

SetStatus(ids, status) == rows' = [id \in DOMAIN rows |-> IF id \in ids THEN [rows[id] EXCEPT !.status = status] ELSE rows[id]]

\* approveAndApplyBatch, whose steps are ReviewWorkflow's; then the vault is
\* scanned again, unless a scan is running.
ApplyBatch ==
  /\ flow["apply"].at = "applying"
  /\ LET a   == flow["apply"]
         ids == Ids(a.batch.proposals)
         ops == OpsOf(a.loaded)
         Ends(status) == /\ SetStatus(ids, status)
                         /\ flow' = [flow EXCEPT !["apply"].at = "flushing"]
                         /\ UNCHANGED <<vault, scan, scans>>
     IN IF \E i \in DOMAIN a.loaded : a.loaded[i].status # "pending"
        THEN flow' = [flow EXCEPT !["apply"].at = "flushing"] /\ UNCHANGED <<vault, rows, scan, scans>>
        ELSE IF \E o \in ops : ~ IsCurrent(o, vault) THEN Ends("stale")
        ELSE \/ Ends("apply-failed")
             \/ /\ vault' = Written(vault, ops) /\ SetStatus(ids, "applied")
                /\ IF scan = Nothing /\ scans < MaxScans
                   THEN /\ scan' = [Scanned("apply") EXCEPT !.notes = vault'] /\ scans' = scans + 1
                        /\ flow' = [flow EXCEPT !["apply"] = [@ EXCEPT !.at = "reindexing", !.ok = TRUE]]
                   ELSE /\ flow' = [flow EXCEPT !["apply"] = [@ EXCEPT !.at = "flushing", !.ok = TRUE]]
                        /\ UNCHANGED <<scan, scans>>
  /\ UNCHANGED <<edits, snapshot, viewVars, prep, rounds>>

\* A flush that throws is told as if the notes had not changed.
Applied ==
  /\ flow["apply"].at = "flushing"
  /\ \/ /\ flow["apply"].ok
        /\ actualResult' = TRUE /\ mode' = "result" /\ findings' = Stored
     \/ mode' = "error" /\ UNCHANGED <<actualResult, findings>>
  /\ flow' = [flow EXCEPT !["apply"] = Off]
  /\ UNCHANGED <<worldVars, scanVars, rows, prepared, selected, judgment, dismissed, prep, rounds>>

UserEdit ==
  /\ edits < MaxEdits
  /\ \E p \in DOMAIN vault : \E file \in Edits[p] \ {vault[p]} : vault' = [vault EXCEPT ![p] = file]
  /\ edits' = edits + 1
  /\ UNCHANGED <<scanVars, rows, viewVars, flow, prep, rounds>>

-----------------------------------------------------------------------------
PrepareStep == PrepareFinding \/ FinishFamily \/ (\E h \in {"check", "next"} : BeginPreparing(h) \/ Choose(h))
ScanStep    == CompleteScan \/ FailScan
ApplyStep   == ApplyBatch \/ Applied

Next ==
  \/ ScheduledScan \/ CheckVault \/ ReviewNext \/ DismissJudgment \/ Consolidate \/ Toggle \/ Apply \/ UserEdit
  \/ ScanStep \/ PrepareStep \/ ApplyStep \/ Dismissed \/ Consolidated

Spec == Init /\ [][Next]_vars

\* What was begun is awaited: a scan, a preparation and an application go on
\* until they end.
Fairness == WF_vars(PrepareStep) /\ WF_vars(ScanStep) /\ WF_vars(ApplyStep)
FairSpec == Spec /\ Fairness

-----------------------------------------------------------------------------
Effect(p) == {<<o.path, o.place, o.key, o.value>> : o \in p.ops}

\* What is written is what was shown: the stored proposals an application
\* loads by their ids are the ones prepared for the view, though a second
\* preparation under the same scan may have got other answers
\* (main.ts 468-476, 617-630).
ShownIsWritten ==
  flow["apply"].at # "off" =>
    \A i \in DOMAIN flow["apply"].loaded :
      Effect(flow["apply"].loaded[i]) = Effect(flow["apply"].batch.proposals[i])

\* Everything offered together comes from the scan it is offered under, though
\* a scan may complete between the families of one preparation
\* (main.ts 457-534): such a batch would be refused when it is applied.
OfferedFromOneScan ==
  prepared # Nothing => \A i \in DOMAIN prepared.proposals : prepared.proposals[i].scan = prepared.scan

\* The view leaves every busy mode, whatever fails on the way
\* (VaultStewardWorkspace.tsx 181-240).
EveryPressEnds == mode \in Busy ~> mode \notin Busy

\* docs/manual-acceptance-suite.md 111-114 has a consolidation of three
\* references applied.  What is offered can be applied when all of it is
\* selected (prepare-repair-batch.ts 170-193).
WholeOfferCanBeApplied ==
  mode = "recommendation" =>
    SelectPreparedRepairItems(prepared, Ids(prepared.proposals), Cardinality(findings)) # {}
=============================================================================
