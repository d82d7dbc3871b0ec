---------------------------- MODULE RepairFamilies ----------------------------
(***************************************************************************)
(* The repairs of tasks, decisions and templates: which of a finding's     *)
(* repairs a model may choose from (src/review/task-decision-*.ts), what   *)
(* each writes, and how prepared repairs are put together, selected and    *)
(* checked (src/review/prepare-*.ts, src/contracts/prepared-repair.ts).    *)
(*                                                                         *)
(* A file is [fm, lines, links]: the text fields of its frontmatter, the   *)
(* lines of its body and the notes it links to.  A line is a task or       *)
(* Text.  A scan is [id, notes].  A set with at most one element is a      *)
(* result that may be missing.                                             *)
(***************************************************************************)
EXTENDS Integers, Sequences, FiniteSets, SequencesExt, FiniteSetsExt, Functions, TLC

CONSTANTS
  Past,         \* the due dates that are over
  ValidDates,   \* what isValidDueDate accepts
  SafeValues,   \* what isSafeTaskValue and isSafeValue accept
  Required,     \* Required[t]: the fields template t requires
  Meant,        \* Meant[x]: the notes a broken reference to x may have meant
  Rationales,   \* the rationales a model may draft
  Duplicates,   \* pairs of notes that are judged to be one entity
  MaxPrepared,  \* MAX_PREPARED_FIXES
  MaxItems,     \* MAX_BATCH_ITEMS
  MaxSuffix     \* of a duplicate task id

ASSUME RepairAssumption ==
  {MaxPrepared, MaxItems, MaxSuffix} \subseteq Nat \ {0} /\ MaxPrepared <= MaxItems

Text == [text |-> TRUE]
IsTask(line) == line # Text
Tasks(file)  == {i \in DOMAIN file.lines : IsTask(file.lines[i])}
TaskId(line, i) == IF line.id = <<>> THEN <<"line-" \o ToString(i)>> ELSE line.id
Done(t)  == t.box \/ t.marked
Field(file, f) == IF f \in DOMAIN file.fm THEN file.fm[f] ELSE ""
OfKind(v, k) == {p \in DOMAIN v : Field(v[p], "kind") = k}

-----------------------------------------------------------------------------
\* The findings that have repairs.

Finding(s, type, path, at, what, excerpt) ==
  [scan |-> s.id, type |-> type, path |-> path, at |-> at, what |-> what, excerpt |-> excerpt]

\* Of the issues with the same evidence the first is kept (normalizeFindings).
Earliest(order, S) ==
  LET found == SelectSeq(order, LAMBDA k : k \in S) IN IF found = <<>> THEN {} ELSE {Head(found)}

TaskIssue(file, i) ==
  LET t == file.lines[i]
      id(j) == TaskId(file.lines[j], j)
      order == <<"duplicated", "completion-pending", "orphaned", "overdue", "abandoned">>
  IN Earliest(order, {k \in Range(order) :
        CASE k = "duplicated"         -> \E j \in Tasks(file) : j < i /\ id(j) = id(i)
          [] k = "completion-pending" -> ~ t.box /\ t.marked
          [] k = "orphaned"           -> t.owner = "" \/ t.project = ""
          [] k = "overdue"            -> ~ Done(t) /\ t.due \in Past
          [] k = "abandoned"          -> ~ Done(t) /\ t.abandoned})

\* The issue of a decision is told with its first hyphen replaced by a space.
DecisionIssue(v, d) ==
  LET broken(f) == Field(v[d], f) \notin DOMAIN v \cup {""}
      order == <<"missing rationale", "missing project-target", "missing related-decision-target">>
  IN Earliest(order, {k \in Range(order) :
        CASE k = "missing rationale"      -> Field(v[d], "rationale") = ""
          [] k = "missing project-target" -> broken("project")
          [] OTHER                        -> broken("relatedDecision")})

Template(file) == {Field(file, "kind")} \cap DOMAIN Required

Findings(s) ==
  LET v == s.notes
      At(p, type, i, kinds, excerpt) == {Finding(s, type, p, i, k, excerpt) : k \in kinds}
  IN UNION {UNION {At(p, "task", i, TaskIssue(v[p], i), v[p].lines[i]) : i \in Tasks(v[p])} \cup
            At(p, "schema", 0, {f \in UNION {Required[t] : t \in Template(v[p])} : Field(v[p], f) = ""}, Text) \cup
            At(p, "broken-reference", 0, v[p].links \ DOMAIN v, Text) : p \in DOMAIN v} \cup
     UNION {At(d, "decision", 0, DecisionIssue(v, d), Text) : d \in OfKind(v, "decision")} \cup
     {Finding(s, "entity-alias", d[1], 0, d[2], Text) : d \in {e \in Duplicates : {e[1], e[2]} \subseteq DOMAIN v}}

-----------------------------------------------------------------------------
\* The candidates of the active snapshot, and what is asked of the model.

Candidates(category, values) == {[category |-> category, value |-> x] : x \in values \ {""}}

NextDuplicateId(s, id) ==
  LET used == UNION {{TaskId(s.notes[p].lines[i], i) : i \in Tasks(s.notes[p])} : p \in DOMAIN s.notes}
      free == {n \in 2..MaxSuffix : Append(id, "-" \o ToString(n)) \notin used}
  IN {[category |-> "id", value |-> Append(id, "-" \o ToString(n))] : n \in {m \in free : \A k \in free : m <= k}}

BuildDecisionRepairCandidates(s, d) ==
  [project  |-> Candidates("project", OfKind(s.notes, "project")),
   decision |-> Candidates("decision", OfKind(s.notes, "decision") \ {d})]

DatesFrom(file) == ({Field(file, "due")} \cup {file.lines[i].due : i \in Tasks(file)}) \cap ValidDates

BuildTaskDecisionCandidates(s, path, id) ==
  LET v        == s.notes
      file     == v[path]
      tasks    == {i \in Tasks(file) : TaskId(file.lines[i], i) = id}
      task     == file.lines[Min(tasks)]
      projects == OfKind(v, "project")
      near     == {path} \cup ({task.project} \cap projects) \cup (OfKind(v, "decision") \cap file.links)
  IN IF path \notin DOMAIN v \/ tasks = {} THEN [owner |-> {}, project |-> {}, due |-> {}]
     ELSE [owner   |-> Candidates("owner", {Field(v[p], "owner") : p \in projects}),
           project |-> Candidates("project", projects),
           due     |-> Candidates("due", UNION {DatesFrom(v[p]) : p \in near} \ {task.due})]

TaskRequest(s, f) ==
  LET t  == f.excerpt
      id == TaskId(t, f.at)
      c  == BuildTaskDecisionCandidates(s, f.path, id)
      Ask(kinds, candidates) == {[kinds |-> kinds, candidates |-> candidates]}
  IN CASE f.what = "completion-pending" -> Ask({"mark-complete"}, {})
       [] f.what = "overdue"    -> IF c.due = {} THEN {} ELSE Ask({"replace-due-date"}, c.due)
       [] f.what = "orphaned"   ->
            LET kinds == {k \in {"assign-owner", "assign-project"} :
                            IF k = "assign-owner" THEN t.owner = "" ELSE t.project = ""}
                from  == (IF t.owner = "" THEN c.owner ELSE {}) \cup (IF t.project = "" THEN c.project ELSE {})
            IN IF from = {} THEN {} ELSE Ask(kinds, from)
       [] f.what = "abandoned"  -> Ask({"clear-abandoned"}, {})
       [] f.what = "duplicated" -> {[kinds |-> {"resolve-duplicate-id"}, candidates |-> {x}] : x \in NextDuplicateId(s, id)}

\* The phrases looked for in the explanation have no hyphen.
DecisionRequest(s, f) ==
  LET c == BuildDecisionRepairCandidates(s, f.path)
      Ask(kind, candidates) == IF candidates = {} THEN {} ELSE {[kinds |-> {kind}, candidates |-> candidates]}
  IN CASE f.what = "missing project target"          -> Ask("link-project", c.project)
       [] f.what = "missing related decision target" -> Ask("link-related-decision", c.decision)
       [] f.what = "missing rationale" -> Ask("set-rationale", Candidates("rationale", Rationales))
       [] OTHER -> {}

BuildSelectionRequest(s, f) ==
  IF f.scan # s.id THEN {}
  ELSE CASE f.type = "task" -> TaskRequest(s, f) [] f.type = "decision" -> DecisionRequest(s, f) [] OTHER -> {}

\* The answers that pass: a kind and a candidate of the request, of whatever
\* category; a completion is not asked for.
NoCandidate == [category |-> "none", value |-> ""]
Intents(request) ==
  {[kind |-> k, candidate |-> c] : k \in request.kinds \ {"mark-complete", "clear-abandoned"}, c \in request.candidates} \cup
  {[kind |-> k, candidate |-> NoCandidate] : k \in request.kinds \cap {"mark-complete", "clear-abandoned"}}

Category(kind) ==
  CASE kind = "replace-due-date" -> "due"
    [] kind = "assign-owner" -> "owner"
    [] kind \in {"assign-project", "link-project"} -> "project"
    [] kind = "link-related-decision" -> "decision"
    [] kind = "resolve-duplicate-id" -> "id"
    [] kind = "set-rationale" -> "rationale"
    [] OTHER -> "none"

\* The candidate of an intent, if it is one for the kind that was chosen.
RepairCandidates(intent) == {intent.candidate} \cap {c \in {intent.candidate} : c.category = Category(intent.kind)}

-----------------------------------------------------------------------------
\* What the repairs write.  An operation replaces what stands at its place in
\* a file whose content was source; it is quoted when what it expects there
\* is what stands there.  Values are sequences, ids being ones.

Operation(path, source, place, key, value, quoted) ==
  [path |-> path, source |-> source, place |-> place, key |-> key, value |-> value, quoted |-> quoted]

\* Evidence is counted in the body and looked up in the whole file, behind
\* the lines of the frontmatter; evidence of the frontmatter has no line.
HeaderLines(file) == IF file.fm = <<>> THEN 0 ELSE Cardinality(DOMAIN file.fm) + 2
ExactEvidenceStart(file, f) ==
  {i \in {f.at - HeaderLines(file)} \cap DOMAIN file.lines : file.lines[i] = f.excerpt}

TaskOperation(source, f, intent) ==
  LET t      == f.excerpt
      kind   == intent.kind
      chosen == {c.value : c \in RepairCandidates(intent)}
      Set(key, values, quoted) ==
        {Operation(f.path, source, <<"line", i>>, key, x, quoted) : i \in ExactEvidenceStart(source, f), x \in values}
      Names(values) == {<<x>> : x \in values}
      When(applies, values) == IF applies THEN values ELSE {}
  IN CASE kind = "mark-complete"    -> Set("box", When(t.marked /\ ~ t.box, {<<"x">>}), TRUE)
       [] kind = "clear-abandoned"  -> Set("abandoned", When(t.abandoned, {<<"false">>}), TRUE)
       [] kind = "replace-due-date" -> Set("due", When(t.due # "", Names(chosen \cap ValidDates)), TRUE)
       [] kind = "assign-owner"     -> Set("owner", Names(chosen \cap SafeValues), t.owner # "" \/ t.id # <<>>)
       [] kind = "assign-project"   -> Set("project", Names(chosen \cap SafeValues), t.project # "" \/ t.id # <<>>)
       [] kind = "resolve-duplicate-id" -> Set("id", When(t.id # <<>>, chosen), TRUE)

\* A field of the frontmatter is replaced, or inserted at its top.
FrontmatterOperation(path, source, field, value) ==
  {Operation(path, source, IF field \in DOMAIN source.fm THEN <<"field", field>> ELSE <<"top">>, field, <<value>>, TRUE) :
     x \in {y \in {1} : source.fm # <<>>}}

DecisionOperation(source, f, intent) ==
  LET field == CASE intent.kind = "link-project" -> "project"
                 [] intent.kind = "link-related-decision" -> "relatedDecision"
                 [] OTHER -> "rationale"
  IN UNION {FrontmatterOperation(f.path, source, field, c.value) :
            c \in {d \in RepairCandidates(intent) : ExactEvidenceStart(source, f) # {}}}

BuildTemplateRepairCandidates(s, f) ==
  IF f.type # "schema" \/ f.path \notin DOMAIN s.notes THEN {}
  ELSE {Field(s.notes[p], f.what) : p \in {q \in DOMAIN s.notes : Template(s.notes[q]) \cap Template(s.notes[f.path]) # {}}}
       \cap SafeValues

\* There must be exactly one candidate, and the field must not be there.
TemplateOperation(s, source, f) ==
  LET values == BuildTemplateRepairCandidates(s, f)
  IN IF f.scan # s.id \/ Cardinality(values) # 1 \/ f.what \in DOMAIN source.fm THEN {}
     ELSE UNION {FrontmatterOperation(f.path, source, f.what, x) : x \in values}

\* References and their candidates are those of module References; here the
\* link itself is the evidence.
ReferenceOperation(source, f, target) ==
  {Operation(f.path, source, <<"link", f.what>>, "links", <<target>>, TRUE) : x \in source.links \cap {f.what}}

\* The two notes of a finding, while the snapshot it was found in is active.
BuildDuplicateEntityReview(s, f) ==
  IF f.type # "entity-alias" \/ f.scan # s.id \/ f.path = f.what THEN {} ELSE {f.path, f.what} \cap DOMAIN s.notes

\* The links to the duplicate, if the notes are as they were scanned; its
\* aliases are left to References.
ConsolidationOperations(s, files, canonical, duplicate) ==
  LET from == {p \in DOMAIN s.notes \ {canonical, duplicate} : duplicate \in s.notes[p].links}
  IN IF \E p \in from \cup {canonical, duplicate} : p \notin DOMAIN files \/ files[p] # s.notes[p] THEN {}
     ELSE {Operation(p, files[p], <<"link", duplicate>>, "links", <<canonical>>, TRUE) : p \in from}

IsCurrent(op, files) == op.path \in DOMAIN files /\ op.quoted /\ files[op.path] = op.source

Splice(file, op) ==
  CASE op.place[1] = "line" ->
         [file EXCEPT !.lines[op.place[2]] =
            CASE op.key = "box"       -> [@ EXCEPT !.box = TRUE]
              [] op.key = "abandoned" -> [@ EXCEPT !.abandoned = FALSE]
              [] op.key = "id"        -> [@ EXCEPT !.id = op.value]
              [] OTHER                -> [@ EXCEPT ![op.key] = op.value[1]]]
    [] op.place[1] = "link" -> [file EXCEPT !.links = (@ \ {op.place[2]}) \cup {op.value[1]}]
    [] OTHER -> [file EXCEPT !.fm = (op.key :> op.value[1]) @@ @]

Written(files, ops) ==
  [p \in DOMAIN files |-> FoldSet(LAMBDA op, file : Splice(file, op), files[p], {o \in ops : o.path = p})]

-----------------------------------------------------------------------------
\* Prepared repairs: the scan they are offered under and their proposals.

Proposal(id, f, ops) == [id |-> id, finding |-> f, scan |-> f.scan, ops |-> ops]
Ids(proposals)     == {proposals[i].id : i \in DOMAIN proposals}
OpsOf(proposals)   == UNION {proposals[i].ops : i \in DOMAIN proposals}

\* A proposal that is stored has operations, no two of them at one place.
ParseProposal(p) == p.ops # {} /\ \A a, b \in p.ops : a = b \/ a.path # b.path \/ a.place # b.place

CalculatePreparedRepairOutcome(proposals, active, resolved) ==
  LET findings == {proposals[i].finding : i \in DOMAIN proposals}
      fits == /\ Len(proposals) \in 1..MaxItems
              /\ Cardinality({proposals[i].scan : i \in DOMAIN proposals}) = 1
              /\ Cardinality(Ids(proposals)) = Len(proposals)
              /\ Cardinality(findings) = Len(proposals)
              /\ active >= resolved
  IN {[resolved |-> resolved, edited |-> Cardinality({o.path : o \in OpsOf(proposals)}),
       unchanged |-> active - resolved] : x \in {y \in {1} : fits}}

Batch(id, proposals, active) ==
  {[scan |-> id, proposals |-> proposals, outcome |-> o] :
     o \in CalculatePreparedRepairOutcome(proposals, active, Len(proposals))}

\* Faulty: the parts are put together whatever scan they come from.
CombineWhatIsThere(id, active, parts) ==
  Batch(id, FlattenSeq([i \in DOMAIN parts |-> parts[i].proposals]), active)

CombinePreparedRepairs(id, active, parts) ==
  IF \E i \in DOMAIN parts : parts[i].scan # id THEN {}
  ELSE Batch(id, FlattenSeq([i \in DOMAIN parts |-> parts[i].proposals]), active)

\* Every operation of a consolidation is an item of its own, so that one with
\* several cannot be selected.
SelectPreparedRepairItems(prepared, ids, active) ==
  LET all       == prepared.proposals
      proposals == FlattenSeq([i \in DOMAIN all |-> IF all[i].id \in ids THEN <<all[i]>> ELSE <<>>])
  IN IF \/ ids = {} \/ Len(proposals) # Cardinality(ids)
        \/ \E i \in DOMAIN proposals : Cardinality(proposals[i].ops) # 1 THEN {}
     ELSE Batch(prepared.scan, proposals, active)

FindPreparedRepairConflicts(proposals) ==
  {pair \in (DOMAIN proposals) \X (DOMAIN proposals) :
     /\ pair[1] < pair[2]
     /\ \E a \in proposals[pair[1]].ops, b \in proposals[pair[2]].ops : a.path = b.path /\ a.place = b.place}
=============================================================================
