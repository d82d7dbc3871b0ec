----------------------------- MODULE GovernedScan -----------------------------
(***************************************************************************)
(* One governed scan after the other: the deterministic checks of a        *)
(* snapshot and the agents that ask a model about it (src/core,            *)
(* src/agents, src/model-provider).                                        *)
(*                                                                         *)
(* The coordinator runs the routes one by one.  A route asks every         *)
(* provider twice until an answer can be parsed; its answer is kept in a   *)
(* cache that outlives the scan.  While a request is under way the user    *)
(* edits the vault and saves settings, which empties the cache.            *)
(*                                                                         *)
(* A note is a record: its frontmatter, a function from the fields that    *)
(* are present; its lines, tasks or text; and the templates its folder and *)
(* headings hint at.  Evidence is a note, a place in it, and whether its   *)
(* excerpt is quoted exactly.  Reference checks are in module References.  *)
(***************************************************************************)
EXTENDS Naturals, Sequences, SequencesExt, FiniteSets, Functions

CONSTANTS
  Vaults,         \* the contents the vault may have, functions from paths to notes
  Configs,        \* the model provider configurations the user may choose
  Valid, Default, \* those that are accepted, and the one that replaces any other
  Kind,           \* Kind[c]: "ollama", "llama.cpp", "openai" or "hyperfusion"
  Texts,          \* what a model may say
  Policy,         \* the active policy file, as a mapping
  Required,       \* Required[t]: the fields the rules of template t require
  EvidenceLines,  \* lines of a note that count as evidence
  MaxEntries,     \* entries of a prompt
  StaleAfter,     \* age of a note that may be stale, in days
  MaxDay, MaxScans, MaxSettings, MaxEdits  \* bounds

Cloud == {"openai", "hyperfusion"}

ASSUME GovernedAssumption ==
  /\ Valid \subseteq Configs /\ Default \in Valid
  /\ Kind \in [Configs -> {"ollama", "llama.cpp"} \cup Cloud]
  /\ {EvidenceLines, MaxEntries, StaleAfter, MaxDay, MaxScans, MaxSettings, MaxEdits} \subseteq Nat

\* A path is a name, never one of the values that stand for what is no text.
ASSUME VaultsAssumption ==
  \A v \in Vaults :
    /\ IsFiniteSet(DOMAIN v)
    /\ \A p \in DOMAIN v : /\ v[p].lines \in Seq(Range(v[p].lines))
                          /\ p \notin {"", "<true>", "<false>", "<list>", "<null>"}

VARIABLES
  vault, today,
  settings,    \* the provider chosen and the cloud providers acknowledged
  saves, edits,
  cache,       \* agentResultCache
  scan,        \* the scan under way, or the last one
  scans,
  answered     \* history: what models have answered, to what

governedVars == <<vault, today, settings, saves, edits, cache, scan, scans, answered>>

-----------------------------------------------------------------------------
\* The policy.

Operators  == {"required", "forbidden", "equals", "not_equals"}
Severities == {"info", "low", "medium", "high", "critical"}

\* What a scan accepts as its policy; it throws with any other.
ValidatePolicy ==
  /\ Policy.id # "" /\ Policy.version = 1
  /\ IsInjective(Policy.templates) /\ Range(Policy.templates) \subseteq DOMAIN Required
  /\ \A r \in Policy.rules :
       /\ r.id # "" /\ r.operator \in Operators /\ r.severity \in Severities
       /\ r.operator \in {"equals", "not_equals"} => r.value \notin {"", "<list>"}

Templates == IF Policy.enabled THEN Range(Policy.templates) ELSE {}
Rules     == IF Policy.enabled THEN Policy.rules ELSE {}

-----------------------------------------------------------------------------
\* The deterministic checks.

Has(note, field) == field \in DOMAIN note.fm
IsText(value)    == value \notin {"<true>", "<false>", "<list>"}
HasText(note, field) == Has(note, field) /\ IsText(note.fm[field])
StringOrNull(note, field) ==
  IF HasText(note, field) /\ note.fm[field] # "" THEN note.fm[field] ELSE "<null>"
PrimitiveOrNull(value) == IF value \in {"", "<list>"} THEN "<null>" ELSE value
IsKind(note, kind) == Has(note, "kind") /\ note.fm["kind"] = kind

At(path, place)  == [note |-> path, place |-> place, exact |-> TRUE]
Line(path, i)    == At(path, <<"line", i>>)
Field(path, f)   == At(path, <<"field", f>>)
ToEvidence(path) == Line(path, 1)

\* The issues of the tasks of a note.  A task without an id is named by its
\* line, and a date without a time lasts until the end of its day.
CheckTasks(note, now) ==
  LET Task(i)   == note.lines[i].task
      Parsed(i) == Task(i) /\ note.lines[i].parses
      Completed(t) == t.box \/ t.marked
  IN {<<i, "malformed">> : i \in {j \in DOMAIN note.lines : Task(j) /\ ~ Parsed(j)}} \cup
     UNION {LET t == note.lines[i]
            IN {<<i, what>> : what \in
                 {k \in {"duplicated", "completion-pending", "orphaned", "overdue", "abandoned"} :
                    CASE k = "duplicated" -> \E j \in 1..(i - 1) : Parsed(j) /\ t.id # "" /\ note.lines[j].id = t.id
                      [] k = "completion-pending" -> ~ t.box /\ t.marked
                      [] k = "orphaned"  -> ~ t.owned
                      [] k = "overdue"   -> ~ Completed(t) /\ t.due # 0 /\ t.due < now
                      [] k = "abandoned" -> ~ Completed(t) /\ t.abandoned}} :
            i \in {j \in DOMAIN note.lines : Parsed(j)}}

Decisions(v) == {d \in DOMAIN v : IsKind(v[d], "decision")}
Supersedes(v, d) == IF HasText(v[d], "supersedes") THEN v[d].fm["supersedes"] ELSE ""

\* Faulty: the walk notices only when it is back where it started.
OnSupersedesCycle(v, d) ==
  LET Steps == 0..Cardinality(Decisions(v))
      walk[i \in Steps] == IF i = 0 THEN d
                           ELSE IF walk[i - 1] \in Decisions(v) THEN Supersedes(v, walk[i - 1]) ELSE ""
  IN \E i \in Steps \ {0} : walk[i] = d

\* The walk along supersedes meets a decision again.
SupersedesCycle(v, d) ==
  LET Steps == 0..Cardinality(Decisions(v))
      walk[i \in Steps] == IF i = 0 THEN d
                           ELSE IF walk[i - 1] \in Decisions(v) THEN Supersedes(v, walk[i - 1]) ELSE ""
  IN \E i, j \in Steps : i < j /\ walk[i] = walk[j] /\ walk[i] \in Decisions(v) /\ Supersedes(v, walk[i]) # ""

CheckDecisions(v) ==
  LET Missing(d, field) == StringOrNull(v[d], field) \notin DOMAIN v \cup {"<null>"}
  IN {<<d, "missing-rationale">> : d \in {e \in Decisions(v) : StringOrNull(v[e], "rationale") = "<null>"}} \cup
     {<<d, "missing-target">> : d \in {e \in Decisions(v) : Missing(e, "project") \/ Missing(e, "relatedDecision")}} \cup
     {<<d, "supersedes-cycle">> : d \in {e \in Decisions(v) : SupersedesCycle(v, e)}}

\* The kind of a note decides, then its folder and headings if they agree.
ClassifyPolicyTemplateNote(note) ==
  IF HasText(note, "kind") /\ note.fm["kind"] \in DOMAIN Required THEN {note.fm["kind"]}
  ELSE IF Cardinality(note.hints) = 1 THEN note.hints ELSE {}

ValidatePolicyTemplateNote(note) ==
  UNION {{f \in Required[t] : ~ Has(note, f) \/ note.fm[f] = ""} :
         t \in ClassifyPolicyTemplateNote(note) \cap Templates}

\* The facts <<kind, field, path, value>>.  A field that is missing is a fact
\* of only three kinds.
ExtractPolicyFacts(v) ==
  LET Bool(b) == IF b THEN "<true>" ELSE "<false>"
      OpenTask(p) == \E t \in DOMAIN v : /\ IsKind(v[t], "task") /\ Has(v[t], "status") /\ v[t].fm["status"] = "open"
                                         /\ Has(v[t], "project") /\ v[t].fm["project"] = p
      Archived(p) == Has(v[p], "status") /\ v[p].fm["status"] = "archived"
      Approved(p) == Has(v[p], "status") /\ v[p].fm["status"] \in {"open", "in-progress", "done", "archived"}
      Of(p) == {<<v[p].fm["kind"], f, p, PrimitiveOrNull(v[p].fm[f])>> :
                  f \in IF HasText(v[p], "kind") THEN DOMAIN v[p].fm \ {"kind"} ELSE {}}
               \cup {<<k[1], k[2], p, StringOrNull(v[p], k[2])>> :
                       k \in {x \in {<<"project", "owner">>, <<"task", "due">>, <<"decision", "rationale">>} :
                                IsKind(v[p], x[1])}}
               \cup (IF IsKind(v[p], "project")
                     THEN {<<"project", "archived_open_tasks", p, Bool(Archived(p) /\ OpenTask(p))>>} ELSE {})
               \cup {<<"status", "approved", p, Bool(Approved(p))>>}
  IN UNION {Of(p) : p \in DOMAIN v}

Violates(rule, value) ==
  CASE rule.operator = "required"   -> value = "<null>"
    [] rule.operator = "forbidden"  -> value \notin {"<null>", "<false>"}
    [] rule.operator = "equals"     -> value # rule.value
    [] rule.operator = "not_equals" -> value = rule.value

EvaluatePolicies(v) ==
  LET Broken == {x \in Rules \X ExtractPolicyFacts(v) :
                   x[1].fact = <<x[2][1], x[2][2]>> /\ Violates(x[1], x[2][4])}
  IN {<<x[1], x[2][3]>> : x \in Broken}

\* What the evidence of a finding must be part of.
CollectActiveEvidence(v) ==
  UNION {{Line(p, i) : i \in {1} \cup {j \in 1..Len(v[p].lines) : j <= EvidenceLines}} \cup
         {Field(p, f) : f \in DOMAIN v[p].fm \cup UNION {Required[t] : t \in Templates}} : p \in DOMAIN v}

\* A finding, when all its evidence is at hand.
NormalizeFinding(v, type, severity, evidence) ==
  {f \in {[type |-> type, severity |-> severity, evidence |-> evidence]} :
     evidence # {} /\ evidence \subseteq CollectActiveEvidence(v)}

TaskFindings(v, now) ==
  UNION {UNION {NormalizeFinding(v, "task", IF x[2] = "overdue" THEN "medium" ELSE "low", {Line(p, x[1])}) :
                x \in CheckTasks(v[p], now)} : p \in DOMAIN v}

DecisionFindings(v) ==
  UNION {NormalizeFinding(v, "decision", "low", {Field(x[1], "kind")}) : x \in CheckDecisions(v)}

TemplateSchemaFindings(v) ==
  UNION {UNION {NormalizeFinding(v, "schema", "low", {Field(p, f)}) :
                f \in ValidatePolicyTemplateNote(v[p])} : p \in DOMAIN v}

PolicyFindings(v) ==
  UNION {NormalizeFinding(v, "policy", x[1].severity, {ToEvidence(x[2])}) : x \in EvaluatePolicies(v)}

DeterministicFindings(v, now) ==
  TaskFindings(v, now) \cup DecisionFindings(v) \cup TemplateSchemaFindings(v) \cup PolicyFindings(v)

-----------------------------------------------------------------------------
\* The routes, what they ask and what they accept.

Propositions(v) == {p \in DOMAIN v : HasText(v[p], "statement") /\ v[p].fm["statement"] # ""}
Records(v)      == {p \in DOMAIN v : HasText(v[p], "updatedAt")}
Ambiguous(v)    == {d \in Decisions(v) : StringOrNull(v[d], "rationale") = "<null>" \/ Supersedes(v, d) # ""}

SelectRoutes(v) ==
  LET When(some, route) == IF some THEN <<route>> ELSE <<>>
  IN When(DOMAIN v # {}, "entity") \o When(Cardinality(Propositions(v)) >= 2, "contradiction") \o
     When(Records(v) # {}, "staleness") \o When(Ambiguous(v) # {}, "decision")

IsStalenessEligible(v, p, now) ==
  /\ p \in Records(v)
  /\ now >= v[p].updated + StaleAfter
  /\ ~ (Has(v[p], "archival") /\ v[p].fm["archival"] = "<true>")
  /\ ~ (Has(v[p], "status") /\ v[p].fm["status"] = "archived")

\* The context a route is given, and the key of its result in the cache.
Context(route, v, now) ==
  CASE route = "entity"        -> [of |-> [p \in DOMAIN v |-> v[p].lines], now |-> 0]
    [] route = "contradiction" -> [of |-> Restrict(v, Propositions(v)), now |-> 0]
    [] route = "staleness"     -> [of |-> Restrict(v, Records(v)), now |-> now]
    [] route = "decision"      -> [of |-> [d \in Decisions(v) |-> v[d].fm], now |-> 0]

\* Faulty: the key does not name the provider.
CacheKeyUnscoped(providers, route, context) == [providers |-> <<>>, route |-> route, context |-> context]

CacheKey(providers, route, context) == [providers |-> providers, route |-> route, context |-> context]

Entries(route, v, now) ==
  CASE route = "entity" -> DOMAIN v
    [] route = "contradiction" -> Propositions(v)
    [] route = "staleness"     -> {p \in Records(v) : IsStalenessEligible(v, p, now)}
    [] route = "decision"      -> Ambiguous(v)

Truncated(route, v, now) ==
  IF Cardinality(Entries(route, v, now)) > MaxEntries THEN {"evidence-context-truncated"} ELSE {}

\* Faulty: a stale note is not checked for its age.
ValidateCited(route, v, now, candidates) ==
  {c \in candidates : c.route = route /\ c.explained /\ \A e \in c.evidence : e.note \in DOMAIN v}

\* The candidates a route keeps of an answer: two of the places it was given,
\* with two labels or statements, or one such place.
Validate(route, v, now, candidates) ==
  LET Given(c) == \A e \in c.evidence : e.note \in Entries(route, v, now) /\
                    e.place = (IF route = "decision" THEN <<"field", "kind">> ELSE <<"line", 1>>)
      Pair(c)  == Cardinality({<<e.note, e.place>> : e \in c.evidence}) = 2 /\ c.differ
  IN {c \in candidates :
        /\ c.route = route /\ Given(c)
        /\ route = "entity" => Pair(c)
        /\ route = "contradiction" => Pair(c) /\ c.explained
        /\ route \in {"staleness", "decision"} => Cardinality(c.evidence) = 1 /\ c.explained}

\* What becomes of a candidate: the entity agent's lose their explanation, and
\* the excerpt of a note must be quoted exactly.  A decision is cited as given.
NormalizeSemanticCandidate(v, c) ==
  IF c.route = "entity" THEN {}
  ELSE NormalizeFinding(v, c.route, "low",
         IF c.route = "decision" THEN {[e EXCEPT !.exact = TRUE] : e \in c.evidence} ELSE c.evidence)

-----------------------------------------------------------------------------
\* One request.

\* A response that answers, in one of the places where providers put text, or
\* one of no use: it is late, its status is an error, it was redirected, it
\* exceeds its limit while it is read, or it is not JSON.
Responses ==
  [transport : {"answers"}, field : {"message", "reasoning"}, text : Texts] \cup
  [transport : {"late", "refused", "redirected", "oversized", "malformed"}]

\* The text in an answer: only HyperFusion may put it where models put their
\* reasoning, and then it must be a complete JSON object.
OutputFor(config, response) ==
  CASE response.field = "message"   -> {response.text}
    [] response.field = "reasoning" ->
         IF Kind[config] = "hyperfusion" /\ response.text.form = "json" THEN {response.text} ELSE {}

Generate(config, response) ==
  IF response.transport = "answers" THEN OutputFor(config, response) ELSE {}

\* JSON, alone, in a fence or as the first value in other text.
Parse(text) == IF text.form \in {"json", "fenced", "embedded"} THEN {text} ELSE {}

IsOutput(text) == text.shaped

-----------------------------------------------------------------------------
Idle == [pc |-> "idle", vault |-> <<>>, now |-> 0, providers |-> <<>>, routes |-> <<>>,
         attempt |-> 0, candidates |-> {}, limitations |-> {}, reused |-> {}]

GovernedInit ==
  /\ vault \in Vaults /\ today = 1 /\ saves = 0 /\ edits = 0
  /\ settings \in [provider : Valid, consents : {{}, Cloud}]
  /\ cache = <<>> /\ scan = Idle /\ scans = 0 /\ answered = {}

Route == Head(scan.routes)
Key   == CacheKey(scan.providers, Route, Context(Route, scan.vault, scan.now))

CreateSelectedModelProvider ==
  Kind[settings.provider] \in Cloud => Kind[settings.provider] \in settings.consents

\* Without the acknowledgement or a valid policy the scan throws before it asks
\* anything.
StartScan ==
  /\ scan.pc \in {"idle", "over"} /\ scans < MaxScans
  /\ CreateSelectedModelProvider /\ ValidatePolicy
  /\ scan' = [Idle EXCEPT !.pc = "route", !.vault = vault, !.now = today,
                          !.providers = <<settings.provider>>, !.routes = SelectRoutes(vault)]
  /\ scans' = scans + 1
  /\ UNCHANGED <<vault, today, settings, saves, edits, cache, answered>>

\* The result of a route is added to that of the scan.
RouteDone(s, candidates, limitations) ==
  [s EXCEPT !.pc = "route", !.routes = Tail(@), !.candidates = @ \cup candidates,
            !.limitations = @ \cup limitations]

Reuse ==
  /\ scan.pc = "route" /\ scan.routes # <<>> /\ Key \in DOMAIN cache
  /\ scan' = [RouteDone(scan, cache[Key].candidates, cache[Key].limitations)
                EXCEPT !.reused = @ \cup {Route}]
  /\ UNCHANGED <<vault, today, settings, saves, edits, cache, scans, answered>>

Ask ==
  /\ scan.pc = "route" /\ scan.routes # <<>> /\ Key \notin DOMAIN cache
  /\ scan' = [scan EXCEPT !.pc = "asked", !.attempt = 0]
  /\ UNCHANGED <<vault, today, settings, saves, edits, cache, scans, answered>>

Provider == scan.providers[scan.attempt \div 2 + 1]

\* A parsed and valid answer ends the route and is cached.
AnswerValid(text) ==
  LET kept == [candidates  |-> Validate(Route, scan.vault, scan.now, text.candidates),
               limitations |-> Truncated(Route, scan.vault, scan.now)]
  IN /\ cache' = [k \in DOMAIN cache \cup {Key} |-> IF k = Key THEN kept ELSE cache[k]]
     /\ scan' = RouteDone(scan, kept.candidates, kept.limitations)
     /\ answered' = answered \cup {[provider |-> Provider, route |-> Route, candidates |-> text.candidates,
                                    context |-> Context(Route, scan.vault, scan.now)]}

\* Faulty: the providers are asked over and over.
AnswerFailsRound ==
  /\ scan' = [scan EXCEPT !.attempt = (@ + 1) % (2 * Len(scan.providers))]
  /\ UNCHANGED <<cache, answered>>

\* Faulty: the last failure leaves no limitation.
AnswerFailsUntold ==
  /\ scan' = IF scan.attempt + 1 < 2 * Len(scan.providers)
             THEN [scan EXCEPT !.attempt = @ + 1] ELSE RouteDone(scan, {}, {})
  /\ UNCHANGED <<cache, answered>>

\* An answer that is of no use, or none: the provider is asked once more, then
\* the next one; the last failure leaves a limitation that is not cached.
AnswerFails ==
  /\ scan' = IF scan.attempt + 1 < 2 * Len(scan.providers)
             THEN [scan EXCEPT !.attempt = @ + 1]
             ELSE RouteDone(scan, {}, {"local-model-output-unavailable"})
  /\ UNCHANGED <<cache, answered>>

Reply(response) ==
  /\ scan.pc = "asked"
  /\ LET parsed == UNION {Parse(t) : t \in Generate(Provider, response)}
     IN \/ \E t \in parsed : IsOutput(t) /\ AnswerValid(t)
        \/ (\A t \in parsed : ~ IsOutput(t)) /\ AnswerFails
  /\ UNCHANGED <<vault, today, settings, saves, edits, scans>>

\* Faulty: a scan whose model failed reports nothing.
RunGovernedScanNeedingModel(s) ==
  LET completed == s.providers # <<>> /\ "local-model-output-unavailable" \notin s.limitations
  IN [completed |-> completed, limitations |-> s.limitations,
      findings |-> IF completed
                   THEN DeterministicFindings(s.vault, s.now) \cup
                        UNION {NormalizeSemanticCandidate(s.vault, c) : c \in s.candidates}
                   ELSE {}]

\* Without a provider there is no result; a model that fails costs only the
\* semantic findings.
RunGovernedScan(s) ==
  LET completed == s.providers # <<>>
  IN [completed |-> completed, limitations |-> s.limitations,
      findings |-> IF completed
                   THEN DeterministicFindings(s.vault, s.now) \cup
                        UNION {NormalizeSemanticCandidate(s.vault, c) : c \in s.candidates}
                   ELSE {}]

Finish ==
  /\ scan.pc = "route" /\ scan.routes = <<>>
  /\ scan' = [scan EXCEPT !.pc = "over"]
  /\ UNCHANGED <<vault, today, settings, saves, edits, cache, scans, answered>>

ParsePluginSettings(next) ==
  [provider |-> IF next.provider \in Valid THEN next.provider ELSE Default,
   consents |-> next.consents \cap Cloud]

SaveSettings(next) ==
  /\ saves < MaxSettings /\ saves' = saves + 1
  /\ settings' = ParsePluginSettings(next) /\ cache' = <<>>
  /\ UNCHANGED <<vault, today, edits, scan, scans, answered>>

EditVault(next) ==
  /\ edits < MaxEdits /\ edits' = edits + 1 /\ vault' = next
  /\ UNCHANGED <<today, settings, saves, cache, scan, scans, answered>>

NextDay ==
  /\ today < MaxDay /\ today' = today + 1
  /\ UNCHANGED <<vault, settings, saves, edits, cache, scan, scans, answered>>

ScanStep == Reuse \/ Ask \/ (\E r \in Responses : Reply(r)) \/ Finish

GovernedNext ==
  \/ StartScan
  \/ ScanStep
  \/ \E next \in [provider : Configs, consents : {{}, Cloud}] : SaveSettings(next)
  \/ \E next \in Vaults : EditVault(next)
  \/ NextDay

\* A request ends: it is aborted when its provider's timeout is over.
GovernedSpec == GovernedInit /\ [][GovernedNext]_governedVars /\ WF_governedVars(ScanStep)

-----------------------------------------------------------------------------
\* Properties.

\* What a scan reports of its agents was said by the model it was to ask, about
\* the very content it has read, also when it was said in another scan, before
\* the user saved other settings, or edited the vault and back.
AnalysisOwned ==
  LET Said(r) == {a \in answered : /\ a.provider \in Range(scan.providers) /\ a.route = r
                                   /\ a.context = Context(r, scan.vault, scan.now)}
  IN /\ \A c \in scan.candidates : \E a \in Said(c.route) : c \in a.candidates
     /\ \A r \in scan.reused : Said(r) # {}

\* A finding of an agent cites what the scan has read, and a note it calls
\* stale is old and not archived on the day of that scan.
FindingsGrounded ==
  scan.pc = "over" =>
    \A f \in RunGovernedScan(scan).findings :
      /\ \A e \in f.evidence : e.note \in DOMAIN scan.vault /\ e.exact
      /\ f.type = "staleness" =>
           \A e \in f.evidence : /\ Has(scan.vault[e.note], "updatedAt")
                                 /\ scan.now >= scan.vault[e.note].updated + StaleAfter
                                 /\ Has(scan.vault[e.note], "archival") =>
                                      scan.vault[e.note].fm["archival"] # "<true>"
                                 /\ Has(scan.vault[e.note], "status") =>
                                      scan.vault[e.note].fm["status"] # "archived"

\* A scan that names no limitation has an answer to everything there was to
\* ask, from prompts that held all of it.
LimitationsTold ==
  scan.pc = "over" /\ scan.limitations = {} =>
    \A r \in Range(SelectRoutes(scan.vault)) :
      /\ \E a \in answered : a.route = r /\ a.context = Context(r, scan.vault, scan.now)
      /\ Cardinality(Entries(r, scan.vault, scan.now)) <= MaxEntries

\* Whatever the model does, a scan finds each overdue task in the lines that
\* count as evidence, each decision from which only decisions that supersede
\* others are reached, and each archived project that has an open task.
ChecksWhateverTheModel ==
  scan.pc = "over" =>
    LET v == scan.vault
        Found(type, e) == \E f \in RunGovernedScan(scan).findings : f.type = type /\ f.evidence = {e}
        Endless(D) == \A d \in D : \E e \in D : Has(v[d], "supersedes") /\ v[d].fm["supersedes"] = e
    IN /\ \A p \in DOMAIN v : \A i \in {j \in DOMAIN v[p].lines : j <= EvidenceLines} :
            LET l == v[p].lines[i]
            IN l.task /\ l.parses /\ ~ l.box /\ ~ l.marked /\ l.due \in 1..(scan.now - 1)
                 => Found("task", Line(p, i))
       /\ \A D \in SUBSET Decisions(v) : Endless(D) => \A d \in D : Found("decision", Field(d, "kind"))
       /\ \A p, t \in DOMAIN v :
            (/\ IsKind(v[p], "project") /\ Has(v[p], "status") /\ v[p].fm["status"] = "archived"
             /\ IsKind(v[t], "task") /\ Has(v[t], "status") /\ v[t].fm["status"] = "open"
             /\ Has(v[t], "project") /\ v[t].fm["project"] = p
             /\ \E r \in Rules : r.fact = <<"project", "archived_open_tasks">> /\ r.operator = "forbidden")
              => Found("policy", ToEvidence(p))

\* Every scan ends, although each route may ask each provider twice.
ScanEnds == scan.pc \in {"route", "asked"} ~> scan.pc = "over"

=============================================================================
