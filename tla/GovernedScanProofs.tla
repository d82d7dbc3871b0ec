------------------------- MODULE GovernedScanProofs -------------------------
(***************************************************************************)
(* Theorems of GovernedScan, for any contents of the vault, any policy,    *)
(* any providers and whatever their models answer.                         *)
(***************************************************************************)
EXTENDS GovernedScan, FiniteSetTheorems, WellFoundedInduction, TLAPS

-----------------------------------------------------------------------------
(* The deterministic checks find what they are to find.                    *)

\* A set of numbers with zero that is closed under successor has every number.
LEMMA EveryNumber ==
  ASSUME NEW S \in SUBSET Nat, 0 \in S, \A n \in S : n + 1 \in S
  PROVE  S = Nat
<1>. DEFINE Less == {ss \in Nat \X Nat : ss[1] < ss[2]}
<1>1. IsWellFoundedOn(Less, Nat)
  BY NatLessThanWellFounded DEF OpToRel
<1>2. SUFFICES ASSUME Nat \ S # {} PROVE FALSE
  OBVIOUS
<1>3. PICK n \in Nat \ S : \A m \in Nat \ S : ~ (<<m, n>> \in Less)
  <2>. HIDE DEF Less
  <2>1. Nat \ S \subseteq Nat
    OBVIOUS
  <2>. QED BY <1>1, <1>2, <2>1, WFMin
<1>4. n # 0 /\ n - 1 \in Nat /\ n - 1 < n
  OBVIOUS
<1>5. n - 1 \notin S
  <2>1. (n - 1) + 1 = n
    BY <1>4
  <2>. QED BY <2>1, <1>4
<1>6. <<n - 1, n>> \in Less
  BY <1>4
<1>. QED BY <1>3, <1>4, <1>5, <1>6

\* An open task that is overdue is an issue of its note.
LEMMA OverdueIsIssue ==
  ASSUME NEW note, NEW now \in Nat, NEW i \in DOMAIN note.lines,
         note.lines[i].task, note.lines[i].parses, ~ note.lines[i].box, ~ note.lines[i].marked,
         note.lines[i].due \in 1..(now - 1)
  PROVE  <<i, "overdue">> \in CheckTasks(note, now)
<1>. DEFINE Task(j) == note.lines[j].task
            Parsed(j) == Task(j) /\ note.lines[j].parses
            Completed(t) == t.box \/ t.marked
            Kinds(j) ==
              {k \in {"duplicated", "completion-pending", "orphaned", "overdue", "abandoned"} :
                 CASE k = "duplicated" -> \E l \in 1..(j - 1) : Parsed(l) /\ note.lines[j].id # ""
                                                                 /\ note.lines[l].id = note.lines[j].id
                   [] k = "completion-pending" -> ~ note.lines[j].box /\ note.lines[j].marked
                   [] k = "orphaned"  -> ~ note.lines[j].owned
                   [] k = "overdue"   -> ~ Completed(note.lines[j]) /\ note.lines[j].due # 0 /\ note.lines[j].due < now
                   [] k = "abandoned" -> ~ Completed(note.lines[j]) /\ note.lines[j].abandoned}
            Issues(j) == {<<j, what>> : what \in Kinds(j)}
            Malformed == {<<j, "malformed">> : j \in {l \in DOMAIN note.lines : Task(l) /\ ~ Parsed(l)}}
<1>1. CheckTasks(note, now) = Malformed \cup UNION {Issues(j) : j \in {l \in DOMAIN note.lines : Parsed(l)}}
  BY Zenon DEF CheckTasks
<1>2. note.lines[i].due # 0 /\ note.lines[i].due < now
  OBVIOUS
<1>3. "overdue" \in Kinds(i)
  BY <1>2
<1>4. <<i, "overdue">> \in Issues(i)
  BY <1>3
<1>5. Parsed(i)
  OBVIOUS
<1>. HIDE DEF Issues, Malformed, Parsed
<1>. QED BY <1>1, <1>4, <1>5

\* A fact that violates a rule is reported with its note.
LEMMA ViolationIsReported ==
  ASSUME NEW v, NEW r \in Rules, NEW kind, NEW field, NEW p, NEW value,
         <<kind, field, p, value>> \in ExtractPolicyFacts(v),
         r.fact = <<kind, field>>, Violates(r, value)
  PROVE  <<r, p>> \in EvaluatePolicies(v)
<1>. DEFINE f == <<kind, field, p, value>>
            x == <<r, f>>
            Broken == {y \in Rules \X ExtractPolicyFacts(v) :
                         y[1].fact = <<y[2][1], y[2][2]>> /\ Violates(y[1], y[2][4])}
<1>1. x \in Rules \X ExtractPolicyFacts(v) /\ x[1] = r /\ x[2] = f
  OBVIOUS
<1>2. f[1] = kind /\ f[2] = field /\ f[3] = p /\ f[4] = value
  OBVIOUS
<1>3. x \in Broken
  BY <1>1, <1>2
<1>4. <<x[1], x[2][3]>> \in EvaluatePolicies(v)
  BY <1>3, Zenon DEF EvaluatePolicies
<1>. QED BY <1>1, <1>2, <1>4

\* The next decision of a walk.
Successor(v, d) == IF d \in Decisions(v) THEN Supersedes(v, d) ELSE ""

\* The walk from d of which SupersedesCycle speaks.
IsWalk(v, d, walk) ==
  walk = [i \in 0..Cardinality(Decisions(v)) |-> IF i = 0 THEN d ELSE Successor(v, walk[i - 1])]

\* There is such a walk.
LEMMA WalkExists ==
  ASSUME NEW v, NEW d, Cardinality(Decisions(v)) \in Nat
  PROVE  \E walk : IsWalk(v, d, walk)
<1>. DEFINE N == Cardinality(Decisions(v))
            Walks(n, g) == /\ g = [i \in 0..n |-> g[i]] /\ g[0] = d
                           /\ \A i \in 1..n : g[i] = Successor(v, g[i - 1])
            S == {n \in Nat : \E g : Walks(n, g)}
<1>1. 0 \in S
  <2>. DEFINE g == [i \in 0..0 |-> d]
  <2>1. Walks(0, g)
    OBVIOUS
  <2>. QED BY <2>1
<1>2. ASSUME NEW n \in S PROVE n + 1 \in S
  <2>1. PICK g : Walks(n, g)
    OBVIOUS
  <2>. DEFINE h == [i \in 0..(n + 1) |-> IF i = n + 1 THEN Successor(v, g[n]) ELSE g[i]]
  <2>2. h = [i \in 0..(n + 1) |-> h[i]] /\ h[0] = d
    BY <2>1
  <2>3. ASSUME NEW i \in 1..(n + 1) PROVE h[i] = Successor(v, h[i - 1])
    <3>1. CASE i = n + 1
      <4>1. h[i] = Successor(v, g[n]) /\ h[i - 1] = g[n]
        BY <3>1
      <4>. QED BY <4>1
    <3>2. CASE i # n + 1
      <4>1. i \in 1..n /\ i - 1 \in 0..n /\ h[i] = g[i] /\ h[i - 1] = g[i - 1]
        BY <3>2
      <4>. QED BY <4>1, <2>1
    <3>. QED BY <3>1, <3>2
  <2>4. Walks(n + 1, h)
    BY <2>2, <2>3
  <2>5. n + 1 \in Nat
    OBVIOUS
  <2>. HIDE DEF h, Walks
  <2>. QED BY <2>4, <2>5
<1>3. S = Nat
  <2>. HIDE DEF S
  <2>1. S \subseteq Nat
    BY DEF S
  <2>. QED BY <1>1, <1>2, <2>1, EveryNumber
<1>4. PICK g : Walks(N, g)
  <2>1. N \in S
    BY <1>3
  <2>. HIDE DEF Walks, N
  <2>. QED BY <2>1
<1>5. \A i \in 0..N : g[i] = IF i = 0 THEN d ELSE Successor(v, g[i - 1])
  <2>1. N \in Nat /\ g[0] = d /\ \A i \in 1..N : g[i] = Successor(v, g[i - 1])
    BY <1>4
  <2>. HIDE DEF N
  <2>2. \A i \in 0..N : i = 0 \/ i \in 1..N
    BY <2>1
  <2>3. \A i \in 1..N : i # 0
    BY <2>1
  <2>. QED BY <2>1, <2>2, <2>3
<1>6. IsWalk(v, d, g)
  <2>. HIDE DEF N
  <2>1. g = [i \in 0..N |-> g[i]]
    BY <1>4
  <2>2. [i \in 0..N |-> g[i]] = [i \in 0..N |-> IF i = 0 THEN d ELSE Successor(v, g[i - 1])]
    BY <1>5
  <2>. QED BY <2>1, <2>2 DEF IsWalk, N
<1>. QED BY <1>6

\* Decisions from which only decisions that supersede others are reached are on
\* a walk that meets one of them again.
LEMMA CyclesAreFound ==
  ASSUME NEW v \in Vaults, NEW D \in SUBSET Decisions(v), NEW d \in D,
         \A x \in D : \E y \in D : Has(v[x], "supersedes") /\ v[x].fm["supersedes"] = y
  PROVE  SupersedesCycle(v, d)
<1>. DEFINE N == Cardinality(Decisions(v))
<1>1. IsFiniteSet(Decisions(v)) /\ N \in Nat
  <2>1. IsFiniteSet(DOMAIN v) /\ Decisions(v) \subseteq DOMAIN v
    BY VaultsAssumption DEF Decisions
  <2>. QED BY <2>1, FS_Subset, FS_CardinalityType
<1>2. IsFiniteSet(D) /\ Cardinality(D) \in Nat /\ Cardinality(D) <= N
  BY <1>1, FS_Subset, FS_CardinalityType
<1>3. IsFiniteSet(0..N) /\ Cardinality(0..N) = N + 1
  BY <1>1, FS_Interval
<1>4. \A x \in D : Successor(v, x) \in D /\ Supersedes(v, x) # ""
  <2>. TAKE x \in D
  <2>1. PICK y \in D : Has(v[x], "supersedes") /\ v[x].fm["supersedes"] = y
    OBVIOUS
  <2>2. y \notin {"", "<true>", "<false>", "<list>"}
    BY VaultsAssumption DEF Decisions
  <2>3. Supersedes(v, x) = y
    BY <2>1, <2>2 DEF Supersedes, HasText, IsText
  <2>. QED BY <2>2, <2>3 DEF Successor
<1>5. ASSUME NEW walk, IsWalk(v, d, walk)
      PROVE  \E i, j \in 0..N : /\ i < j /\ walk[i] = walk[j] /\ walk[i] \in Decisions(v)
                                /\ Supersedes(v, walk[i]) # ""
  <2>. DEFINE S == {n \in Nat : n <= N => walk[n] \in D}
  <2>0. \A i \in 0..N : walk[i] = IF i = 0 THEN d ELSE Successor(v, walk[i - 1])
    BY <1>5 DEF IsWalk
  <2>1. 0 \in S
    BY <2>0, <1>1
  <2>2. ASSUME NEW n \in S PROVE n + 1 \in S
    <3>1. SUFFICES ASSUME n + 1 <= N PROVE walk[n + 1] \in D
      OBVIOUS
    <3>2. n <= N /\ n + 1 \in 0..N /\ n + 1 # 0 /\ (n + 1) - 1 = n
      BY <1>1, <3>1
    <3>3. walk[n] \in D
      BY <3>2
    <3>4. walk[n + 1] = Successor(v, walk[n])
      BY <2>0, <3>2
    <3>. QED BY <3>3, <3>4, <1>4
  <2>3. S = Nat
    <3>. HIDE DEF S
    <3>1. S \subseteq Nat
      BY DEF S
    <3>. QED BY <2>1, <2>2, <3>1, EveryNumber
  <2>4. \A n \in 0..N : walk[n] \in D
    BY <2>3, <1>1
  <2>5. walk \in [0..N -> D]
    <3>1. walk = [i \in 0..N |-> IF i = 0 THEN d ELSE Successor(v, walk[i - 1])]
      BY <1>5 DEF IsWalk
    <3>. HIDE DEF N
    <3>. QED BY <2>4, <3>1
  <2>6. PICK i \in 0..N, j \in 0..N : i # j /\ walk[i] = walk[j]
    <3>1. Cardinality(D) < Cardinality(0..N)
      BY <1>1, <1>2, <1>3
    <3>2. IsFiniteSet(0..N) /\ IsFiniteSet(D)
      BY <1>2, <1>3
    <3>. DEFINE I == 0..N
    <3>3. Cardinality(D) < Cardinality(I) /\ IsFiniteSet(I) /\ walk \in [I -> D]
      BY <2>5, <3>1, <3>2
    <3>. HIDE DEF I
    <3>4. \E i, j \in I : i # j /\ walk[i] = walk[j]
      BY <3>2, <3>3, FS_PigeonHole
    <3>. QED BY <3>4 DEF I
  <2>7. /\ walk[i] \in Decisions(v) /\ Supersedes(v, walk[i]) # ""
        /\ walk[j] \in Decisions(v) /\ Supersedes(v, walk[j]) # ""
    BY <2>4, <1>4
  <2>8. i < j \/ j < i
    BY <1>1, <2>6
  <2>. QED BY <2>6, <2>7, <2>8
<1>6. \E walk : IsWalk(v, d, walk)
  BY <1>1, WalkExists
<1>. DEFINE walk == CHOOSE w : w = [i \in 0..N |-> IF i = 0 THEN d
                                    ELSE IF w[i - 1] \in Decisions(v) THEN Supersedes(v, w[i - 1]) ELSE ""]
<1>7. IsWalk(v, d, walk)
  BY <1>6 DEF IsWalk, Successor
<1>8. PICK i \in 0..N, j \in 0..N : /\ i < j /\ walk[i] = walk[j] /\ walk[i] \in Decisions(v)
                                    /\ Supersedes(v, walk[i]) # ""
  <2>. HIDE DEF walk, N
  <2>. QED BY <1>5, <1>7 DEF N
<1>. QED BY <1>8, Zenon DEF SupersedesCycle

-----------------------------------------------------------------------------
(* The inductive invariant.                                                *)

Routes      == {"entity", "contradiction", "staleness", "decision"}
Limitations == {"evidence-context-truncated", "local-model-output-unavailable"}
Candidates  == UNION {t.candidates : t \in Texts}

ScanRecord ==
  [pc : {"idle", "route", "asked", "over"}, vault : Vaults \cup {<<>>}, now : Nat,
   providers : Seq(Valid), routes : Seq(Routes), attempt : Nat,
   candidates : SUBSET Candidates, limitations : SUBSET Limitations, reused : SUBSET Routes]

GovernedTypeOK ==
  /\ vault \in Vaults /\ today \in Nat
  /\ settings.provider \in Valid
  /\ scan \in ScanRecord
  /\ \A a \in answered : a.candidates \subseteq Candidates
  /\ scan = Idle \/ (scan.vault \in Vaults /\ scan.providers # <<>>)
  /\ scan.pc = "asked" => scan.routes # <<>> /\ scan.attempt < 2 * Len(scan.providers)
  /\ scan.pc = "over" => scan.routes = <<>>

\* The notes of a candidate were entries of the prompt.
Cites(c, v, now) == \A e \in c.evidence : e.note \in Entries(c.route, v, now)

\* A result in the cache was said by a provider of its key, and is right for
\* every content of the vault and day that give the context of its key.
SoundResult(k, result, said) ==
  /\ \E a \in said : /\ a.provider \in Range(k.providers) /\ a.route = k.route
                     /\ a.context = k.context /\ result.candidates \subseteq a.candidates
  /\ \A v \in Vaults, now \in Nat :
       Context(k.route, v, now) = k.context =>
         /\ \A c \in result.candidates : c.route = k.route /\ Cites(c, v, now)
         /\ result.limitations = Truncated(k.route, v, now)

CacheSound == \A k \in DOMAIN cache : SoundResult(k, cache[k], answered)

\* What models of a scan's providers have said of a route.
Said(s, said, r) == {a \in said : /\ a.provider \in Range(s.providers) /\ a.route = r
                                  /\ a.context = Context(r, s.vault, s.now)}

\* A route has its whole answer.
Told(s, said, r) ==
  /\ \E a \in said : a.route = r /\ a.context = Context(r, s.vault, s.now)
  /\ Cardinality(Entries(r, s.vault, s.now)) <= MaxEntries

SoundCandidate(s, said, c) == (\E a \in Said(s, said, c.route) : c \in a.candidates) /\ Cites(c, s.vault, s.now)

\* A scan has what was said to it, and of each of its routes the whole answer,
\* or it is still to be asked, unless the scan names a limitation.
SoundScan(s, said) ==
  /\ \A c \in s.candidates : SoundCandidate(s, said, c)
  /\ \A r \in s.reused : Said(s, said, r) # {}
  /\ s # Idle /\ s.limitations = {} =>
       \A r \in Range(SelectRoutes(s.vault)) : r \in Range(s.routes) \/ Told(s, said, r)

ScanSound == SoundScan(scan, answered)

GovernedInv == GovernedTypeOK /\ CacheSound /\ ScanSound

-----------------------------------------------------------------------------
(* Lemmas about the operators.                                             *)

\* The routes of a scan are routes.
LEMMA SelectedRoutes ==
  ASSUME NEW v
  PROVE  SelectRoutes(v) \in Seq(Routes)
<1>. DEFINE When(some, route) == IF some THEN <<route>> ELSE <<>>
<1>1. \A some \in BOOLEAN, route \in Routes : When(some, route) \in Seq(Routes)
  OBVIOUS
<1>2. \A s, t \in Seq(Routes) : s \o t \in Seq(Routes)
  OBVIOUS
<1>3. /\ When(DOMAIN v # {}, "entity") \in Seq(Routes)
      /\ When(Cardinality(Propositions(v)) >= 2, "contradiction") \in Seq(Routes)
      /\ When(Records(v) # {}, "staleness") \in Seq(Routes)
      /\ When(Ambiguous(v) # {}, "decision") \in Seq(Routes)
  <2>1. \A route \in Routes : <<route>> \in Seq(Routes) /\ <<>> \in Seq(Routes)
    OBVIOUS
  <2>2. {"entity", "contradiction", "staleness", "decision"} \subseteq Routes
    BY DEF Routes
  <2>. QED BY <2>1, <2>2, Zenon
<1>4. SelectRoutes(v) = When(DOMAIN v # {}, "entity") \o When(Cardinality(Propositions(v)) >= 2, "contradiction") \o
                        When(Records(v) # {}, "staleness") \o When(Ambiguous(v) # {}, "decision")
  BY Zenon DEF SelectRoutes
<1>. HIDE DEF When
<1>. QED BY <1>2, <1>3, <1>4

\* What a route asks about is decided by its context: a result that is cached
\* under a context is about the same entries, however else the vault differs.
LEMMA ContextDeterminesEntries ==
  ASSUME NEW route \in Routes, NEW v, NEW w, NEW m, NEW n,
         Context(route, v, m) = Context(route, w, n)
  PROVE  Entries(route, v, m) = Entries(route, w, n)
<1>1. CASE route = "entity"
  <2>1. [p \in DOMAIN v |-> v[p].lines] = [p \in DOMAIN w |-> w[p].lines]
    BY <1>1 DEF Context
  <2>2. DOMAIN v = DOMAIN w
    BY <2>1
  <2>. QED BY <1>1, <2>2 DEF Entries
<1>2. CASE route = "contradiction"
  <2>1. Restrict(v, Propositions(v)) = Restrict(w, Propositions(w))
    BY <1>2 DEF Context
  <2>2. Propositions(v) = Propositions(w)
    BY <2>1 DEF Restrict
  <2>. QED BY <1>2, <2>2 DEF Entries
<1>3. CASE route = "staleness"
  <2>1. Restrict(v, Records(v)) = Restrict(w, Records(w)) /\ m = n
    BY <1>3 DEF Context
  <2>2. Records(v) = Records(w)
    BY <2>1 DEF Restrict
  <2>3. \A p \in Records(v) : v[p] = w[p]
    BY <2>1, <2>2 DEF Restrict
  <2>4. \A p \in Records(v) : IsStalenessEligible(v, p, m) <=> IsStalenessEligible(w, p, n)
    BY <2>1, <2>2, <2>3 DEF IsStalenessEligible
  <2>. QED BY <1>3, <2>2, <2>4 DEF Entries
<1>4. CASE route = "decision"
  <2>1. [d \in Decisions(v) |-> v[d].fm] = [d \in Decisions(w) |-> w[d].fm]
    BY <1>4 DEF Context
  <2>2. Decisions(v) = Decisions(w)
    BY <2>1
  <2>3. \A d \in Decisions(v) : v[d].fm = w[d].fm
    BY <2>1, <2>2
  <2>4. \A d \in Decisions(v) : /\ StringOrNull(v[d], "rationale") = StringOrNull(w[d], "rationale")
                                /\ Supersedes(v, d) = Supersedes(w, d)
    BY <2>3 DEF StringOrNull, Supersedes, HasText, Has
  <2>5. Ambiguous(v) = Ambiguous(w)
    BY <2>2, <2>4 DEF Ambiguous
  <2>. QED BY <1>4, <2>5 DEF Entries
<1>. QED BY <1>1, <1>2, <1>3, <1>4 DEF Routes

\* The entries of a prompt are notes of the vault, finitely many.
LEMMA EntriesAreNotes ==
  ASSUME NEW v \in Vaults, NEW now, NEW route \in Routes
  PROVE  Entries(route, v, now) \subseteq DOMAIN v /\ Cardinality(Entries(route, v, now)) \in Nat
<1>1. Entries(route, v, now) \subseteq DOMAIN v
  BY DEF Entries, Routes, Propositions, Records, Ambiguous, Decisions
<1>. QED BY <1>1, VaultsAssumption, FS_Subset, FS_CardinalityType

\* A prompt that names no truncation held every entry.
LEMMA NotTruncated ==
  ASSUME NEW v \in Vaults, NEW now, NEW route \in Routes, Truncated(route, v, now) = {}
  PROVE  Cardinality(Entries(route, v, now)) <= MaxEntries
<1>1. MaxEntries \in Nat
  BY GovernedAssumption
<1>. QED BY <1>1, EntriesAreNotes DEF Truncated

\* What a route keeps is its own and cites what it was given.
LEMMA KeptCites ==
  ASSUME NEW route, NEW v, NEW now, NEW candidates, NEW c \in Validate(route, v, now, candidates)
  PROVE  c \in candidates /\ c.route = route /\ Cites(c, v, now)
BY DEF Validate, Cites

\* A text that is used is one that a model may say.
LEMMA ParsedIsText ==
  ASSUME NEW response \in Responses, NEW config, NEW t \in UNION {Parse(x) : x \in Generate(config, response)}
  PROVE  t \in Texts
<1>1. PICK x \in Generate(config, response) : t \in Parse(x)
  OBVIOUS
<1>2. t = x
  BY <1>1 DEF Parse
<1>3. response.transport = "answers" /\ x \in OutputFor(config, response)
  BY <1>1 DEF Generate
<1>4. response.text \in Texts /\ response.field \in {"message", "reasoning"}
  BY <1>3 DEF Responses
<1>5. x = response.text
  BY <1>3, <1>4 DEF OutputFor
<1>. QED BY <1>2, <1>4, <1>5

\* The provider that is asked is one of the scan's.
LEMMA ProviderIsOwn ==
  ASSUME GovernedTypeOK, scan.pc = "asked"
  PROVE  Provider \in Range(scan.providers)
<1>1. scan.providers \in Seq(Valid) /\ scan.attempt \in Nat /\ scan.attempt < 2 * Len(scan.providers)
  BY DEF GovernedTypeOK, ScanRecord
<1>2. scan.attempt \div 2 + 1 \in 1..Len(scan.providers)
  BY <1>1
<1>3. scan.attempt \div 2 + 1 \in DOMAIN scan.providers
  BY <1>1, <1>2
<1>. QED BY <1>3, Zenon DEF Provider, Range

\* The first route and the others are the routes that are left.
LEMMA RouteAndRest ==
  ASSUME NEW s \in Seq(Routes), s # <<>>
  PROVE  /\ Head(s) \in Routes /\ Tail(s) \in Seq(Routes)
         /\ Range(s) = {Head(s)} \cup Range(Tail(s))
<1>1. Head(s) \in Routes /\ Tail(s) \in Seq(Routes) /\ Len(s) >= 1 /\ Len(Tail(s)) = Len(s) - 1
  OBVIOUS
<1>2. ASSUME NEW r \in Range(s) PROVE r \in {Head(s)} \cup Range(Tail(s))
  <2>1. PICK i \in 1..Len(s) : r = s[i]
    BY DEF Range
  <2>2. CASE i = 1
    BY <2>1, <2>2
  <2>3. CASE i # 1
    <3>1. i - 1 \in DOMAIN Tail(s) /\ Tail(s)[i - 1] = s[i]
      BY <1>1, <2>3
    <3>. QED BY <2>1, <3>1 DEF Range
  <2>. QED BY <2>2, <2>3
<1>3. ASSUME NEW r \in {Head(s)} \cup Range(Tail(s)) PROVE r \in Range(s)
  <2>1. CASE r = Head(s)
    <3>1. 1 \in DOMAIN s /\ r = s[1]
      BY <1>1, <2>1
    <3>. QED BY <3>1 DEF Range
  <2>2. CASE r \in Range(Tail(s))
    <3>1. PICK i \in 1..Len(Tail(s)) : r = Tail(s)[i]
      BY <1>1, <2>2 DEF Range
    <3>2. i + 1 \in DOMAIN s /\ r = s[i + 1]
      BY <1>1, <3>1
    <3>. QED BY <3>2 DEF Range
  <2>. QED BY <2>1, <2>2
<1>. QED BY <1>1, <1>2, <1>3

-----------------------------------------------------------------------------
(* Types.                                                                  *)

\* The scan after a route: it has one route less.
LEMMA RouteDoneTypes ==
  ASSUME GovernedTypeOK, scan.pc \in {"route", "asked"}, scan.routes # <<>>,
         NEW candidates \in SUBSET Candidates, NEW limitations \in SUBSET Limitations
  PROVE  LET s == RouteDone(scan, candidates, limitations)
         IN /\ s \in ScanRecord
            /\ s.pc = "route" /\ s.vault = scan.vault /\ s.now = scan.now /\ s.providers = scan.providers
            /\ s.routes = Tail(scan.routes) /\ s.reused = scan.reused
            /\ s.candidates = scan.candidates \cup candidates
            /\ s.limitations = scan.limitations \cup limitations
            /\ s # Idle /\ scan # Idle
<1>1. scan \in ScanRecord
  BY DEF GovernedTypeOK
<1>2. scan.routes \in Seq(Routes)
  BY <1>1 DEF ScanRecord
<1>3. Tail(scan.routes) \in Seq(Routes)
  BY <1>2
<1>4. scan.candidates \cup candidates \in SUBSET Candidates
      /\ scan.limitations \cup limitations \in SUBSET Limitations
  BY <1>1 DEF ScanRecord
<1>. DEFINE s == RouteDone(scan, candidates, limitations)
<1>5. /\ s.pc = "route" /\ s.vault = scan.vault /\ s.now = scan.now /\ s.providers = scan.providers
      /\ s.routes = Tail(scan.routes) /\ s.reused = scan.reused
      /\ s.candidates = scan.candidates \cup candidates
      /\ s.limitations = scan.limitations \cup limitations
  BY <1>1 DEF RouteDone, ScanRecord
<1>6. s \in ScanRecord
  BY <1>1, <1>3, <1>4 DEF RouteDone, ScanRecord
<1>7. s # Idle /\ scan # Idle
  BY <1>5 DEF Idle
<1>. QED BY <1>5, <1>6, <1>7

\* No scan has started.
LEMMA TypesInit ==
  ASSUME GovernedInit
  PROVE  GovernedTypeOK
<1>1. Idle \in ScanRecord
  BY DEF Idle, ScanRecord
<1>. QED BY <1>1 DEF GovernedInit, GovernedTypeOK, Idle

\* A scan starts with all its routes and nothing said.
LEMMA TypesStart ==
  ASSUME GovernedTypeOK, StartScan
  PROVE  /\ GovernedTypeOK'
         /\ scan'.vault = vault /\ scan'.now = today /\ scan'.routes = SelectRoutes(vault)
         /\ scan'.candidates = {} /\ scan'.reused = {} /\ scan'.pc = "route"
<1>1. scan' = [Idle EXCEPT !.pc = "route", !.vault = vault, !.now = today,
                          !.providers = <<settings.provider>>, !.routes = SelectRoutes(vault)]
  BY DEF StartScan
<1>2. SelectRoutes(vault) \in Seq(Routes)
  BY SelectedRoutes
<1>3. <<settings.provider>> \in Seq(Valid) /\ vault \in Vaults /\ today \in Nat
  BY DEF GovernedTypeOK
<1>4. /\ scan'.vault = vault /\ scan'.now = today /\ scan'.routes = SelectRoutes(vault)
      /\ scan'.candidates = {} /\ scan'.reused = {} /\ scan'.pc = "route"
      /\ scan'.providers = <<settings.provider>>
  BY <1>1 DEF Idle
<1>5. scan' \in ScanRecord
  BY <1>1, <1>2, <1>3 DEF Idle, ScanRecord
<1>6. UNCHANGED <<vault, today, settings, answered>>
  BY DEF StartScan
<1>7. GovernedTypeOK'
  BY <1>3, <1>4, <1>5, <1>6 DEF GovernedTypeOK
<1>. QED BY <1>4, <1>7

\* The results in the cache are of models' answers.
LEMMA CachedTypes ==
  ASSUME GovernedInv, NEW k \in DOMAIN cache, k.route \in Routes,
         NEW v \in Vaults, NEW now \in Nat, k.context = Context(k.route, v, now)
  PROVE  cache[k].candidates \in SUBSET Candidates /\ cache[k].limitations \in SUBSET Limitations
<1>1. PICK a \in answered : cache[k].candidates \subseteq a.candidates
  BY DEF GovernedInv, CacheSound, SoundResult
<1>2. a.candidates \subseteq Candidates
  BY DEF GovernedInv, GovernedTypeOK
<1>3. cache[k].limitations = Truncated(k.route, v, now)
  BY DEF GovernedInv, CacheSound, SoundResult
<1>. QED BY <1>1, <1>2, <1>3 DEF Truncated, Limitations

\* The key of the route that is next.
LEMMA KeyParts ==
  Key.providers = scan.providers /\ Key.route = Route /\ Key.context = Context(Route, scan.vault, scan.now)
BY DEF Key, CacheKey

\* A scan that has routes left knows its vault.
LEMMA RunningScan ==
  ASSUME GovernedTypeOK, scan.pc \in {"route", "asked"}
  PROVE  /\ scan # Idle /\ scan.vault \in Vaults /\ scan.now \in Nat /\ scan.providers \in Seq(Valid)
         /\ scan.routes \in Seq(Routes) /\ scan.providers # <<>>
<1>1. scan # Idle
  BY DEF Idle
<1>2. scan \in ScanRecord
  BY DEF GovernedTypeOK
<1>. QED BY <1>1, <1>2 DEF GovernedTypeOK, ScanRecord

\* A result that is looked up is added, and its route is done.
LEMMA TypesReuse ==
  ASSUME GovernedInv, Reuse
  PROVE  /\ GovernedTypeOK' /\ scan # Idle
         /\ scan'.vault = scan.vault /\ scan'.now = scan.now /\ scan'.providers = scan.providers
         /\ scan'.routes = Tail(scan.routes) /\ scan'.reused = scan.reused \cup {Route}
         /\ scan'.candidates = scan.candidates \cup cache[Key].candidates
         /\ scan'.limitations = scan.limitations \cup cache[Key].limitations
<1>0. GovernedTypeOK /\ scan.pc = "route" /\ scan.routes # <<>> /\ Key \in DOMAIN cache
  BY DEF Reuse, GovernedInv
<1>1. scan.vault \in Vaults /\ scan.now \in Nat /\ scan.routes \in Seq(Routes) /\ scan.providers # <<>>
  BY <1>0, RunningScan
<1>2. Route \in Routes
  BY <1>0, <1>1 DEF Route
<1>3. cache[Key].candidates \in SUBSET Candidates /\ cache[Key].limitations \in SUBSET Limitations
  BY <1>0, <1>1, <1>2, KeyParts, CachedTypes
<1>. DEFINE s == RouteDone(scan, cache[Key].candidates, cache[Key].limitations)
<1>4. /\ s \in ScanRecord
      /\ s.pc = "route" /\ s.vault = scan.vault /\ s.now = scan.now /\ s.providers = scan.providers
      /\ s.routes = Tail(scan.routes) /\ s.reused = scan.reused
      /\ s.candidates = scan.candidates \cup cache[Key].candidates
      /\ s.limitations = scan.limitations \cup cache[Key].limitations
      /\ s # Idle /\ scan # Idle
  BY <1>0, <1>3, RouteDoneTypes
<1>5. scan' = [s EXCEPT !.reused = @ \cup {Route}] /\ UNCHANGED <<vault, today, settings, answered>>
  BY DEF Reuse
<1>. HIDE DEF s
<1>6. /\ scan' \in ScanRecord
      /\ scan'.pc = "route" /\ scan'.vault = s.vault /\ scan'.now = s.now /\ scan'.providers = s.providers
      /\ scan'.routes = s.routes /\ scan'.reused = s.reused \cup {Route}
      /\ scan'.candidates = s.candidates /\ scan'.limitations = s.limitations
  BY <1>2, <1>4, <1>5 DEF ScanRecord
<1>7. GovernedTypeOK'
  BY <1>0, <1>1, <1>4, <1>5, <1>6 DEF GovernedTypeOK
<1>. QED BY <1>4, <1>6, <1>7

\* A step that adds nothing to the result of the scan.
Unchanged ==
  /\ scan # Idle /\ scan'.vault = scan.vault /\ scan'.now = scan.now /\ scan'.providers = scan.providers
  /\ scan'.routes = scan.routes /\ scan'.reused = scan.reused
  /\ scan'.candidates = scan.candidates /\ scan'.limitations = scan.limitations

\* A route that is not in the cache is asked for.
LEMMA TypesAsk ==
  ASSUME GovernedTypeOK, Ask
  PROVE  GovernedTypeOK' /\ Unchanged
<1>1. scan.pc = "route" /\ scan.routes # <<>> /\ scan' = [scan EXCEPT !.pc = "asked", !.attempt = 0]
      /\ UNCHANGED <<vault, today, settings, answered>>
  BY DEF Ask
<1>2. scan \in ScanRecord /\ scan # Idle /\ scan.vault \in Vaults /\ scan.providers # <<>>
      /\ scan.providers \in Seq(Valid)
  BY <1>1, RunningScan DEF GovernedTypeOK
<1>3. scan' \in ScanRecord /\ scan'.attempt = 0 /\ Unchanged
  BY <1>1, <1>2 DEF ScanRecord, Unchanged
<1>4. 0 < 2 * Len(scan.providers)
  BY <1>2
<1>5. GovernedTypeOK'
  BY <1>1, <1>2, <1>3, <1>4 DEF GovernedTypeOK, Unchanged
<1>. QED BY <1>3, <1>5

\* A scan without routes is over.
LEMMA TypesFinish ==
  ASSUME GovernedTypeOK, Finish
  PROVE  GovernedTypeOK' /\ Unchanged
<1>1. scan.pc = "route" /\ scan.routes = <<>> /\ scan' = [scan EXCEPT !.pc = "over"] /\ UNCHANGED <<vault, today, settings, answered>>
  BY DEF Finish
<1>2. scan \in ScanRecord /\ scan # Idle /\ scan.vault \in Vaults /\ scan.providers # <<>>
  BY <1>1, RunningScan DEF GovernedTypeOK
<1>3. scan' \in ScanRecord /\ scan'.pc = "over" /\ Unchanged
  BY <1>1, <1>2 DEF ScanRecord, Unchanged
<1>4. GovernedTypeOK'
  BY <1>1, <1>2, <1>3 DEF GovernedTypeOK, Unchanged
<1>. QED BY <1>3, <1>4

\* The answer that is kept, and how a model's saying it is remembered.
Kept(text) ==
  [candidates  |-> Validate(Route, scan.vault, scan.now, text.candidates),
   limitations |-> Truncated(Route, scan.vault, scan.now)]

Spoken(text) ==
  [provider |-> Provider, route |-> Route, candidates |-> text.candidates,
   context |-> Context(Route, scan.vault, scan.now)]

\* An answer that is accepted is kept in the cache and added to the scan.
LEMMA TypesValid ==
  ASSUME GovernedTypeOK, scan.pc = "asked", NEW text \in Texts, AnswerValid(text),
         UNCHANGED <<vault, today, settings>>
  PROVE  /\ GovernedTypeOK' /\ scan # Idle
         /\ scan'.vault = scan.vault /\ scan'.now = scan.now /\ scan'.providers = scan.providers
         /\ scan'.routes = Tail(scan.routes) /\ scan'.reused = scan.reused
         /\ scan'.candidates = scan.candidates \cup Kept(text).candidates
         /\ scan'.limitations = scan.limitations \cup Kept(text).limitations
         /\ answered' = answered \cup {Spoken(text)}
         /\ cache' = [k \in DOMAIN cache \cup {Key} |-> IF k = Key THEN Kept(text) ELSE cache[k]]
<1>1. /\ scan' = RouteDone(scan, Kept(text).candidates, Kept(text).limitations)
      /\ answered' = answered \cup {Spoken(text)}
      /\ cache' = [k \in DOMAIN cache \cup {Key} |-> IF k = Key THEN Kept(text) ELSE cache[k]]
  BY Zenon DEF AnswerValid, Kept, Spoken
<1>2. text.candidates \subseteq Candidates
  BY DEF Candidates
<1>3. Kept(text).candidates \in SUBSET Candidates /\ Kept(text).limitations \in SUBSET Limitations
  BY <1>2 DEF Kept, Validate, Truncated, Limitations
<1>4. scan.pc \in {"route", "asked"} /\ scan.routes # <<>>
  BY DEF GovernedTypeOK
<1>. DEFINE s == RouteDone(scan, Kept(text).candidates, Kept(text).limitations)
<1>5. /\ s \in ScanRecord
      /\ s.pc = "route" /\ s.vault = scan.vault /\ s.now = scan.now /\ s.providers = scan.providers
      /\ s.routes = Tail(scan.routes) /\ s.reused = scan.reused
      /\ s.candidates = scan.candidates \cup Kept(text).candidates
      /\ s.limitations = scan.limitations \cup Kept(text).limitations
      /\ s # Idle /\ scan # Idle
  BY <1>3, <1>4, RouteDoneTypes
<1>6. scan' = s
  BY <1>1
<1>. HIDE DEF s
<1>7. \A a \in answered' : a.candidates \subseteq Candidates
  BY <1>1, <1>2 DEF GovernedTypeOK, Spoken
<1>8. GovernedTypeOK'
  BY <1>5, <1>6, <1>7 DEF GovernedTypeOK
<1>. QED BY <1>1, <1>5, <1>6, <1>8

\* A failure is tried again, or ends the route and is named.
LEMMA TypesFails ==
  ASSUME GovernedTypeOK, scan.pc = "asked", AnswerFails, UNCHANGED <<vault, today, settings>>
  PROVE  /\ GovernedTypeOK'
         /\ \/ Unchanged
            \/ /\ scan # Idle
               /\ scan'.vault = scan.vault /\ scan'.now = scan.now /\ scan'.providers = scan.providers
               /\ scan'.routes = Tail(scan.routes) /\ scan'.reused = scan.reused
               /\ scan'.candidates = scan.candidates /\ scan'.limitations # {}
<1>1. /\ scan' = IF scan.attempt + 1 < 2 * Len(scan.providers)
                 THEN [scan EXCEPT !.attempt = @ + 1]
                 ELSE RouteDone(scan, {}, {"local-model-output-unavailable"})
      /\ answered' = answered
  BY DEF AnswerFails
<1>2. scan \in ScanRecord /\ scan # Idle /\ scan.vault \in Vaults /\ scan.providers # <<>> /\ scan.routes # <<>>
  BY RunningScan DEF GovernedTypeOK
<1>3. CASE scan.attempt + 1 < 2 * Len(scan.providers)
  <2>1. scan' = [scan EXCEPT !.attempt = scan.attempt + 1] /\ scan.attempt + 1 \in Nat
    BY <1>1, <1>2, <1>3 DEF ScanRecord
  <2>2. scan' \in ScanRecord /\ scan'.attempt = scan.attempt + 1 /\ Unchanged
    BY <1>2, <2>1 DEF ScanRecord, Unchanged
  <2>3. GovernedTypeOK'
    BY <1>1, <1>2, <1>3, <2>2 DEF GovernedTypeOK, Unchanged
  <2>. QED BY <2>2, <2>3
<1>4. CASE ~ (scan.attempt + 1 < 2 * Len(scan.providers))
  <2>. DEFINE told == {"local-model-output-unavailable"}
              s == RouteDone(scan, {}, told)
  <2>1. {} \in SUBSET Candidates /\ told \in SUBSET Limitations
    BY DEF Limitations
  <2>2. /\ s \in ScanRecord
        /\ s.pc = "route" /\ s.vault = scan.vault /\ s.now = scan.now /\ s.providers = scan.providers
        /\ s.routes = Tail(scan.routes) /\ s.reused = scan.reused
        /\ s.candidates = scan.candidates \cup {} /\ s.limitations = scan.limitations \cup told
        /\ s # Idle /\ scan # Idle
    <3>. HIDE DEF told
    <3>. QED BY <1>2, <2>1, RouteDoneTypes
  <2>3. scan' = s
    BY <1>1, <1>4
  <2>4. s.limitations # {} /\ s.candidates = scan.candidates
    <3>. HIDE DEF s
    <3>. QED BY <2>2
  <2>. HIDE DEF s
  <2>5. GovernedTypeOK'
    BY <1>1, <1>2, <2>2, <2>3 DEF GovernedTypeOK
  <2>. QED BY <2>2, <2>3, <2>4, <2>5
<1>. QED BY <1>3, <1>4

-----------------------------------------------------------------------------
(* What the cache and the scan hold.                                       *)

\* What was said stays said.
LEMMA SaidStays ==
  ASSUME NEW s, NEW said, NEW more, said \subseteq more, NEW r
  PROVE  /\ Said(s, said, r) \subseteq Said(s, more, r)
         /\ Told(s, said, r) => Told(s, more, r)
         /\ \A c : SoundCandidate(s, said, c) => SoundCandidate(s, more, c)
         /\ \A k, result : SoundResult(k, result, said) => SoundResult(k, result, more)
<1>1. \A q : Said(s, said, q) \subseteq Said(s, more, q)
  BY DEF Said
<1>2. Told(s, said, r) => Told(s, more, r)
  BY DEF Told
<1>3. \A c : SoundCandidate(s, said, c) => SoundCandidate(s, more, c)
  BY <1>1 DEF SoundCandidate
<1>4. \A k, result : SoundResult(k, result, said) => SoundResult(k, result, more)
  BY DEF SoundResult
<1>. QED BY <1>1, <1>2, <1>3, <1>4

\* A scan that has got no further is as sound as it was.
LEMMA SoundStays ==
  ASSUME ScanSound, Unchanged, UNCHANGED answered
  PROVE  ScanSound'
<1>1. \A r : /\ Said(scan', answered', r) = Said(scan, answered, r)
             /\ Told(scan', answered', r) = Told(scan, answered, r)
  BY DEF Said, Told, Unchanged
<1>2. \A c : SoundCandidate(scan', answered', c) = SoundCandidate(scan, answered, c)
  BY <1>1 DEF SoundCandidate, Unchanged
<1>3. SoundScan(scan, answered)
  BY DEF ScanSound
<1>4. SoundScan(scan', answered')
  BY <1>1, <1>2, <1>3 DEF SoundScan, Unchanged
<1>. QED BY <1>4 DEF ScanSound

\* A route whose answer is there, or whose failure is named, may be left.
LEMMA SoundAdvances ==
  ASSUME NEW s, NEW t, NEW said, NEW more, said \subseteq more, SoundScan(s, said), s # Idle,
         s.routes \in Seq(Routes), s.routes # <<>>,
         t.vault = s.vault, t.now = s.now, t.providers = s.providers, t.routes = Tail(s.routes),
         NEW C, t.candidates = s.candidates \cup C, \A c \in C : SoundCandidate(t, more, c),
         t.reused \subseteq s.reused \cup {r \in {Head(s.routes)} : Said(t, more, r) # {}},
         t.limitations = {} => s.limitations = {} /\ Told(t, more, Head(s.routes))
  PROVE  SoundScan(t, more)
<1>1. \A r : /\ Said(t, said, r) = Said(s, said, r)
             /\ Told(t, said, r) = Told(s, said, r)
  BY DEF Said, Told
<1>2. \A c : SoundCandidate(t, said, c) = SoundCandidate(s, said, c)
  BY <1>1 DEF SoundCandidate
<1>3. \A c \in t.candidates : SoundCandidate(t, more, c)
  BY <1>2, SaidStays DEF SoundScan
<1>4. \A r \in t.reused : Said(t, more, r) # {}
  <2>. TAKE r \in t.reused
  <2>1. CASE r \in s.reused
    <3>1. Said(s, said, r) # {}
      BY <2>1 DEF SoundScan
    <3>2. Said(t, said, r) \subseteq Said(t, more, r)
      BY SaidStays
    <3>. QED BY <1>1, <3>1, <3>2
  <2>2. CASE r \notin s.reused
    BY <2>2
  <2>. QED BY <2>1, <2>2
<1>5. ASSUME t.limitations = {}, NEW r \in Range(SelectRoutes(t.vault))
      PROVE  r \in Range(t.routes) \/ Told(t, more, r)
  <2>1. r \in Range(s.routes) \/ Told(s, said, r)
    BY <1>5 DEF SoundScan
  <2>2. CASE r \in Range(s.routes)
    BY <1>5, <2>2, RouteAndRest
  <2>3. CASE Told(s, said, r)
    BY <1>1, <2>3, SaidStays
  <2>. QED BY <2>1, <2>2, <2>3
<1>. QED BY <1>3, <1>4, <1>5 DEF SoundScan

\* A sound result adds what is sound to the scan that looks it up.
LEMMA SoundResultAdds ==
  ASSUME NEW s, NEW said, NEW k, NEW result, SoundResult(k, result, said),
         s.vault \in Vaults, s.now \in Nat, k.providers = s.providers, k.route \in Routes,
         k.context = Context(k.route, s.vault, s.now)
  PROVE  /\ \A c \in result.candidates : SoundCandidate(s, said, c)
         /\ Said(s, said, k.route) # {}
         /\ result.limitations = {} => Told(s, said, k.route)
<1>1. PICK a \in said : /\ a.provider \in Range(k.providers) /\ a.route = k.route
                        /\ a.context = k.context /\ result.candidates \subseteq a.candidates
  BY DEF SoundResult
<1>2. a \in Said(s, said, k.route)
  BY <1>1 DEF Said
<1>3. /\ \A c \in result.candidates : c.route = k.route /\ Cites(c, s.vault, s.now)
      /\ result.limitations = Truncated(k.route, s.vault, s.now)
  BY DEF SoundResult
<1>4. \A c \in result.candidates : SoundCandidate(s, said, c)
  BY <1>1, <1>2, <1>3 DEF SoundCandidate
<1>5. result.limitations = {} => Told(s, said, k.route)
  <2>1. result.limitations = {} => Cardinality(Entries(k.route, s.vault, s.now)) <= MaxEntries
    BY <1>3, NotTruncated
  <2>. QED BY <1>1, <2>1 DEF Told
<1>. QED BY <1>2, <1>4, <1>5

\* A result from the cache is as good as an answer.
LEMMA SoundReuse ==
  ASSUME GovernedInv, Reuse
  PROVE  GovernedInv'
<1>1. /\ GovernedTypeOK' /\ scan # Idle
      /\ scan'.vault = scan.vault /\ scan'.now = scan.now /\ scan'.providers = scan.providers
      /\ scan'.routes = Tail(scan.routes) /\ scan'.reused = scan.reused \cup {Route}
      /\ scan'.candidates = scan.candidates \cup cache[Key].candidates
      /\ scan'.limitations = scan.limitations \cup cache[Key].limitations
  BY TypesReuse
<1>2. /\ scan.pc = "route" /\ scan.routes # <<>> /\ Key \in DOMAIN cache
      /\ UNCHANGED <<cache, answered>>
  BY DEF Reuse
<1>3. scan.vault \in Vaults /\ scan.now \in Nat /\ scan.routes \in Seq(Routes)
  BY <1>2, RunningScan DEF GovernedInv
<1>4. Route \in Routes
  BY <1>2, <1>3 DEF Route
<1>5. SoundResult(Key, cache[Key], answered)
  BY <1>2 DEF GovernedInv, CacheSound
<1>6. /\ \A c \in cache[Key].candidates : SoundCandidate(scan', answered, c)
      /\ Said(scan', answered, Route) # {}
      /\ cache[Key].limitations = {} => Told(scan', answered, Route)
  BY <1>1, <1>3, <1>4, <1>5, KeyParts, SoundResultAdds
<1>7. SoundScan(scan, answered)
  BY DEF GovernedInv, ScanSound
<1>. DEFINE C == cache[Key].candidates
<1>8. SoundScan(scan', answered)
  <2>1. scan'.reused \subseteq scan.reused \cup {r \in {Head(scan.routes)} : Said(scan', answered, r) # {}}
    BY <1>1, <1>6 DEF Route
  <2>2. scan'.limitations = {} => scan.limitations = {} /\ Told(scan', answered, Head(scan.routes))
    BY <1>1, <1>6 DEF Route
  <2>3. scan'.candidates = scan.candidates \cup C /\ \A c \in C : SoundCandidate(scan', answered, c)
    BY <1>1, <1>6
  <2>. HIDE DEF C
  <2>. QED BY <1>1, <1>2, <1>3, <1>7, <2>1, <2>2, <2>3, SoundAdvances
<1>9. CacheSound'
  BY <1>2 DEF GovernedInv, CacheSound
<1>10. ScanSound'
  BY <1>2, <1>8 DEF ScanSound
<1>. QED BY <1>1, <1>9, <1>10 DEF GovernedInv

\* A kept answer is sound.
LEMMA KeptIsSound ==
  ASSUME GovernedTypeOK, scan.pc = "asked", NEW text
  PROVE  SoundResult(Key, Kept(text), answered \cup {Spoken(text)})
<1>1. Provider \in Range(scan.providers)
  BY ProviderIsOwn
<1>2. scan.vault \in Vaults /\ scan.now \in Nat /\ scan.routes \in Seq(Routes) /\ scan.routes # <<>>
  BY RunningScan DEF GovernedTypeOK
<1>3. Route \in Routes
  BY <1>2 DEF Route
<1>. DEFINE a == Spoken(text)
<1>4. a.provider \in Range(Key.providers) /\ a.route = Key.route /\ a.context = Key.context
      /\ a.candidates = text.candidates
  BY <1>1, KeyParts DEF Spoken
<1>5. \A c \in Kept(text).candidates : c \in text.candidates /\ c.route = Route /\ Cites(c, scan.vault, scan.now)
  BY KeptCites DEF Kept
<1>6. Kept(text).candidates \subseteq a.candidates
  BY <1>4, <1>5
<1>7. ASSUME NEW v \in Vaults, NEW now \in Nat, Context(Key.route, v, now) = Key.context
      PROVE  /\ \A c \in Kept(text).candidates : c.route = Key.route /\ Cites(c, v, now)
             /\ Kept(text).limitations = Truncated(Key.route, v, now)
  <2>1. Entries(Route, v, now) = Entries(Route, scan.vault, scan.now)
    BY <1>3, <1>7, KeyParts, ContextDeterminesEntries
  <2>2. Kept(text).limitations = Truncated(Route, v, now)
    BY <2>1, Zenon DEF Kept, Truncated
  <2>. QED BY <1>5, <2>1, <2>2, KeyParts DEF Cites
<1>. QED BY <1>4, <1>6, <1>7 DEF SoundResult

\* An accepted answer is sound, for this scan and for those to come.
LEMMA SoundValid ==
  ASSUME GovernedInv, scan.pc = "asked", NEW text \in Texts, AnswerValid(text),
         UNCHANGED <<vault, today, settings>>
  PROVE  GovernedInv'
<1>0. GovernedTypeOK
  BY DEF GovernedInv
<1>1. /\ GovernedTypeOK' /\ scan # Idle
      /\ scan'.vault = scan.vault /\ scan'.now = scan.now /\ scan'.providers = scan.providers
      /\ scan'.routes = Tail(scan.routes) /\ scan'.reused = scan.reused
      /\ scan'.candidates = scan.candidates \cup Kept(text).candidates
      /\ scan'.limitations = scan.limitations \cup Kept(text).limitations
      /\ answered' = answered \cup {Spoken(text)}
      /\ cache' = [k \in DOMAIN cache \cup {Key} |-> IF k = Key THEN Kept(text) ELSE cache[k]]
  BY <1>0, TypesValid
<1>2. scan.vault \in Vaults /\ scan.now \in Nat /\ scan.routes \in Seq(Routes) /\ scan.routes # <<>>
  BY <1>0, RunningScan DEF GovernedTypeOK
<1>3. Route \in Routes
  BY <1>2 DEF Route
<1>4. SoundResult(Key, Kept(text), answered')
  BY <1>0, <1>1, KeptIsSound
<1>5. answered \subseteq answered'
  BY <1>1
<1>6. /\ \A c \in Kept(text).candidates : SoundCandidate(scan', answered', c)
      /\ Kept(text).limitations = {} => Told(scan', answered', Route)
  BY <1>1, <1>2, <1>3, <1>4, KeyParts, SoundResultAdds
<1>7. SoundScan(scan, answered)
  BY DEF GovernedInv, ScanSound
<1>. DEFINE C == Kept(text).candidates
<1>8. SoundScan(scan', answered')
  <2>1. scan'.limitations = {} => scan.limitations = {} /\ Told(scan', answered', Head(scan.routes))
    BY <1>1, <1>6 DEF Route
  <2>2. scan'.candidates = scan.candidates \cup C /\ \A c \in C : SoundCandidate(scan', answered', c)
    BY <1>1, <1>6
  <2>3. scan'.reused \subseteq scan.reused \cup {r \in {Head(scan.routes)} : Said(scan', answered', r) # {}}
    BY <1>1
  <2>. HIDE DEF C
  <2>. QED BY <1>1, <1>2, <1>5, <1>7, <2>1, <2>2, <2>3, SoundAdvances
<1>9. CacheSound'
  <2>1. \A k \in DOMAIN cache : SoundResult(k, cache[k], answered')
    BY <1>5, SaidStays DEF GovernedInv, CacheSound
  <2>2. \A k \in DOMAIN cache' : SoundResult(k, cache'[k], answered')
    BY <1>1, <1>4, <2>1
  <2>. QED BY <2>2 DEF CacheSound
<1>10. ScanSound'
  BY <1>8 DEF ScanSound
<1>. QED BY <1>1, <1>9, <1>10 DEF GovernedInv

\* A failure adds nothing but its name.
LEMMA SoundFails ==
  ASSUME GovernedInv, scan.pc = "asked", AnswerFails, UNCHANGED <<vault, today, settings>>
  PROVE  GovernedInv'
<1>0. GovernedTypeOK
  BY DEF GovernedInv
<1>1. GovernedTypeOK' /\ UNCHANGED <<cache, answered>>
  BY <1>0, TypesFails DEF AnswerFails
<1>2. CacheSound'
  BY <1>1 DEF GovernedInv, CacheSound
<1>3. CASE Unchanged
  BY <1>1, <1>2, <1>3, SoundStays DEF GovernedInv
<1>4. CASE ~ Unchanged
  <2>1. /\ scan # Idle
        /\ scan'.vault = scan.vault /\ scan'.now = scan.now /\ scan'.providers = scan.providers
        /\ scan'.routes = Tail(scan.routes) /\ scan'.reused = scan.reused
        /\ scan'.candidates = scan.candidates /\ scan'.limitations # {}
    BY <1>0, <1>4, TypesFails
  <2>2. scan.routes \in Seq(Routes) /\ scan.routes # <<>>
    BY <1>0, RunningScan DEF GovernedTypeOK
  <2>3. SoundScan(scan, answered)
    BY DEF GovernedInv, ScanSound
  <2>4. SoundScan(scan', answered)
    <3>. DEFINE C == {}
    <3>1. scan'.candidates = scan.candidates \cup C /\ \A c \in C : SoundCandidate(scan', answered, c)
      BY <2>1
    <3>2. scan'.reused \subseteq scan.reused \cup {r \in {Head(scan.routes)} : Said(scan', answered, r) # {}}
      BY <2>1
    <3>. HIDE DEF C
    <3>. QED BY <2>1, <2>2, <2>3, <3>1, <3>2, SoundAdvances
  <2>5. ScanSound'
    BY <1>1, <2>4 DEF ScanSound
  <2>. QED BY <1>1, <1>2, <2>5 DEF GovernedInv
<1>. QED BY <1>3, <1>4

-----------------------------------------------------------------------------
(* The theorems.                                                           *)

\* A new scan holds nothing.
LEMMA SoundStart ==
  ASSUME GovernedInv, StartScan
  PROVE  GovernedInv'
<1>1. /\ GovernedTypeOK'
      /\ scan'.vault = vault /\ scan'.now = today /\ scan'.routes = SelectRoutes(vault)
      /\ scan'.candidates = {} /\ scan'.reused = {} /\ scan'.pc = "route"
  BY TypesStart DEF GovernedInv
<1>2. UNCHANGED <<cache, answered>>
  BY DEF StartScan
<1>3. SoundScan(scan', answered')
  BY <1>1 DEF SoundScan
<1>. QED BY <1>1, <1>2, <1>3 DEF GovernedInv, CacheSound, ScanSound

\* Every response is accepted or is a failure.
LEMMA SoundReply ==
  ASSUME GovernedInv, NEW response \in Responses, Reply(response)
  PROVE  GovernedInv'
<1>1. scan.pc = "asked" /\ UNCHANGED <<vault, today, settings>>
  BY DEF Reply
<1>. DEFINE parsed == UNION {Parse(t) : t \in Generate(Provider, response)}
<1>2. (\E t \in parsed : AnswerValid(t)) \/ AnswerFails
  BY DEF Reply
<1>3. ASSUME NEW t \in parsed, AnswerValid(t) PROVE GovernedInv'
  <2>1. t \in Texts
    BY ParsedIsText
  <2>. QED BY <1>1, <1>3, <2>1, SoundValid
<1>4. CASE AnswerFails
  BY <1>1, <1>4, SoundFails
<1>. QED BY <1>2, <1>3, <1>4

\* The cache and the scan stay sound through every step.
LEMMA GovernedStep ==
  ASSUME GovernedInv, [GovernedNext]_governedVars
  PROVE  GovernedInv'
<1>1. CASE StartScan
  BY <1>1, SoundStart
<1>2. CASE Reuse
  BY <1>2, SoundReuse
<1>3. CASE Ask
  <2>1. GovernedTypeOK' /\ Unchanged /\ UNCHANGED <<cache, answered>>
    BY <1>3, TypesAsk DEF GovernedInv, Ask
  <2>. QED BY <2>1, SoundStays DEF GovernedInv, CacheSound
<1>4. ASSUME NEW r \in Responses, Reply(r) PROVE GovernedInv'
  BY <1>4, SoundReply
<1>5. CASE Finish
  <2>1. GovernedTypeOK' /\ Unchanged /\ UNCHANGED <<cache, answered>>
    BY <1>5, TypesFinish DEF GovernedInv, Finish
  <2>. QED BY <2>1, SoundStays DEF GovernedInv, CacheSound
<1>6. ASSUME NEW next \in [provider : Configs, consents : {{}, Cloud}], SaveSettings(next)
      PROVE  GovernedInv'
  <2>1. UNCHANGED <<vault, today, scan, answered>> /\ cache' = <<>> /\ settings' = ParsePluginSettings(next)
    BY <1>6 DEF SaveSettings
  <2>2. settings'.provider \in Valid
    BY <2>1, GovernedAssumption DEF ParsePluginSettings
  <2>3. GovernedTypeOK'
    BY <2>1, <2>2 DEF GovernedInv, GovernedTypeOK
  <2>4. CacheSound'
    BY <2>1 DEF CacheSound
  <2>. QED BY <2>1, <2>3, <2>4 DEF GovernedInv, ScanSound
<1>7. ASSUME NEW next \in Vaults, EditVault(next) PROVE GovernedInv'
  BY <1>7 DEF EditVault, GovernedInv, GovernedTypeOK, CacheSound, ScanSound
<1>8. CASE NextDay
  BY <1>8 DEF NextDay, GovernedInv, GovernedTypeOK, CacheSound, ScanSound
<1>9. CASE UNCHANGED governedVars
  BY <1>9 DEF governedVars, GovernedInv, GovernedTypeOK, CacheSound, ScanSound
<1>. QED BY <1>1, <1>2, <1>3, <1>4, <1>5, <1>6, <1>7, <1>8, <1>9 DEF GovernedNext, ScanStep

\* Always, every result in the cache is one that a provider of its key has
\* given to the very context of its key, and every scan holds only such results.
THEOREM GovernedInvariant == GovernedSpec => []GovernedInv
<1>1. GovernedInit => GovernedInv
  <2>1. ASSUME GovernedInit PROVE CacheSound /\ ScanSound
    <3>1. cache = <<>> /\ scan = Idle
      BY <2>1 DEF GovernedInit
    <3>2. Idle.candidates = {} /\ Idle.reused = {}
      BY DEF Idle
    <3>. QED BY <3>1, <3>2 DEF CacheSound, ScanSound, SoundScan
  <2>. QED BY <2>1, TypesInit DEF GovernedInv
<1>2. GovernedInv /\ [GovernedNext]_governedVars => GovernedInv'
  BY GovernedStep
<1>. QED BY <1>1, <1>2, PTL DEF GovernedSpec

\* What a scan reports of its agents was said by one of its own providers about
\* the content that this scan has read, whatever the user edits or saves
\* between the scan that asked and the one that reuses the answer.
THEOREM AnalysisIsOwned == GovernedSpec => []AnalysisOwned
<1>1. GovernedInv => AnalysisOwned
  BY DEF GovernedInv, ScanSound, SoundScan, SoundCandidate, Said, AnalysisOwned
<1>. QED BY <1>1, GovernedInvariant, PTL

\* A finding has evidence that is at hand.
LEMMA NormalizedEvidence ==
  ASSUME NEW v, NEW type, NEW severity, NEW evidence, NEW f \in NormalizeFinding(v, type, severity, evidence)
  PROVE  /\ f.type = type /\ f.evidence = evidence
         /\ \A e \in evidence : e.note \in DOMAIN v /\ e.exact
<1>1. f = [type |-> type, severity |-> severity, evidence |-> evidence] /\ evidence \subseteq CollectActiveEvidence(v)
  BY DEF NormalizeFinding
<1>2. \A e \in CollectActiveEvidence(v) : e.note \in DOMAIN v /\ e.exact
  BY DEF CollectActiveEvidence, Line, Field, At
<1>. QED BY <1>1, <1>2

\* What the deterministic checks report cites what the scan has read, and is
\* never taken for what an agent has said.
LEMMA DeterministicEvidence ==
  ASSUME NEW v, NEW now, NEW f \in DeterministicFindings(v, now)
  PROVE  f.type # "staleness" /\ \A e \in f.evidence : e.note \in DOMAIN v /\ e.exact
<1>1. CASE f \in TaskFindings(v, now)
  <2>. DEFINE Of(p, x) == NormalizeFinding(v, "task", IF x[2] = "overdue" THEN "medium" ELSE "low", {Line(p, x[1])})
  <2>1. PICK p \in DOMAIN v : f \in UNION {Of(p, x) : x \in CheckTasks(v[p], now)}
    BY <1>1 DEF TaskFindings
  <2>2. PICK x : f \in Of(p, x)
    BY <2>1
  <2>. QED BY <2>2, NormalizedEvidence
<1>2. CASE f \in DecisionFindings(v)
  <2>1. PICK x \in CheckDecisions(v) : f \in NormalizeFinding(v, "decision", "low", {Field(x[1], "kind")})
    BY <1>2 DEF DecisionFindings
  <2>. QED BY <2>1, NormalizedEvidence
<1>3. CASE f \in TemplateSchemaFindings(v)
  <2>. DEFINE Of(p, field) == NormalizeFinding(v, "schema", "low", {Field(p, field)})
  <2>1. PICK p \in DOMAIN v : f \in UNION {Of(p, field) : field \in ValidatePolicyTemplateNote(v[p])}
    BY <1>3 DEF TemplateSchemaFindings
  <2>2. PICK field : f \in Of(p, field)
    BY <2>1
  <2>. QED BY <2>2, NormalizedEvidence
<1>4. CASE f \in PolicyFindings(v)
  <2>1. PICK x \in EvaluatePolicies(v) : f \in NormalizeFinding(v, "policy", x[1].severity, {ToEvidence(x[2])})
    BY <1>4 DEF PolicyFindings
  <2>. QED BY <2>1, NormalizedEvidence
<1>. QED BY <1>1, <1>2, <1>3, <1>4 DEF DeterministicFindings

\* A finding of an agent, whatever its model says, cites notes that the scan
\* has read and exactly, and a note it calls stale is old and not archived.
THEOREM FindingsAreGrounded == GovernedSpec => []FindingsGrounded
<1>1. ASSUME GovernedInv, scan.pc = "over", NEW f \in RunGovernedScan(scan).findings
      PROVE  /\ \A e \in f.evidence : e.note \in DOMAIN scan.vault /\ e.exact
             /\ f.type = "staleness" =>
                  \A e \in f.evidence : IsStalenessEligible(scan.vault, e.note, scan.now)
  <2>1. CASE f \in DeterministicFindings(scan.vault, scan.now)
    BY <2>1, DeterministicEvidence
  <2>2. CASE f \notin DeterministicFindings(scan.vault, scan.now)
    <3>1. PICK c \in scan.candidates : f \in NormalizeSemanticCandidate(scan.vault, c)
      BY <1>1, <2>2 DEF RunGovernedScan
    <3>2. c.route # "entity" /\ \E evidence : /\ f \in NormalizeFinding(scan.vault, c.route, "low", evidence)
                                              /\ c.route # "decision" => evidence = c.evidence
      BY <3>1 DEF NormalizeSemanticCandidate
    <3>3. PICK evidence : /\ f \in NormalizeFinding(scan.vault, c.route, "low", evidence)
                          /\ c.route # "decision" => evidence = c.evidence
      BY <3>2
    <3>4. f.type = c.route /\ f.evidence = evidence /\ \A e \in evidence : e.note \in DOMAIN scan.vault /\ e.exact
      BY <3>3, NormalizedEvidence
    <3>5. Cites(c, scan.vault, scan.now)
      BY <1>1 DEF GovernedInv, ScanSound, SoundScan, SoundCandidate
    <3>6. ASSUME c.route = "staleness", NEW e \in c.evidence PROVE IsStalenessEligible(scan.vault, e.note, scan.now)
      BY <3>5, <3>6 DEF Cites, Entries
    <3>. QED BY <3>3, <3>4, <3>6
  <2>. QED BY <2>1, <2>2
<1>2. ASSUME NEW v, NEW p, NEW now, IsStalenessEligible(v, p, now)
      PROVE  /\ Has(v[p], "updatedAt") /\ now >= v[p].updated + StaleAfter
             /\ Has(v[p], "archival") => v[p].fm["archival"] # "<true>"
             /\ Has(v[p], "status") => v[p].fm["status"] # "archived"
  BY <1>2 DEF IsStalenessEligible, Records, HasText
<1>3. GovernedInv => FindingsGrounded
  BY <1>1, <1>2 DEF FindingsGrounded
<1>. QED BY <1>3, GovernedInvariant, PTL

\* A scan that names no limitation has an answer of a model to everything there
\* was to ask about the vault, from prompts that left no entry out.
THEOREM LimitationsAreTold == GovernedSpec => []LimitationsTold
<1>1. ASSUME GovernedInv, scan.pc = "over", scan.limitations = {}, NEW r \in Range(SelectRoutes(scan.vault))
      PROVE  Told(scan, answered, r)
  <2>1. scan # Idle /\ scan.routes = <<>>
    BY <1>1 DEF GovernedInv, GovernedTypeOK, Idle
  <2>2. Range(scan.routes) = {}
    BY <2>1 DEF Range
  <2>. QED BY <1>1, <2>1, <2>2 DEF GovernedInv, ScanSound, SoundScan
<1>2. GovernedInv => LimitationsTold
  BY <1>1 DEF LimitationsTold, Told
<1>. QED BY <1>2, GovernedInvariant, PTL

\* What is at hand as evidence is reported.
LEMMA EvidenceAtHand ==
  ASSUME NEW v, NEW type, NEW severity, NEW e \in CollectActiveEvidence(v)
  PROVE  [type |-> type, severity |-> severity, evidence |-> {e}] \in NormalizeFinding(v, type, severity, {e})
BY DEF NormalizeFinding

\* Whatever the models of a scan do, and whether they answer or not, the scan
\* reports every overdue task in the lines that count as evidence, every decision
\* from which only decisions that supersede others are reached, and every
\* archived project that has an open task when a rule forbids it.
THEOREM ChecksAlwaysRun == GovernedSpec => []ChecksWhateverTheModel
<1>. DEFINE v == scan.vault
            Found(type, e) == \E f \in RunGovernedScan(scan).findings : f.type = type /\ f.evidence = {e}
<1>1. ASSUME GovernedInv, scan.pc = "over"
      PROVE  v \in Vaults /\ scan.now \in Nat
             /\ DeterministicFindings(v, scan.now) \subseteq RunGovernedScan(scan).findings
  <2>1. scan # Idle /\ scan \in ScanRecord
    BY <1>1 DEF GovernedInv, GovernedTypeOK, Idle
  <2>2. v \in Vaults /\ scan.providers # <<>> /\ scan.now \in Nat
    BY <1>1, <2>1 DEF GovernedInv, GovernedTypeOK, ScanRecord
  <2>. QED BY <2>2 DEF RunGovernedScan
<1>2. ASSUME GovernedInv, scan.pc = "over", NEW p \in DOMAIN v,
             NEW i \in {j \in DOMAIN v[p].lines : j <= EvidenceLines},
             v[p].lines[i].task, v[p].lines[i].parses, ~ v[p].lines[i].box, ~ v[p].lines[i].marked,
             v[p].lines[i].due \in 1..(scan.now - 1)
      PROVE  Found("task", Line(p, i))
  <2>. DEFINE f == [type |-> "task", severity |-> "medium", evidence |-> {Line(p, i)}]
  <2>1. <<i, "overdue">> \in CheckTasks(v[p], scan.now)
    <3>1. v[p].lines[i].due \in 1..(scan.now - 1) /\ i \in DOMAIN v[p].lines
      BY <1>2
    <3>. QED BY <1>1, <1>2, <3>1, OverdueIsIssue
  <2>2. i \in 1..Len(v[p].lines) /\ i <= EvidenceLines
    <3>1. PICK S : v[p].lines \in Seq(S)
      BY <1>1, <1>2, VaultsAssumption
    <3>2. i \in DOMAIN v[p].lines /\ i <= EvidenceLines
      BY <1>2
    <3>. QED BY <3>1, <3>2
  <2>3. Line(p, i) \in CollectActiveEvidence(v)
    BY <2>2 DEF CollectActiveEvidence
  <2>4. f \in NormalizeFinding(v, "task", "medium", {Line(p, i)})
    BY <2>3, EvidenceAtHand
  <2>5. f \in TaskFindings(v, scan.now)
    <3>. DEFINE Of(q, x) == NormalizeFinding(v, "task", IF x[2] = "overdue" THEN "medium" ELSE "low", {Line(q, x[1])})
                of == UNION {Of(p, x) : x \in CheckTasks(v[p], scan.now)}
    <3>1. f \in Of(p, <<i, "overdue">>)
      BY <2>4
    <3>2. f \in of
      BY <2>1, <3>1
    <3>3. of \subseteq TaskFindings(v, scan.now)
      BY <1>2 DEF TaskFindings
    <3>. QED BY <3>2, <3>3
  <2>6. f \in RunGovernedScan(scan).findings
    BY <1>1, <1>2, <2>5 DEF DeterministicFindings
  <2>. QED BY <2>6
<1>3. ASSUME GovernedInv, scan.pc = "over", NEW D \in SUBSET Decisions(v), NEW d \in D,
             \A x \in D : \E y \in D : Has(v[x], "supersedes") /\ v[x].fm["supersedes"] = y
      PROVE  Found("decision", Field(d, "kind"))
  <2>. DEFINE e == Field(d, "kind")
              f == [type |-> "decision", severity |-> "low", evidence |-> {e}]
  <2>1. SupersedesCycle(v, d)
    BY <1>1, <1>3, CyclesAreFound
  <2>2. <<d, "supersedes-cycle">> \in CheckDecisions(v)
    BY <1>3, <2>1 DEF CheckDecisions
  <2>3. d \in DOMAIN v /\ "kind" \in DOMAIN v[d].fm
    BY <1>3 DEF Decisions, IsKind, Has
  <2>4. e \in CollectActiveEvidence(v)
    BY <2>3 DEF CollectActiveEvidence
  <2>5. f \in NormalizeFinding(v, "decision", "low", {e})
    BY <2>4, EvidenceAtHand
  <2>6. f \in DecisionFindings(v)
    <3>. DEFINE Of(x) == NormalizeFinding(v, "decision", "low", {Field(x[1], "kind")})
    <3>1. f \in Of(<<d, "supersedes-cycle">>)
      BY <2>5
    <3>2. Of(<<d, "supersedes-cycle">>) \subseteq DecisionFindings(v)
      BY <2>2 DEF DecisionFindings
    <3>. QED BY <3>1, <3>2
  <2>7. f \in RunGovernedScan(scan).findings
    BY <1>1, <1>3, <2>6 DEF DeterministicFindings
  <2>. QED BY <2>7
<1>4. ASSUME GovernedInv, scan.pc = "over", NEW p \in DOMAIN v, NEW t \in DOMAIN v, NEW r \in Rules,
             IsKind(v[p], "project"), Has(v[p], "status"), v[p].fm["status"] = "archived",
             IsKind(v[t], "task"), Has(v[t], "status"), v[t].fm["status"] = "open",
             Has(v[t], "project"), v[t].fm["project"] = p,
             r.fact = <<"project", "archived_open_tasks">>, r.operator = "forbidden"
      PROVE  Found("policy", ToEvidence(p))
  <2>. DEFINE e == ToEvidence(p)
              f == [type |-> "policy", severity |-> r.severity, evidence |-> {e}]
  <2>1. <<"project", "archived_open_tasks", p, "<true>">> \in ExtractPolicyFacts(v)
    BY <1>4 DEF ExtractPolicyFacts
  <2>2. Violates(r, "<true>")
    BY <1>4 DEF Violates
  <2>3. <<r, p>> \in EvaluatePolicies(v)
    BY <1>4, <2>1, <2>2, ViolationIsReported
  <2>4. e \in CollectActiveEvidence(v)
    BY <1>4 DEF CollectActiveEvidence, ToEvidence
  <2>5. f \in NormalizeFinding(v, "policy", r.severity, {e})
    BY <2>4, EvidenceAtHand
  <2>6. f \in PolicyFindings(v)
    <3>. DEFINE Of(x) == NormalizeFinding(v, "policy", x[1].severity, {ToEvidence(x[2])})
    <3>1. f \in Of(<<r, p>>)
      BY <2>5
    <3>2. Of(<<r, p>>) \subseteq PolicyFindings(v)
      BY <2>3 DEF PolicyFindings
    <3>. QED BY <3>1, <3>2
  <2>7. f \in RunGovernedScan(scan).findings
    BY <1>1, <1>4, <2>6 DEF DeterministicFindings
  <2>. QED BY <2>7
<1>5. GovernedInv => ChecksWhateverTheModel
  <2>. HIDE DEF v, Found
  <2>. QED BY <1>2, <1>3, <1>4 DEF ChecksWhateverTheModel, v, Found
<1>. QED BY <1>5, GovernedInvariant, PTL

=============================================================================
