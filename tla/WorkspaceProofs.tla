---------------------------- MODULE WorkspaceProofs ----------------------------
(***************************************************************************)
(* Theorems of Workspace, for any vaults, edits, templates, references and *)
(* answers of the models.                                                  *)
(***************************************************************************)
EXTENDS Workspace, SequenceTheorems, WellFoundedInduction, TLAPS

-----------------------------------------------------------------------------
(* Sequences that are put together and selected from.                      *)

\* A set of numbers with zero that is closed under successor has every number.
LEMMA EveryNumber ==
  ASSUME NEW S \in SUBSET Nat, 0 \in S, \A n \in S : n + 1 \in S
  PROVE  S = Nat
<1>. DEFINE Less == {ss \in Nat \X Nat : ss[1] < ss[2]}
<1>1. IsWellFoundedOn(Less, Nat)
  BY NatLessThanWellFounded DEF OpToRel
<1>2. SUFFICES ASSUME Nat \ S # {} PROVE FALSE
  OBVIOUS
<1>3. PICK n \in Nat \ S : \A m \in Nat \ S : ~ (<<m, n>> \in Less)
  <2>. HIDE DEF Less
  <2>1. Nat \ S \subseteq Nat
    OBVIOUS
  <2>. QED BY <1>1, <1>2, <2>1, WFMin
<1>4. n # 0 /\ n - 1 \in Nat /\ n - 1 < n
  OBVIOUS
<1>5. n - 1 \notin S
  <2>1. (n - 1) + 1 = n
    BY <1>4
  <2>. QED BY <2>1, <1>4
<1>6. <<n - 1, n>> \in Less
  BY <1>4
<1>. QED BY <1>3, <1>4, <1>5, <1>6

\* Sequences over a set, put together, are a sequence over that set.
LEMMA Flattened ==
  ASSUME NEW S, NEW seqs \in Seq(Seq(S))
  PROVE  FlattenSeq(seqs) \in Seq(S)
<1>. DEFINE N == Len(seqs)
            Is(n, g) == g = [i \in 1..n |-> IF i = 1 THEN seqs[i] ELSE g[i - 1] \o seqs[i]]
            Lengths == {n \in Nat : \E g : Is(n, g)}
            flatten == CHOOSE g : g = [i \in 1..N |-> IF i = 1 THEN seqs[i] ELSE g[i - 1] \o seqs[i]]
            Numbers == {n \in Nat : n \in 1..N => flatten[n] \in Seq(S)}
<1>1. N \in Nat /\ \A i \in 1..N : seqs[i] \in Seq(S)
  BY ElementOfSeq, LenProperties
<1>2. CASE N = 0
  BY <1>2, EmptySeq DEF FlattenSeq
<1>3. CASE N # 0
  <2>1. 0 \in Lengths
    <3>1. Is(0, [i \in 1..0 |-> <<>>])
      OBVIOUS
    <3>. HIDE DEF Is
    <3>. QED BY <3>1
  <2>2. ASSUME NEW n \in Lengths PROVE n + 1 \in Lengths
    <3>1. PICK g : Is(n, g)
      OBVIOUS
    <3>. DEFINE h == [i \in 1..(n + 1) |-> IF i = n + 1 THEN (IF i = 1 THEN seqs[i] ELSE g[n] \o seqs[i]) ELSE g[i]]
    <3>2. ASSUME NEW i \in 1..(n + 1)
          PROVE  h[i] = IF i = 1 THEN seqs[i] ELSE h[i - 1] \o seqs[i]
      <4>1. CASE i = n + 1
        <5>1. h[i] = (IF i = 1 THEN seqs[i] ELSE g[n] \o seqs[i]) /\ (i # 1 => h[i - 1] = g[n])
          BY <4>1
        <5>. HIDE DEF h
        <5>. QED BY <5>1
      <4>2. CASE i # n + 1
        <5>1. i \in 1..n /\ h[i] = g[i] /\ (i # 1 => h[i - 1] = g[i - 1])
          BY <4>2
        <5>2. g[i] = IF i = 1 THEN seqs[i] ELSE g[i - 1] \o seqs[i]
          BY <3>1, <5>1
        <5>. HIDE DEF h
        <5>. QED BY <5>1, <5>2
      <4>. QED BY <4>1, <4>2
    <3>3. Is(n + 1, h)
      <4>1. h = [i \in 1..(n + 1) |-> h[i]]
        OBVIOUS
      <4>. HIDE DEF h
      <4>. QED BY <3>2, <4>1
    <3>4. n + 1 \in Nat
      OBVIOUS
    <3>. HIDE DEF Is, h
    <3>. QED BY <3>3, <3>4
  <2>3. Lengths = Nat
    <3>. HIDE DEF Lengths
    <3>1. Lengths \subseteq Nat
      BY DEF Lengths
    <3>. QED BY <2>1, <2>2, <3>1, EveryNumber
  <2>4. Is(N, flatten)
    <3>1. N \in Lengths
      BY <1>1, <2>3
    <3>2. \E g : Is(N, g)
      <4>. HIDE DEF Is, N
      <4>. QED BY <3>1
    <3>. HIDE DEF N
    <3>. QED BY <3>2, Zenon
  <2>5. \A i \in 1..N : flatten[i] = IF i = 1 THEN seqs[i] ELSE flatten[i - 1] \o seqs[i]
    <3>. HIDE DEF flatten
    <3>. QED BY <2>4
  <2>6. 0 \in Numbers
    OBVIOUS
  <2>7. ASSUME NEW n \in Numbers PROVE n + 1 \in Numbers
    <3>. HIDE DEF flatten
    <3>1. SUFFICES ASSUME n + 1 \in 1..N PROVE flatten[n + 1] \in Seq(S)
      BY <1>1
    <3>2. n \in Nat /\ (n + 1) - 1 = n /\ seqs[n + 1] \in Seq(S)
      BY <1>1, <3>1
    <3>3. CASE n = 0
      BY <2>5, <3>1, <3>2, <3>3
    <3>4. CASE n # 0
      <4>1. n \in 1..N /\ n + 1 # 1
        BY <1>1, <3>1, <3>2, <3>4
      <4>2. flatten[n] \in Seq(S)
        BY <4>1
      <4>3. flatten[n + 1] = flatten[n] \o seqs[n + 1]
        BY <2>5, <3>1, <3>2, <4>1
      <4>. QED BY <3>2, <4>2, <4>3, ConcatProperties
    <3>. QED BY <3>3, <3>4
  <2>8. Numbers = Nat
    <3>. HIDE DEF Numbers
    <3>1. Numbers \subseteq Nat
      BY DEF Numbers
    <3>. QED BY <2>6, <2>7, <3>1, EveryNumber
  <2>9. FlattenSeq(seqs) = flatten[N]
    BY <1>3 DEF FlattenSeq
  <2>10. N \in Numbers /\ N \in 1..N
    <3>. HIDE DEF Numbers
    <3>. QED BY <1>1, <1>3, <2>8
  <2>. HIDE DEF flatten
  <2>. QED BY <2>9, <2>10
<1>. QED BY <1>2, <1>3

-----------------------------------------------------------------------------
(* The inductive invariant.                                                *)

IsSequence(s) == s \in Seq(Range(s))

\* The stored proposal of this id writes what this one does.
Kept(r, p) == p.id \in DOMAIN r /\ Effect(r[p.id]) = Effect(p)

\* Proposals of one scan, all of them stored.
Sound(r, id, ps) == IsSequence(ps) /\ \A i \in DOMAIN ps : ps[i].scan = id /\ Kept(r, ps[i])

\* A snapshot is of a scan that has ended, and any scan under way is later.
Known(s) == s.id \in Nat /\ s.id <= scans /\ (scan # Nothing => s.id < scans)

ScansOrdered ==
  /\ scans \in Nat
  /\ scan # Nothing => /\ scan = [id |-> scan.id, notes |-> scan.notes, for |-> scan.for]
                       /\ scan.id = scans
  /\ snapshot # Nothing => Known(snapshot)

\* What the template family makes of a finding is a function of the snapshot:
\* its field is inserted with the one candidate, whatever the note holds.
SchemaRows(r)        == {id \in DOMAIN r : Len(id) = 1 /\ id[1].type = "schema"}
TemplateEffect(s, f) == {<<f.path, <<"top">>, f.what, <<x>>>> : x \in BuildTemplateRepairCandidates(s, f)}
MadeUnder(r, s)      == \A id \in SchemaRows(r) : id[1].scan = s.id => Effect(r[id]) = TemplateEffect(s, id[1])

RowsSound ==
  /\ \A id \in DOMAIN rows :
       LET r == rows[id] IN r = [status |-> r.status, finding |-> r.finding, scan |-> r.scan, ops |-> r.ops]
  /\ \A id \in SchemaRows(rows) : Known(snapshot) /\ id[1].scan \in Nat /\ id[1].scan <= snapshot.id
  /\ MadeUnder(rows, snapshot)

TurnShape(t) == t = [family |-> t.family, snapshot |-> t.snapshot, todo |-> t.todo, got |-> t.got]

\* A turn has the findings of its family, and a snapshot that is active or
\* was before.
TurnSound(t, r) ==
  /\ TurnShape(t)
  /\ t.snapshot.id \in Nat /\ t.snapshot.id <= snapshot.id
  /\ t.snapshot.id = snapshot.id => t.snapshot = snapshot
  /\ MadeUnder(r, t.snapshot)
  /\ t.family \in 1..3 /\ \A f \in t.todo : f.type \in Types[t.family]
  /\ Sound(r, t.snapshot.id, t.got)

PartsSound(parts, r) ==
  IsSequence(parts) /\ \A i \in DOMAIN parts : Sound(r, parts[i].scan, parts[i].proposals)

PrepShape ==
  prep = [at |-> prep.at, for |-> prep.for, findings |-> prep.findings, parts |-> prep.parts, turn |-> prep.turn]

PrepSound ==
  prep.at # "off" => PrepShape /\ Known(snapshot) /\ TurnSound(prep.turn, rows) /\ PartsSound(prep.parts, rows)

PreparedSound ==
  prepared # Nothing \/ mode = "recommendation" => Sound(rows, prepared.scan, prepared.proposals)

ApplyShape(a) == a = [at |-> a.at, batch |-> a.batch, loaded |-> a.loaded, ok |-> a.ok]
SameEffects(a) == \A i \in DOMAIN a.loaded : Effect(a.loaded[i]) = Effect(a.batch.proposals[i])

ApplySound ==
  /\ flow = [h \in Handlers |-> flow[h]]
  /\ flow["apply"].at # "off" => ApplyShape(flow["apply"]) /\ SameEffects(flow["apply"])
  /\ scan # Nothing /\ scan.for = "apply" => flow["apply"].at = "reindexing"

WorkspaceInv == ScansOrdered /\ RowsSound /\ PrepSound /\ PreparedSound /\ ApplySound

-----------------------------------------------------------------------------
(* What is made of sound proposals.                                        *)

\* Proposals are sound when they are of a set of sound ones.
LEMMA SoundOf ==
  ASSUME NEW r, NEW id, NEW S, NEW ps \in Seq(S), \A p \in S : p.scan = id /\ Kept(r, p)
  PROVE  Sound(r, id, ps)
<1>1. ps \in Seq(Range(ps)) /\ \A i \in DOMAIN ps : ps[i] \in S
  <2>1. DOMAIN ps = 1..Len(ps)
    BY LenProperties
  <2>2. \A i \in 1..Len(ps) : ps[i] \in S
    BY ElementOfSeq
  <2>3. ps \in Seq(Range(ps))
    BY <2>1, IsASeq, LenProperties DEF Range
  <2>. QED BY <2>1, <2>2, <2>3
<1>. QED BY <1>1 DEF Sound, IsSequence

\* The members of a sound sequence are of its scan, and stored.
LEMMA SoundMembers ==
  ASSUME NEW r, NEW id, NEW ps, Sound(r, id, ps)
  PROVE  ps \in Seq(Range(ps)) /\ \A p \in Range(ps) : p.scan = id /\ Kept(r, p)
BY DEF Sound, IsSequence, Range

\* Nothing prepared is sound, and so is one sound proposal more.
LEMMA NoneIsSound ==
  ASSUME NEW r, NEW id
  PROVE  Sound(r, id, <<>>)
<1>1. IsSequence(<<>>)
  BY DEF IsSequence
<1>2. DOMAIN <<>> = {}
  OBVIOUS
<1>. QED BY <1>1, <1>2, Zenon DEF Sound

\* A sound proposal may be added.
LEMMA OneMoreIsSound ==
  ASSUME NEW r, NEW id, NEW ps, Sound(r, id, ps), NEW p, p.scan = id, Kept(r, p)
  PROVE  Sound(r, id, Append(ps, p))
<1>. DEFINE S == Range(ps) \cup {p}
<1>1. ps \in Seq(S)
  <2>1. ps \in Seq(Range(ps))
    BY SoundMembers
  <2>. QED BY <2>1, SeqMonotonic
<1>2. \A q \in S : q.scan = id /\ Kept(r, q)
  BY SoundMembers
<1>3. Append(ps, p) \in Seq(S)
  <2>. HIDE DEF S
  <2>1. p \in S
    BY DEF S
  <2>. QED BY <1>1, <2>1, AppendProperties
<1>. HIDE DEF S
<1>. QED BY <1>2, <1>3, SoundOf

\* Rows may be added, and be given another status.
RowsGrow(r, q) == \A id \in DOMAIN r : id \in DOMAIN q /\ Effect(q[id]) = Effect(r[id])

\* Proposals stay sound as rows are added or given another status.
LEMMA StaysSound ==
  ASSUME NEW r, NEW q, RowsGrow(r, q), NEW id, NEW ps, Sound(r, id, ps)
  PROVE  Sound(q, id, ps)
BY DEF Sound, Kept, RowsGrow

\* A selection is of one scan, and stored, if what it is selected from is.
LEMMA SelectionIsSound ==
  ASSUME NEW r, NEW from, NEW ids, NEW active, Sound(r, from.scan, from.proposals),
         NEW batch \in SelectPreparedRepairItems(from, ids, active)
  PROVE  batch.scan = from.scan /\ Sound(r, batch.scan, batch.proposals)
<1>. DEFINE all == from.proposals
            S == Range(all)
            pick == [i \in DOMAIN all |-> IF all[i].id \in ids THEN <<all[i]>> ELSE <<>>]
<1>1. all \in Seq(S) /\ \A p \in S : p.scan = from.scan /\ Kept(r, p)
  BY SoundMembers
<1>2. pick \in Seq(Seq(S))
  <2>1. DOMAIN all = 1..Len(all) /\ Len(all) \in Nat
    BY <1>1, LenProperties
  <2>2. ASSUME NEW i \in DOMAIN all PROVE pick[i] \in Seq(S)
    <3>1. all[i] \in S
      BY DEF Range
    <3>2. <<all[i]>> \in Seq(S) /\ <<>> \in Seq(S)
      <4>. HIDE DEF S, all
      <4>. QED BY <3>1
    <3>. HIDE DEF S, all
    <3>. QED BY <3>2
  <2>3. pick = [i \in 1..Len(all) |-> pick[i]]
    BY <2>1
  <2>. HIDE DEF pick, S, all
  <2>. QED BY <2>1, <2>2, <2>3, IsASeq
<1>3. FlattenSeq(pick) \in Seq(S)
  <2>. HIDE DEF pick, S
  <2>. QED BY <1>2, Flattened
<1>4. batch.scan = from.scan /\ batch.proposals = FlattenSeq(pick)
  <2>1. batch \in Batch(from.scan, FlattenSeq(pick), active)
    BY Zenon DEF SelectPreparedRepairItems
  <2>. HIDE DEF pick
  <2>. QED BY <2>1 DEF Batch
<1>. HIDE DEF pick, S
<1>. QED BY <1>1, <1>3, <1>4, SoundOf

\* The parts that are combined are of the active scan.
LEMMA CombinationIsSound ==
  ASSUME NEW r, NEW id, NEW active, NEW parts, PartsSound(parts, r),
         NEW batch \in CombinePreparedRepairs(id, active, parts)
  PROVE  batch.scan = id /\ Sound(r, id, batch.proposals)
<1>. DEFINE S == UNION {Range(parts[i].proposals) : i \in DOMAIN parts}
            seqs == [i \in DOMAIN parts |-> parts[i].proposals]
<1>1. \A i \in DOMAIN parts : parts[i].scan = id
  BY DEF CombinePreparedRepairs
<1>2. ASSUME NEW i \in DOMAIN parts
      PROVE  parts[i].proposals \in Seq(S) /\ \A p \in Range(parts[i].proposals) : p.scan = id /\ Kept(r, p)
  <2>1. Sound(r, id, parts[i].proposals)
    BY <1>1 DEF PartsSound
  <2>2. parts[i].proposals \in Seq(Range(parts[i].proposals))
    BY <2>1, SoundMembers
  <2>3. Range(parts[i].proposals) \subseteq S
    OBVIOUS
  <2>4. parts[i].proposals \in Seq(S)
    <3>. HIDE DEF S
    <3>. QED BY <2>2, <2>3, SeqMonotonic
  <2>. QED BY <2>1, <2>4, SoundMembers
<1>3. \A p \in S : p.scan = id /\ Kept(r, p)
  BY <1>2
<1>4. seqs \in Seq(Seq(S))
  <2>1. DOMAIN parts = 1..Len(parts) /\ Len(parts) \in Nat
    BY LenProperties DEF PartsSound, IsSequence
  <2>2. \A i \in 1..Len(parts) : seqs[i] \in Seq(S)
    BY <1>2, <2>1
  <2>3. seqs = [i \in 1..Len(parts) |-> seqs[i]]
    BY <2>1
  <2>. HIDE DEF seqs, S
  <2>. QED BY <2>1, <2>2, <2>3, IsASeq
<1>5. FlattenSeq(seqs) \in Seq(S)
  <2>. HIDE DEF seqs, S
  <2>. QED BY <1>4, Flattened
<1>6. batch.scan = id /\ batch.proposals = FlattenSeq(seqs)
  <2>1. batch \in Batch(id, FlattenSeq(seqs), active)
    BY Zenon DEF CombinePreparedRepairs
  <2>. HIDE DEF seqs
  <2>. QED BY <2>1 DEF Batch
<1>. HIDE DEF seqs, S
<1>. QED BY <1>3, <1>5, <1>6, SoundOf

-----------------------------------------------------------------------------
(* What the families make of a finding.                                    *)

\* Nothing is made of the finding of another scan.
LEMMA RepairsAreOfScan ==
  ASSUME NEW k \in 1..3, NEW s, NEW f, NEW source, NEW ops \in Repairs(k, s, f, source) \ {{}}
  PROVE  f.scan = s.id
<1>1. CASE ops \in ReferenceRepair(s, f, source)
  BY <1>1 DEF ReferenceRepair
<1>2. CASE ops \in TaskDecisionRepair(s, f, source)
  <2>1. BuildSelectionRequest(s, f) # {}
    BY <1>2 DEF TaskDecisionRepair
  <2>. QED BY <2>1 DEF BuildSelectionRequest
<1>3. CASE ops \in TemplateRepair(s, f, source)
  <2>1. ops = TemplateOperation(s, source, f) /\ ops # {}
    BY <1>3 DEF TemplateRepair
  <2>. QED BY <2>1 DEF TemplateOperation
<1>. QED BY <1>1, <1>2, <1>3 DEF Repairs

\* What is made of a missing field is decided by the snapshot.
LEMMA TemplateRepairIsDecided ==
  ASSUME NEW s, NEW f, NEW source, NEW ops \in TemplateRepair(s, f, source) \ {{}}, NEW p, p.ops = ops
  PROVE  Effect(p) = TemplateEffect(s, f)
<1>. DEFINE values == BuildTemplateRepairCandidates(s, f)
            One(x) == Operation(f.path, source, <<"top">>, f.what, <<x>>, TRUE)
<1>1. ops = TemplateOperation(s, source, f) /\ ops # {}
  BY DEF TemplateRepair
<1>2. f.what \notin DOMAIN source.fm /\ ops = UNION {FrontmatterOperation(f.path, source, f.what, x) : x \in values}
  BY <1>1, Zenon DEF TemplateOperation
<1>3. source.fm # <<>>
  <2>1. PICK x \in values : FrontmatterOperation(f.path, source, f.what, x) # {}
    <3>. HIDE DEF values
    <3>. QED BY <1>1, <1>2
  <2>. QED BY <2>1 DEF FrontmatterOperation
<1>4. \A x : FrontmatterOperation(f.path, source, f.what, x) = {One(x)}
  <2>. HIDE DEF One
  <2>1. {y \in {1} : source.fm # <<>>} = {1}
    BY <1>3
  <2>. QED BY <1>2, <2>1 DEF FrontmatterOperation, One
<1>5. ops = {One(x) : x \in values}
  <2>. HIDE DEF One, values
  <2>. QED BY <1>2, <1>4
<1>6. \A x : LET o == One(x) IN <<o.path, o.place, o.key, o.value>> = <<f.path, <<"top">>, f.what, <<x>>>>
  BY DEF Operation
<1>7. Effect(p) = {<<f.path, <<"top">>, f.what, <<x>>>> : x \in values}
  <2>1. Effect(p) = {<<o.path, o.place, o.key, o.value>> : o \in ops}
    BY Zenon DEF Effect
  <2>. HIDE DEF One, values
  <2>2. Effect(p) = {LET o == One(x) IN <<o.path, o.place, o.key, o.value>> : x \in values}
    BY <1>5, <2>1
  <2>. QED BY <1>6, <2>2
<1>. QED BY <1>7 DEF TemplateEffect

-----------------------------------------------------------------------------
(* What steps have in common.                                              *)

\* A snapshot that is known stays so, until the next scan ends.
KnownStays == Known(snapshot) => Known(snapshot)'

\* Without a step of a scan the order of scans is as it was.
LEMMA ScansStand ==
  ASSUME ScansOrdered, UNCHANGED scanVars
  PROVE  ScansOrdered' /\ KnownStays
BY DEF ScansOrdered, scanVars, Known, KnownStays

\* A scan that begins has the next number.
LEMMA ScanStarts ==
  ASSUME ScansOrdered, scan = Nothing, scans' = scans + 1, UNCHANGED snapshot,
         NEW notes, NEW who, scan' = [id |-> scans + 1, notes |-> notes, for |-> who]
  PROVE  ScansOrdered' /\ KnownStays
<1>1. scans \in Nat /\ scans' \in Nat /\ scans' = scans + 1
  BY DEF ScansOrdered
<1>2. scan' = [id |-> scan'.id, notes |-> scan'.notes, for |-> scan'.for] /\ scan'.id = scans'
  OBVIOUS
<1>3. KnownStays
  BY <1>1 DEF KnownStays, Known
<1>. QED BY <1>1, <1>2, <1>3 DEF ScansOrdered, KnownStays

\* Rows stay sound while they and the active snapshot stay.
LEMMA RowsStand ==
  ASSUME RowsSound, KnownStays, UNCHANGED <<rows, snapshot>>
  PROVE  RowsSound'
<1>1. \A r, s : MadeUnder(r, s)' <=> MadeUnder(r, s)
  BY DEF MadeUnder, SchemaRows, Effect, TemplateEffect
<1>. QED BY DEF RowsSound, KnownStays, SchemaRows, MadeUnder, Effect, TemplateEffect

\* A preparation that takes no step stays sound.
LEMMA PreparingStands ==
  ASSUME PrepSound, KnownStays, UNCHANGED <<rows, snapshot, prep>>
  PROVE  PrepSound'
BY DEF PrepSound, KnownStays, PrepShape, TurnSound, PartsSound

\* There is nothing to say of a preparation that is not under way.
LEMMA NothingPrepares ==
  ASSUME prep' = Off
  PROVE  PrepSound'
BY DEF PrepSound, Off

\* An offer stays sound while rows are only added to.
LEMMA OfferStands ==
  ASSUME PreparedSound, RowsGrow(rows, rows'), UNCHANGED prepared, mode' = mode \/ mode' # "recommendation"
  PROVE  PreparedSound'
BY StaysSound DEF PreparedSound

\* There is nothing to say where nothing is offered.
LEMMA NothingOffered ==
  ASSUME prepared' = Nothing, mode' # "recommendation"
  PROVE  PreparedSound'
BY DEF PreparedSound

\* Rows that stay are only added to.
LEMMA SameRows ==
  ASSUME UNCHANGED rows
  PROVE  RowsGrow(rows, rows')
BY DEF RowsGrow

\* Steps of other handlers leave the application alone.
LEMMA ApplicationStands ==
  ASSUME ApplySound, UNCHANGED scan,
         UNCHANGED flow \/ \E h \in Handlers \ {"apply"} : \E e : flow' = [flow EXCEPT ![h] = e]
  PROVE  ApplySound'
<1>1. "apply" \in Handlers
  BY DEF Handlers
<1>2. flow' = [h \in Handlers |-> flow'[h]] /\ flow'["apply"] = flow["apply"]
  BY <1>1 DEF ApplySound
<1>. QED BY <1>2 DEF ApplySound, ApplyShape, SameEffects, Effect

\* A step of the application itself.
LEMMA ApplicationGoesOn ==
  ASSUME ApplySound, NEW a, flow' = [flow EXCEPT !["apply"] = a],
         a.at # "off" => ApplyShape(a) /\ SameEffects(a),
         scan' # Nothing /\ scan'.for = "apply" => a.at = "reindexing"
  PROVE  ApplySound'
<1>1. "apply" \in Handlers
  BY DEF Handlers
<1>2. flow' = [h \in Handlers |-> flow'[h]] /\ flow'["apply"] = a
  BY <1>1 DEF ApplySound
<1>. QED BY <1>2 DEF ApplySound, ApplyShape, SameEffects, Effect

\* Where an application is says nothing about what it writes.
LEMMA PlaceChanges ==
  ASSUME NEW a, ApplyShape(a), SameEffects(a), NEW at
  PROVE  /\ ApplyShape([a EXCEPT !.at = at]) /\ SameEffects([a EXCEPT !.at = at]) /\ [a EXCEPT !.at = at].at = at
         /\ LET b == [a EXCEPT !.at = at, !.ok = TRUE] IN ApplyShape(b) /\ SameEffects(b) /\ b.at = at
<1>. DEFINE b == [a EXCEPT !.at = at]
            c == [a EXCEPT !.at = at, !.ok = TRUE]
<1>1. b = [at |-> at, batch |-> a.batch, loaded |-> a.loaded, ok |-> a.ok]
  BY DEF ApplyShape
<1>2. c = [at |-> at, batch |-> a.batch, loaded |-> a.loaded, ok |-> TRUE]
  <2>1. c = [b EXCEPT !.ok = TRUE]
    OBVIOUS
  <2>. HIDE DEF b, c
  <2>. QED BY <1>1, <2>1
<1>3. b.at = at /\ b.batch = a.batch /\ b.loaded = a.loaded /\ ApplyShape(b)
  BY <1>1 DEF ApplyShape
<1>4. c.at = at /\ c.batch = a.batch /\ c.loaded = a.loaded /\ ApplyShape(c)
  BY <1>2 DEF ApplyShape
<1>. HIDE DEF b, c
<1>5. SameEffects(b) /\ SameEffects(c)
  BY <1>3, <1>4 DEF SameEffects
<1>. QED BY <1>3, <1>4, <1>5 DEF b, c

\* A proposal is stored beside the others, if it is not there already.
LEMMA StoredBeside ==
  ASSUME NEW r, NEW p, p.id \in DOMAIN r => Effect(r[p.id]) = Effect(p), NEW q, q = Stores(r, p)
  PROVE  /\ RowsGrow(r, q) /\ Kept(q, p)
         /\ \A id \in DOMAIN q : (id \in DOMAIN r /\ q[id] = r[id]) \/ (id = p.id /\ q[id] = Row(p))
<1>1. /\ DOMAIN q = DOMAIN r \cup {p.id}
      /\ \A id \in DOMAIN q : q[id] = IF id \in DOMAIN r THEN r[id] ELSE Row(p)
  BY DEF Stores
<1>2. Effect(Row(p)) = Effect(p)
  <2>1. Row(p).ops = p.ops
    BY DEF Row
  <2>. QED BY <2>1, Zenon DEF Effect
<1>3. RowsGrow(r, q) /\ Kept(q, p)
  BY <1>1, <1>2 DEF RowsGrow, Kept
<1>4. ASSUME NEW id \in DOMAIN q PROVE (id \in DOMAIN r /\ q[id] = r[id]) \/ (id = p.id /\ q[id] = Row(p))
  <2>1. q[id] = IF id \in DOMAIN r THEN r[id] ELSE Row(p)
    BY <1>1
  <2>2. id \in DOMAIN r \/ id = p.id
    BY <1>1
  <2>. QED BY <2>1, <2>2
<1>. QED BY <1>3, <1>4

\* What the template family makes stays decided by the snapshot as rows are
\* added that are no template's, or are what the snapshot decides.
LEMMA MadeGrows ==
  ASSUME NEW r, NEW q, NEW s, RowsGrow(r, q), MadeUnder(r, s),
         \A id \in SchemaRows(q) :
           id \in DOMAIN r \/ (id[1].scan = s.id => Effect(q[id]) = TemplateEffect(s, id[1]))
  PROVE  MadeUnder(q, s)
BY DEF MadeUnder, SchemaRows, RowsGrow

\* Statuses say nothing about what is written.
LEMMA StatusOnly ==
  ASSUME RowsSound, NEW ids, NEW status, SetStatus(ids, status)
  PROVE  /\ RowsGrow(rows, rows') /\ DOMAIN rows' = DOMAIN rows
         /\ \A id \in DOMAIN rows' :
              LET r == rows'[id] IN r = [status |-> r.status, finding |-> r.finding, scan |-> r.scan, ops |-> r.ops]
<1>1. DOMAIN rows' = DOMAIN rows
  BY DEF SetStatus
<1>2. ASSUME NEW id \in DOMAIN rows
      PROVE  LET r == rows'[id]
             IN /\ r = [status |-> r.status, finding |-> r.finding, scan |-> r.scan, ops |-> r.ops]
                /\ r.ops = rows[id].ops
  <2>1. rows[id] = [status |-> rows[id].status, finding |-> rows[id].finding, scan |-> rows[id].scan, ops |-> rows[id].ops]
    BY DEF RowsSound
  <2>2. rows'[id] = IF id \in ids THEN [rows[id] EXCEPT !.status = status] ELSE rows[id]
    BY DEF SetStatus
  <2>3. \/ rows'[id] = rows[id]
        \/ rows'[id] = [status |-> status, finding |-> rows[id].finding, scan |-> rows[id].scan, ops |-> rows[id].ops]
    BY <2>1, <2>2
  <2>. QED BY <2>1, <2>3
<1>3. RowsGrow(rows, rows')
  BY <1>1, <1>2, Zenon DEF RowsGrow, Effect
<1>. QED BY <1>1, <1>2, <1>3

-----------------------------------------------------------------------------
(* The steps that are not simple.                                          *)

\* A handler that awaited a scan goes on; an application stays what it was.
LEMMA ResumeIsSound ==
  ASSUME ApplySound, PreparedSound, UNCHANGED <<rows, prepared>>, scan # Nothing, scan' = Nothing,
         NEW ok \in BOOLEAN, Resume(scan.for, ok)
  PROVE  ApplySound' /\ PreparedSound'
<1>1. RowsGrow(rows, rows')
  BY SameRows
<1>2. mode' = mode \/ mode' # "recommendation"
  BY DEF Resume
<1>3. PreparedSound'
  BY <1>1, <1>2, OfferStands
<1>4. CASE flow' = flow \/ \E e : flow' = [flow EXCEPT !["check"] = e]
  <2>1. "check" \in Handlers /\ "apply" \in Handlers
    BY DEF Handlers
  <2>2. flow' = [h \in Handlers |-> flow'[h]] /\ flow'["apply"] = flow["apply"]
    BY <1>4, <2>1 DEF ApplySound
  <2>. QED BY <1>3, <2>2 DEF ApplySound, ApplyShape, SameEffects, Effect
<1>5. CASE scan.for = "apply" /\ flow' = [flow EXCEPT !["apply"].at = "flushing"]
  <2>. DEFINE a == [flow["apply"] EXCEPT !.at = "flushing"]
  <2>1. flow' = [flow EXCEPT !["apply"] = a]
    BY <1>5
  <2>2. ApplyShape(flow["apply"]) /\ SameEffects(flow["apply"])
    BY <1>5 DEF ApplySound
  <2>3. ApplyShape(a) /\ SameEffects(a)
    BY <2>2, PlaceChanges
  <2>. HIDE DEF a
  <2>. QED BY <1>3, <2>1, <2>3, ApplicationGoesOn
<1>. QED BY <1>4, <1>5 DEF Resume

\* A scan that ends makes a snapshot with a number no finding has yet.
LEMMA CompleteScanIsSound ==
  ASSUME WorkspaceInv, CompleteScan
  PROVE  WorkspaceInv'
<1>. USE DEF WorkspaceInv
<1>1. /\ scan # Nothing /\ scan' = Nothing /\ scans' = scans
      /\ snapshot' = [id |-> scan.id, notes |-> scan.notes]
      /\ UNCHANGED <<rows, prepared, prep>> /\ \E flushed \in BOOLEAN : Resume(scan.for, flushed)
  BY DEF CompleteScan, scanVars
<1>2. ApplySound' /\ PreparedSound'
  BY <1>1, ResumeIsSound
<1>3. scans \in Nat /\ scan.id = scans /\ snapshot'.id = scans
  BY <1>1 DEF ScansOrdered
<1>4. Known(snapshot)' /\ ScansOrdered'
  BY <1>1, <1>3 DEF Known, ScansOrdered
<1>5. Known(snapshot) => snapshot.id \in Nat /\ snapshot.id < snapshot'.id
  BY <1>1, <1>3 DEF Known
<1>6. RowsSound'
  <2>1. \A id \in SchemaRows(rows) : id[1].scan \in Nat /\ id[1].scan < snapshot'.id
    BY <1>3, <1>5 DEF RowsSound
  <2>2. MadeUnder(rows, snapshot')
    BY <2>1, <1>3 DEF MadeUnder
  <2>3. rows' = rows
    BY <1>1
  <2>. QED BY <1>3, <1>4, <2>1, <2>2, <2>3 DEF RowsSound
<1>7. PrepSound'
  <2>1. SUFFICES ASSUME prep.at # "off"
        PROVE  PrepShape' /\ Known(snapshot)' /\ TurnSound(prep.turn, rows)' /\ PartsSound(prep.parts, rows)'
    BY <1>1 DEF PrepSound
  <2>2. PrepShape /\ Known(snapshot) /\ TurnSound(prep.turn, rows) /\ PartsSound(prep.parts, rows)
    BY <2>1 DEF PrepSound
  <2>3. TurnSound(prep.turn, rows)'
    <3>1. prep' = prep /\ rows' = rows
      BY <1>1
    <3>. DEFINE t == prep.turn
    <3>2. TurnShape(t) /\ MadeUnder(rows, t.snapshot) /\ t.family \in 1..3
          /\ (\A f \in t.todo : f.type \in Types[t.family]) /\ Sound(rows, t.snapshot.id, t.got)
      BY <2>2 DEF TurnSound
    <3>3. t.snapshot.id \in Nat /\ t.snapshot.id < snapshot'.id
      <4>1. t.snapshot.id \in Nat /\ t.snapshot.id <= snapshot.id
        BY <2>2 DEF TurnSound
      <4>. QED BY <4>1, <2>2, <1>3, <1>5
    <3>4. t.snapshot.id <= snapshot'.id /\ t.snapshot.id # snapshot'.id
      BY <3>3, <1>3
    <3>. QED BY <3>1, <3>2, <3>3, <3>4 DEF TurnSound
  <2>4. PrepShape' /\ PartsSound(prep.parts, rows)'
    BY <1>1, <2>2 DEF PrepShape, PartsSound
  <2>. QED BY <1>4, <2>3, <2>4
<1>. QED BY <1>2, <1>4, <1>6, <1>7

\* A finding is left as it is.
LEMMA SkipIsSound ==
  ASSUME PrepSound, RowsSound, prep.at # "off", UNCHANGED <<rows, scanVars>>, NEW f, Skip(f)
  PROVE  PrepSound'
<1>. DEFINE t == prep.turn
            u == [t EXCEPT !.todo = @ \ {f}]
<1>1. PrepShape /\ Known(snapshot) /\ TurnSound(t, rows) /\ PartsSound(prep.parts, rows)
  BY DEF PrepSound
<1>2. prep' = [prep EXCEPT !.turn = u]
  BY DEF Skip, Unrepairable
<1>3. prep' = [at |-> prep.at, for |-> prep.for, findings |-> prep.findings, parts |-> prep.parts, turn |-> u]
  <2>. HIDE DEF u
  <2>. QED BY <1>1, <1>2 DEF PrepShape
<1>4. u = [family |-> t.family, snapshot |-> t.snapshot, todo |-> t.todo \ {f}, got |-> t.got]
  BY <1>1 DEF TurnSound, TurnShape
<1>5. PrepShape'
  BY <1>3 DEF PrepShape
<1>6. TurnSound(u, rows)
  <2>1. /\ u.family = t.family /\ u.snapshot = t.snapshot /\ u.todo = t.todo \ {f} /\ u.got = t.got
        /\ TurnShape(u)
    BY <1>4 DEF TurnShape
  <2>. HIDE DEF u
  <2>. QED BY <1>1, <2>1 DEF TurnSound
<1>. HIDE DEF u
<1>7. prep'.turn = u /\ prep'.parts = prep.parts
  BY <1>3
<1>8. TurnSound(prep.turn, rows)'
  BY <1>6, <1>7 DEF TurnSound, scanVars
<1>9. PartsSound(prep.parts, rows)' /\ Known(snapshot)'
  BY <1>1, <1>7 DEF PartsSound, Known, scanVars
<1>. QED BY <1>5, <1>8, <1>9 DEF PrepSound

\* A proposal that is made of the finding of a turn, and that a stored one of
\* its id, if any, allows: what it writes is what is stored.
LEMMA MadeIsKept ==
  ASSUME RowsSound, NEW t, TurnSound(t, rows), NEW f \in t.todo, NEW source,
         NEW ops \in Repairs(t.family, t.snapshot, f, source) \ {{}},
         NEW p, p = Proposal(<<f>>, f, ops), MayPersist(t.family, p)
  PROVE  /\ f.scan = t.snapshot.id
         /\ f.type = "schema" => Effect(p) = TemplateEffect(t.snapshot, f)
         /\ p.id \in DOMAIN rows => Effect(rows[p.id]) = Effect(p)
<1>. DEFINE k == t.family
<1>1. k \in 1..3 /\ f.type \in Types[k]
  BY DEF TurnSound
<1>2. p.id = <<f>> /\ p.ops = ops
  BY DEF Proposal
<1>3. f.scan = t.snapshot.id
  BY <1>1, RepairsAreOfScan
<1>4. (f.type = "schema" <=> k = 3) /\ (Families[k] = "template" <=> k = 3)
  BY <1>1 DEF Types, Families
<1>5. f.type = "schema" => Effect(p) = TemplateEffect(t.snapshot, f)
  <2>1. SUFFICES ASSUME k = 3 PROVE Effect(p) = TemplateEffect(t.snapshot, f)
    BY <1>4
  <2>2. ops \in TemplateRepair(t.snapshot, f, source) \ {{}}
    BY <1>1, <1>4, <2>1 DEF Repairs, Families
  <2>. QED BY <1>2, <2>2, TemplateRepairIsDecided
<1>6. ASSUME p.id \in DOMAIN rows PROVE Effect(rows[p.id]) = Effect(p)
  <2>1. CASE Same(rows[p.id], p)
    BY <2>1, Zenon DEF Same, Effect
  <2>2. CASE k = 3
    <3>1. p.id \in SchemaRows(rows) /\ p.id[1] = f
      BY <1>2, <1>4, <1>6, <2>2 DEF SchemaRows
    <3>2. Effect(rows[p.id]) = TemplateEffect(t.snapshot, f)
      BY <1>3, <3>1 DEF TurnSound, MadeUnder
    <3>. QED BY <1>4, <1>5, <2>2, <3>2
  <2>. QED BY <1>4, <1>6, <2>1, <2>2 DEF MayPersist
<1>. QED BY <1>3, <1>5, <1>6

\* Storing it keeps what the template family makes decided by a snapshot, if
\* it is decided by that snapshot itself.
LEMMA StoringKeepsMade ==
  ASSUME NEW r, NEW p, NEW q, q = Stores(r, p),
         p.id \in DOMAIN r => Effect(r[p.id]) = Effect(p),
         NEW s, MadeUnder(r, s),
         Len(p.id) = 1 /\ p.id[1].type = "schema" /\ p.id[1].scan = s.id => Effect(p) = TemplateEffect(s, p.id[1])
  PROVE  MadeUnder(q, s)
<1>1. /\ RowsGrow(r, q) /\ Kept(q, p)
      /\ \A id \in DOMAIN q : (id \in DOMAIN r /\ q[id] = r[id]) \/ (id = p.id /\ q[id] = Row(p))
  BY StoredBeside
<1>2. ASSUME NEW id \in SchemaRows(q), id \notin DOMAIN r, id[1].scan = s.id
      PROVE  Effect(q[id]) = TemplateEffect(s, id[1])
  <2>1. id = p.id /\ Len(id) = 1 /\ id[1].type = "schema"
    BY <1>1, <1>2 DEF SchemaRows
  <2>. QED BY <1>1, <1>2, <2>1 DEF Kept
<1>. QED BY <1>1, <1>2, MadeGrows

\* Storing a proposal that is new, or as a stored one, keeps the rows sound.
LEMMA StoringKeepsRows ==
  ASSUME RowsSound, KnownStays, UNCHANGED snapshot, NEW p, rows' = Stores(rows, p),
         p.id \in DOMAIN rows => Effect(rows[p.id]) = Effect(p),
         Len(p.id) = 1 /\ p.id[1].type = "schema" =>
           /\ Known(snapshot) /\ p.id[1].scan \in Nat /\ p.id[1].scan <= snapshot.id
           /\ p.id[1].scan = snapshot.id => Effect(p) = TemplateEffect(snapshot, p.id[1])
  PROVE  RowsSound' /\ RowsGrow(rows, rows') /\ Kept(rows', p)
<1>1. /\ RowsGrow(rows, rows') /\ Kept(rows', p)
      /\ \A id \in DOMAIN rows' : (id \in DOMAIN rows /\ rows'[id] = rows[id]) \/ (id = p.id /\ rows'[id] = Row(p))
  BY StoredBeside
<1>2. MadeUnder(rows', snapshot)
  <2>1. MadeUnder(rows, snapshot)
    BY DEF RowsSound
  <2>. QED BY <2>1, StoringKeepsMade
<1>3. ASSUME NEW id \in SchemaRows(rows')
      PROVE  Known(snapshot)' /\ id[1].scan \in Nat /\ id[1].scan <= snapshot.id
  <2>1. CASE id \in DOMAIN rows
    <3>1. id \in SchemaRows(rows)
      BY <1>3, <2>1 DEF SchemaRows
    <3>. QED BY <3>1 DEF RowsSound, KnownStays
  <2>2. CASE id \notin DOMAIN rows
    <3>1. id = p.id /\ Len(id) = 1 /\ id[1].type = "schema"
      BY <1>1, <1>3, <2>2 DEF SchemaRows
    <3>. QED BY <3>1 DEF KnownStays
  <2>. QED BY <2>1, <2>2
<1>4. ASSUME NEW id \in DOMAIN rows'
      PROVE  LET r == rows'[id] IN r = [status |-> r.status, finding |-> r.finding, scan |-> r.scan, ops |-> r.ops]
  <2>1. CASE id \in DOMAIN rows /\ rows'[id] = rows[id]
    BY <2>1 DEF RowsSound
  <2>2. CASE rows'[id] = Row(p)
    BY <2>2 DEF Row
  <2>. QED BY <1>1, <2>1, <2>2
<1>5. RowsSound'
  BY <1>2, <1>3, <1>4 DEF RowsSound
<1>. QED BY <1>1, <1>5

\* A finding is skipped, or a proposal of it stored, or all given up.
LEMMA PrepareFindingIsSound ==
  ASSUME WorkspaceInv, PrepareFinding
  PROVE  WorkspaceInv'
<1>. USE DEF WorkspaceInv
<1>. DEFINE t == prep.turn
            k == t.family
            P(f, ops) == Proposal(<<f>>, f, ops)
<1>1. prep.at = "family" /\ UNCHANGED <<worldVars, scanVars, viewVars, flow, rounds>>
  BY DEF PrepareFinding
<1>2. ScansOrdered' /\ KnownStays
  BY <1>1, ScansStand
<1>3. ApplySound'
  BY <1>1, ApplicationStands DEF scanVars
<1>4. PrepShape /\ Known(snapshot) /\ TurnSound(t, rows) /\ PartsSound(prep.parts, rows)
  BY <1>1 DEF PrepSound
<1>5. UNCHANGED <<scans, scan, snapshot, mode, prepared>>
  BY <1>1 DEF scanVars, viewVars
<1>6. ASSUME NEW f \in t.todo, Skip(f), UNCHANGED rows
      PROVE  WorkspaceInv'
  <2>1. RowsSound'
    BY <1>2, <1>5, <1>6, RowsStand
  <2>2. PrepSound'
    BY <1>1, <1>6, SkipIsSound
  <2>3. PreparedSound'
    BY <1>5, <1>6, SameRows, OfferStands
  <2>. QED BY <1>2, <1>3, <2>1, <2>2, <2>3
<1>7. ASSUME AbandonPreparing, UNCHANGED rows
      PROVE  WorkspaceInv'
  <2>1. RowsSound'
    BY <1>2, <1>5, <1>7, RowsStand
  <2>2. prep' = [at |-> "rejected", for |-> prep.for, findings |-> prep.findings, parts |-> prep.parts, turn |-> prep.turn]
    BY <1>4, <1>7 DEF AbandonPreparing, PrepShape
  <2>3. PrepShape' /\ prep'.turn = prep.turn /\ prep'.parts = prep.parts
    BY <2>2 DEF PrepShape
  <2>4. PrepSound'
    BY <1>2, <1>4, <1>5, <1>7, <2>3 DEF PrepSound, KnownStays, TurnSound, PartsSound
  <2>5. PreparedSound'
    BY <1>5, <1>7, SameRows, OfferStands
  <2>. QED BY <1>2, <1>3, <2>1, <2>4, <2>5
<1>8. ASSUME NEW f \in t.todo, NEW ops \in Repairs(k, t.snapshot, f, vault[f.path]) \ {{}},
             MayPersist(k, P(f, ops)), rows' = Stores(rows, P(f, ops)),
             prep' = [prep EXCEPT !.turn.todo = @ \ {f}, !.turn.got = Append(@, P(f, ops))]
      PROVE  WorkspaceInv'
  <2>. DEFINE p == P(f, ops)
              u == [family |-> t.family, snapshot |-> t.snapshot, todo |-> t.todo \ {f}, got |-> Append(t.got, p)]
  <2>1. /\ f.scan = t.snapshot.id
        /\ f.type = "schema" => Effect(p) = TemplateEffect(t.snapshot, f)
        /\ p.id \in DOMAIN rows => Effect(rows[p.id]) = Effect(p)
    BY <1>1, <1>4, <1>8, MadeIsKept
  <2>2. p.id = <<f>> /\ p.scan = f.scan /\ Len(p.id) = 1 /\ p.id[1] = f
    BY DEF Proposal
  <2>. HIDE DEF P
  <2>3. RowsSound' /\ RowsGrow(rows, rows') /\ Kept(rows', p) /\ MadeUnder(rows', t.snapshot)
    <3>1. /\ MadeUnder(rows, t.snapshot) /\ t.snapshot.id \in Nat /\ t.snapshot.id <= snapshot.id
          /\ t.snapshot.id = snapshot.id => t.snapshot = snapshot
      BY <1>4 DEF TurnSound
    <3>2. p.id[1].type = "schema" =>
            p.id[1].scan = t.snapshot.id /\ Effect(p) = TemplateEffect(t.snapshot, p.id[1])
      BY <2>1, <2>2
    <3>3. rows' = Stores(rows, p) /\ UNCHANGED snapshot
      BY <1>5, <1>8
    <3>4. p.id[1].type = "schema" =>
            /\ Known(snapshot) /\ p.id[1].scan \in Nat /\ p.id[1].scan <= snapshot.id
            /\ p.id[1].scan = snapshot.id => Effect(p) = TemplateEffect(snapshot, p.id[1])
      <4>. HIDE DEF p
      <4>. QED BY <1>4, <3>1, <3>2
    <3>. HIDE DEF p, t
    <3>5. MadeUnder(rows', t.snapshot)
      BY <2>1, <3>1, <3>2, <3>3, StoringKeepsMade
    <3>. QED BY <1>2, <2>1, <3>3, <3>4, <3>5, StoringKeepsRows
  <2>4. prep' = [at |-> prep.at, for |-> prep.for, findings |-> prep.findings, parts |-> prep.parts, turn |-> u]
    <3>1. prep' = [prep EXCEPT !.turn = [t EXCEPT !.todo = @ \ {f}, !.got = Append(@, p)]]
      BY <1>4, <1>8 DEF PrepShape
    <3>2. [t EXCEPT !.todo = @ \ {f}, !.got = Append(@, p)] = u
      <4>1. t = [family |-> t.family, snapshot |-> t.snapshot, todo |-> t.todo, got |-> t.got]
        BY <1>4 DEF TurnSound, TurnShape
      <4>. DEFINE w == [t EXCEPT !.todo = @ \ {f}]
      <4>2. w = [family |-> t.family, snapshot |-> t.snapshot, todo |-> t.todo \ {f}, got |-> t.got]
        <5>. HIDE DEF t
        <5>. QED BY <4>1
      <4>3. [w EXCEPT !.got = Append(@, p)] = u
        <5>1. w.got = t.got
          BY <4>2
        <5>2. [w EXCEPT !.got = Append(@, p)] = [w EXCEPT !.got = Append(t.got, p)]
          <6>. HIDE DEF w, t, p
          <6>. QED BY <5>1
        <5>. DEFINE last == Append(t.got, p)
        <5>3. [w EXCEPT !.got = last] = [family |-> t.family, snapshot |-> t.snapshot, todo |-> t.todo \ {f}, got |-> last]
          <6>. HIDE DEF w, t, p, last
          <6>. QED BY <4>2
        <5>. QED BY <5>2, <5>3
      <4>4. [t EXCEPT !.todo = @ \ {f}, !.got = Append(@, p)] = [w EXCEPT !.got = Append(@, p)]
        <5>. HIDE DEF t, p
        <5>. QED BY <4>1
      <4>. QED BY <4>3, <4>4
    <3>. HIDE DEF u, p
    <3>. QED BY <1>4, <3>1, <3>2 DEF PrepShape
  <2>5. Sound(rows', t.snapshot.id, Append(t.got, p))
    <3>1. Sound(rows', t.snapshot.id, t.got)
      BY <1>4, <2>3, StaysSound DEF TurnSound
    <3>. HIDE DEF p
    <3>. QED BY <2>1, <2>2, <2>3, <3>1, OneMoreIsSound
  <2>6. TurnSound(u, rows')
    <3>1. /\ u.family = t.family /\ u.snapshot = t.snapshot /\ u.todo = t.todo \ {f} /\ u.got = Append(t.got, p)
          /\ TurnShape(u)
      BY DEF TurnShape
    <3>. HIDE DEF u, p
    <3>. QED BY <1>4, <2>3, <2>5, <3>1 DEF TurnSound
  <2>7. PartsSound(prep.parts, rows')
    BY <1>4, <2>3, StaysSound DEF PartsSound
  <2>. HIDE DEF u, p
  <2>8. PrepShape' /\ prep'.turn = u /\ prep'.parts = prep.parts
    BY <2>4 DEF PrepShape
  <2>9. PrepSound'
    BY <1>2, <1>4, <1>5, <2>6, <2>7, <2>8 DEF PrepSound, KnownStays, TurnSound, PartsSound
  <2>10. PreparedSound'
    BY <1>5, <2>3, OfferStands
  <2>. QED BY <1>2, <1>3, <2>3, <2>9, <2>10
<1>9. \E f \in t.todo :
        \/ Skip(f) /\ UNCHANGED rows
        \/ \E ops \in Repairs(k, t.snapshot, f, vault[f.path]) \ {{}} :
             IF MayPersist(k, P(f, ops))
             THEN /\ rows' = Stores(rows, P(f, ops))
                  /\ prep' = [prep EXCEPT !.turn.todo = @ \ {f}, !.turn.got = Append(@, P(f, ops))]
             ELSE AbandonPreparing /\ UNCHANGED rows
  BY Zenon DEF PrepareFinding
<1>. HIDE DEF P, t, k
<1>. QED BY <1>6, <1>7, <1>8, <1>9

\* A new turn has the findings of its family, under the active snapshot.
LEMMA TurnStarts ==
  ASSUME NEW k \in 1..3, NEW fs, Known(snapshot), MadeUnder(rows, snapshot)
  PROVE  TurnSound(Turn(k, fs), rows)
<1>. DEFINE t == Turn(k, fs)
<1>1. t = [family |-> k, snapshot |-> snapshot, todo |-> OfFamily(k, fs), got |-> <<>>]
  BY DEF Turn
<1>2. /\ t.family = k /\ t.snapshot = snapshot /\ t.todo = OfFamily(k, fs) /\ t.got = <<>>
      /\ TurnShape(t)
  BY <1>1 DEF TurnShape
<1>. HIDE DEF t
<1>3. \A f \in t.todo : f.type \in Types[t.family]
  BY <1>2 DEF OfFamily
<1>4. Sound(rows, t.snapshot.id, t.got)
  BY <1>2, NoneIsSound
<1>5. t.snapshot.id \in Nat /\ t.snapshot.id <= snapshot.id
  BY <1>2 DEF Known
<1>6. TurnSound(t, rows)
  BY <1>2, <1>3, <1>4, <1>5 DEF TurnSound
<1>. QED BY <1>6 DEF t

\* A preparation begins with nothing, under the active snapshot.
LEMMA BeginPreparingIsSound ==
  ASSUME WorkspaceInv, NEW h, BeginPreparing(h)
  PROVE  WorkspaceInv'
<1>. USE DEF WorkspaceInv
<1>1. snapshot # Nothing /\ UNCHANGED <<scans, scan, snapshot, rows, mode, prepared, flow>>
  BY DEF BeginPreparing, scanVars, viewVars
<1>2. ScansOrdered' /\ KnownStays
  BY <1>1, ScansStand DEF scanVars
<1>3. RowsSound'
  BY <1>1, <1>2, RowsStand
<1>4. PreparedSound' /\ ApplySound'
  BY <1>1, SameRows, OfferStands, ApplicationStands
<1>5. Known(snapshot) /\ MadeUnder(rows, snapshot)
  BY <1>1 DEF ScansOrdered, RowsSound
<1>. DEFINE t == Turn(1, Stored)
<1>6. TurnSound(t, rows)
  BY <1>5, TurnStarts
<1>7. prep' = [at |-> "family", for |-> h, findings |-> Stored, parts |-> <<>>, turn |-> t]
  BY DEF BeginPreparing
<1>. HIDE DEF t
<1>8. PrepShape' /\ prep'.turn = t /\ prep'.parts = <<>>
  BY <1>7 DEF PrepShape
<1>9. PartsSound(<<>>, rows)
  <2>1. <<>> \in Seq(Range(<<>>)) /\ DOMAIN <<>> = {}
    OBVIOUS
  <2>. QED BY <2>1, Zenon DEF PartsSound, IsSequence
<1>10. PrepSound'
  BY <1>1, <1>2, <1>5, <1>6, <1>8, <1>9 DEF PrepSound, KnownStays, TurnSound, PartsSound
<1>. QED BY <1>2, <1>3, <1>4, <1>10

\* A family adds the part it has prepared, and the next one begins.
LEMMA FinishFamilyIsSound ==
  ASSUME WorkspaceInv, FinishFamily
  PROVE  WorkspaceInv'
<1>. USE DEF WorkspaceInv
<1>1. prep.at = "family" /\ UNCHANGED <<scans, scan, snapshot, rows, mode, prepared, flow>>
  BY DEF FinishFamily, scanVars, viewVars
<1>2. ScansOrdered' /\ KnownStays
  BY <1>1, ScansStand DEF scanVars
<1>3. RowsSound'
  BY <1>1, <1>2, RowsStand
<1>4. PreparedSound' /\ ApplySound'
  BY <1>1, SameRows, OfferStands, ApplicationStands
<1>. DEFINE t == prep.turn
            part == [scan |-> t.snapshot.id, proposals |-> t.got]
            parts == IF t.got = <<>> THEN prep.parts ELSE Append(prep.parts, part)
<1>5. PrepShape /\ Known(snapshot) /\ TurnSound(t, rows) /\ PartsSound(prep.parts, rows)
  BY <1>1 DEF PrepSound
<1>6. PartsSound(parts, rows)
  <2>1. CASE t.got = <<>>
    BY <1>5, <2>1
  <2>2. CASE t.got # <<>>
    <3>. DEFINE S == Range(prep.parts) \cup {part}
    <3>1. prep.parts \in Seq(Range(prep.parts))
      BY <1>5 DEF PartsSound, IsSequence
    <3>2. prep.parts \in Seq(S)
      BY <3>1, SeqMonotonic
    <3>3. ASSUME NEW x \in S PROVE Sound(rows, x.scan, x.proposals)
      <4>1. CASE x = part
        <5>1. x.scan = t.snapshot.id /\ x.proposals = t.got
          BY <4>1
        <5>. QED BY <1>5, <5>1 DEF TurnSound
      <4>2. CASE x \in Range(prep.parts)
        BY <1>5, <4>2 DEF PartsSound, Range
      <4>. HIDE DEF part
      <4>. QED BY <4>1, <4>2
    <3>4. part \in S
      <4>. HIDE DEF part
      <4>. QED OBVIOUS
    <3>5. parts = Append(prep.parts, part)
      <4>. HIDE DEF part
      <4>. QED BY <2>2
    <3>. HIDE DEF S, part, parts
    <3>6. parts \in Seq(S)
      BY <3>2, <3>4, <3>5, AppendProperties
    <3>7. DOMAIN parts = 1..Len(parts) /\ \A i \in 1..Len(parts) : parts[i] \in S
      BY <3>6, LenProperties, ElementOfSeq
    <3>8. parts \in Seq(Range(parts))
      BY <3>6, <3>7, IsASeq, LenProperties DEF Range
    <3>. QED BY <3>3, <3>7, <3>8 DEF PartsSound, IsSequence
  <2>. QED BY <2>1, <2>2
<1>. HIDE DEF parts, part
<1>7. CASE t.family < Len(Families) /\ prep' = [prep EXCEPT !.parts = parts, !.turn = Turn(t.family + 1, prep.findings)]
  <2>. DEFINE u == Turn(t.family + 1, prep.findings)
  <2>1. MadeUnder(rows, snapshot)
    BY DEF RowsSound
  <2>2. t.family + 1 \in 1..3
    BY <1>5, <1>7 DEF TurnSound, Families
  <2>3. TurnSound(u, rows)
    BY <1>5, <2>1, <2>2, TurnStarts
  <2>. HIDE DEF u
  <2>4. prep' = [at |-> prep.at, for |-> prep.for, findings |-> prep.findings, parts |-> parts, turn |-> u]
    <3>1. prep' = [prep EXCEPT !.parts = parts, !.turn = u]
      BY <1>7 DEF u
    <3>. QED BY <1>5, <3>1 DEF PrepShape
  <2>5. PrepShape' /\ prep'.turn = u /\ prep'.parts = parts
    BY <2>4 DEF PrepShape
  <2>6. PrepSound'
    BY <1>1, <1>2, <1>5, <1>6, <2>3, <2>5 DEF PrepSound, KnownStays, TurnSound, PartsSound
  <2>. QED BY <1>2, <1>3, <1>4, <2>6
<1>8. CASE prep' = [prep EXCEPT !.parts = parts, !.at = "combining"]
  <2>1. prep' = [at |-> "combining", for |-> prep.for, findings |-> prep.findings, parts |-> parts, turn |-> prep.turn]
    BY <1>5, <1>8 DEF PrepShape
  <2>2. PrepShape' /\ prep'.turn = prep.turn /\ prep'.parts = parts
    BY <2>1 DEF PrepShape
  <2>3. PrepSound'
    BY <1>1, <1>2, <1>5, <1>6, <2>2 DEF PrepSound, KnownStays, TurnSound, PartsSound
  <2>. QED BY <1>2, <1>3, <1>4, <2>3
<1>9. prep' = IF t.family < Len(Families)
              THEN [prep EXCEPT !.parts = parts, !.turn = Turn(t.family + 1, prep.findings)]
              ELSE [prep EXCEPT !.parts = parts, !.at = "combining"]
  BY Zenon DEF FinishFamily, parts, part
<1>. HIDE DEF t
<1>. QED BY <1>7, <1>8, <1>9

\* What is recommended comes of the parts, which are of the active scan.
LEMMA ChooseIsSound ==
  ASSUME WorkspaceInv, NEW h \in {"check", "next"}, Choose(h)
  PROVE  WorkspaceInv'
<1>. USE DEF WorkspaceInv
<1>1. prep' = Off /\ flow' = [flow EXCEPT ![h] = Off] /\ UNCHANGED <<scans, scan, snapshot, rows>>
  BY DEF Choose, scanVars
<1>2. ScansOrdered' /\ KnownStays
  BY <1>1, ScansStand DEF scanVars
<1>3. RowsSound' /\ PrepSound'
  BY <1>1, <1>2, RowsStand, NothingPrepares
<1>4. ApplySound'
  BY <1>1, ApplicationStands DEF Handlers
<1>. DEFINE all == IF prep.at = "rejected" THEN {}
                   ELSE CombinePreparedRepairs(snapshot.id, Cardinality(prep.findings), prep.parts)
            active == ActiveOf(flow[h].findings, flow[h].dismissed)
<1>5. PICK flushed \in BOOLEAN : ChooseNext(active, IF flushed THEN all ELSE {})
  BY Zenon DEF Choose
<1>. DEFINE offered == IF flushed THEN all ELSE {}
            Allowed(p) == {x.id : x \in {y \in Range(p.proposals) : y.finding \in active}}
            next == UNION {SelectPreparedRepairItems(p, Allowed(p), Cardinality(active)) : p \in offered}
<1>6. ASSUME NEW p \in offered PROVE Sound(rows, p.scan, p.proposals)
  <2>1. p \in CombinePreparedRepairs(snapshot.id, Cardinality(prep.findings), prep.parts)
    BY <1>6, Zenon
  <2>2. prep.at # "off"
    BY DEF Choose
  <2>3. PartsSound(prep.parts, rows)
    BY <2>2 DEF PrepSound
  <2>. QED BY <2>1, <2>3, CombinationIsSound
<1>7. IF next = {} THEN ShowJudgment(active)
      ELSE prepared' = (CHOOSE p \in next : TRUE) /\ mode' = "recommendation"
  BY <1>5, Zenon DEF ChooseNext
<1>8. CASE next = {}
  <2>1. prepared' = Nothing /\ mode' # "recommendation"
    BY <1>7, <1>8 DEF ShowJudgment
  <2>. QED BY <1>2, <1>3, <1>4, <2>1, NothingOffered
<1>9. CASE next # {}
  <2>1. prepared' \in next
    <3>. HIDE DEF next
    <3>. QED BY <1>7, <1>9
  <2>2. PICK p \in offered : prepared' \in SelectPreparedRepairItems(p, Allowed(p), Cardinality(active))
    <3>. HIDE DEF Allowed, active, offered
    <3>. QED BY <2>1
  <2>3. Sound(rows, prepared'.scan, prepared'.proposals)
    <3>. HIDE DEF Allowed, active, offered
    <3>. QED BY <1>6, <2>2, SelectionIsSound
  <2>4. PreparedSound'
    BY <1>1, <2>3 DEF PreparedSound
  <2>. QED BY <1>2, <1>3, <1>4, <2>4
<1>. QED BY <1>8, <1>9

\* A consolidation is stored, and offered alone.
LEMMA ConsolidatedIsSound ==
  ASSUME WorkspaceInv, Consolidated
  PROVE  WorkspaceInv'
<1>. USE DEF WorkspaceInv
<1>1. flow' = [flow EXCEPT !["consolidate"] = Off] /\ UNCHANGED <<scans, scan, snapshot, prep>>
  BY DEF Consolidated, scanVars
<1>2. ScansOrdered' /\ KnownStays
  BY <1>1, ScansStand DEF scanVars
<1>3. ApplySound'
  BY <1>1, ApplicationStands DEF Handlers
<1>. DEFINE c == flow["consolidate"]
            f == c.finding
            duplicate == IF c.canonical = f.path THEN f.what ELSE f.path
            ops == IF c.snapshot.id = f.scan THEN ConsolidationOperations(c.snapshot, vault, c.canonical, duplicate) ELSE {}
            p == Proposal(<<f, c.canonical>>, f, ops)
            made == {[scan |-> c.snapshot.id, proposals |-> <<p>>, outcome |-> o] :
                       o \in CalculatePreparedRepairOutcome(<<p>>, c.active, 0)}
            persists == ops # {} /\ (p.id \in DOMAIN rows => Same(rows[p.id], p))
<1>4. IF ~ persists THEN UNCHANGED <<rows, viewVars>>
      ELSE /\ rows' = Stores(rows, p)
           /\ \/ UNCHANGED viewVars
              \/ \E b \in made : prepared' = b
  BY Zenon DEF Consolidated
<1>5. CASE ~ persists
  <2>1. UNCHANGED <<rows, mode, prepared>>
    <3>. HIDE DEF persists
    <3>. QED BY <1>4, <1>5 DEF viewVars
  <2>. QED BY <1>1, <1>2, <1>3, <2>1, RowsStand, PreparingStands, SameRows, OfferStands
<1>6. CASE persists
  <2>1. rows' = Stores(rows, p) /\ (UNCHANGED viewVars \/ \E b \in made : prepared' = b)
    <3>. HIDE DEF persists, made, p
    <3>. QED BY <1>4, <1>6
  <2>2. f.scan = c.snapshot.id
    BY <1>6
  <2>3. p.id \in DOMAIN rows => Effect(rows[p.id]) = Effect(p)
    <3>1. p.id \in DOMAIN rows => rows[p.id].ops = p.ops
      <4>. HIDE DEF p
      <4>. QED BY <1>6 DEF Same
    <3>. HIDE DEF p
    <3>. QED BY <3>1, Zenon DEF Effect
  <2>4. p.scan = f.scan /\ p.id = <<f, c.canonical>>
    BY DEF Proposal
  <2>5. Len(p.id) = 2
    <3>. HIDE DEF p, f
    <3>. QED BY <2>4
  <2>. HIDE DEF p, f, ops, persists
  <2>6. RowsSound' /\ RowsGrow(rows, rows') /\ Kept(rows', p)
    BY <1>1, <1>2, <2>1, <2>3, <2>5, StoringKeepsRows
  <2>7. PrepSound'
    <3>1. SUFFICES ASSUME prep.at # "off" PROVE PrepSound'
      BY <1>1 DEF PrepSound
    <3>2. PrepShape /\ Known(snapshot) /\ TurnSound(prep.turn, rows) /\ PartsSound(prep.parts, rows)
      BY <3>1 DEF PrepSound
    <3>3. MadeUnder(rows', prep.turn.snapshot)
      <4>1. MadeUnder(rows, prep.turn.snapshot)
        BY <3>2 DEF TurnSound
      <4>. QED BY <2>1, <2>3, <2>5, <4>1, StoringKeepsMade
    <3>4. TurnSound(prep.turn, rows')
      BY <2>6, <3>2, <3>3, StaysSound DEF TurnSound
    <3>5. PartsSound(prep.parts, rows')
      BY <2>6, <3>2, StaysSound DEF PartsSound
    <3>. QED BY <1>1, <1>2, <3>2, <3>4, <3>5 DEF PrepSound, KnownStays, PrepShape, TurnSound, PartsSound
  <2>8. CASE UNCHANGED viewVars
    <3>1. UNCHANGED <<mode, prepared>>
      BY <2>8 DEF viewVars
    <3>. QED BY <1>2, <1>3, <2>6, <2>7, <3>1, OfferStands
  <2>9. CASE \E b \in made : prepared' = b
    <3>1. prepared'.scan = c.snapshot.id /\ prepared'.proposals = <<p>>
      BY <2>9
    <3>2. Sound(rows', c.snapshot.id, <<p>>)
      <4>1. <<p>> = Append(<<>>, p)
        OBVIOUS
      <4>. QED BY <2>2, <2>4, <2>6, <4>1, NoneIsSound, OneMoreIsSound
    <3>3. PreparedSound'
      BY <3>1, <3>2 DEF PreparedSound
    <3>. QED BY <1>2, <1>3, <2>6, <2>7, <3>3
  <2>. QED BY <2>1, <2>8, <2>9
<1>. QED BY <1>5, <1>6

\* The stored proposals of a selection write what is shown.
LEMMA ApplyIsSound ==
  ASSUME WorkspaceInv, Apply
  PROVE  WorkspaceInv'
<1>. USE DEF WorkspaceInv
<1>1. /\ mode = "recommendation" /\ flow["apply"].at = "off" /\ mode' # "recommendation"
      /\ UNCHANGED <<scans, scan, snapshot, rows, prepared, prep>>
  BY DEF Apply, scanVars, Running
<1>2. ScansOrdered' /\ KnownStays
  BY <1>1, ScansStand DEF scanVars
<1>3. RowsSound' /\ PrepSound' /\ PreparedSound'
  BY <1>1, <1>2, RowsStand, PreparingStands, SameRows, OfferStands
<1>4. PICK batch \in SelectPreparedRepairItems(prepared, selected, Cardinality(ActiveOf(findings, dismissed))) :
        \/ UNCHANGED flow
        \/ \E loaded \in LoadRows(batch) :
             flow' = [flow EXCEPT !["apply"] = [at |-> "applying", batch |-> batch, loaded |-> loaded, ok |-> FALSE]]
  BY Zenon DEF Apply
<1>5. CASE UNCHANGED flow
  BY <1>1, <1>2, <1>3, <1>5, ApplicationStands
<1>6. ASSUME NEW loaded \in LoadRows(batch),
             flow' = [flow EXCEPT !["apply"] = [at |-> "applying", batch |-> batch, loaded |-> loaded, ok |-> FALSE]]
      PROVE  WorkspaceInv'
  <2>. DEFINE a == [at |-> "applying", batch |-> batch, loaded |-> loaded, ok |-> FALSE]
  <2>1. Sound(rows, batch.scan, batch.proposals)
    BY <1>1, SelectionIsSound DEF PreparedSound
  <2>2. /\ DOMAIN loaded = DOMAIN batch.proposals
        /\ \A i \in DOMAIN loaded : loaded[i] = rows[batch.proposals[i].id]
    BY DEF LoadRows
  <2>3. \A i \in DOMAIN loaded : Effect(loaded[i]) = Effect(batch.proposals[i])
    BY <2>1, <2>2 DEF Sound, Kept
  <2>4. ApplyShape(a) /\ a.loaded = loaded /\ a.batch = batch
    BY DEF ApplyShape
  <2>5. SameEffects(a)
    <3>. HIDE DEF a
    <3>. QED BY <2>3, <2>4 DEF SameEffects
  <2>6. ~ (scan' # Nothing /\ scan'.for = "apply")
    BY <1>1 DEF ApplySound
  <2>7. flow' = [flow EXCEPT !["apply"] = a]
    BY <1>6
  <2>. HIDE DEF a
  <2>8. ApplySound'
    BY <2>4, <2>5, <2>6, <2>7, ApplicationGoesOn
  <2>. QED BY <1>2, <1>3, <2>8
<1>. QED BY <1>4, <1>5, <1>6

\* An application changes statuses and notes, and may begin a scan.
LEMMA ApplyBatchIsSound ==
  ASSUME WorkspaceInv, ApplyBatch
  PROVE  WorkspaceInv'
<1>. USE DEF WorkspaceInv
<1>. DEFINE a == flow["apply"]
            b == [a EXCEPT !.at = "flushing"]
            Told(at) == [a EXCEPT !.at = at, !.ok = TRUE]
            ids == Ids(a.batch.proposals)
            Starts == /\ scan = Nothing /\ scans' = scans + 1
                      /\ \E notes : scan' = [id |-> scans + 1, notes |-> notes, for |-> "apply"]
<1>1. a.at = "applying" /\ UNCHANGED <<snapshot, mode, prepared, prep>>
  BY DEF ApplyBatch, viewVars
<1>2. ApplyShape(a) /\ SameEffects(a) /\ ~ (scan # Nothing /\ scan.for = "apply")
  BY <1>1 DEF ApplySound
<1>3. /\ UNCHANGED rows \/ \E status : SetStatus(ids, status)
      /\ \/ UNCHANGED <<scan, scans>> /\ flow' = [flow EXCEPT !["apply"] = b]
         \/ UNCHANGED <<scan, scans>> /\ flow' = [flow EXCEPT !["apply"] = Told("flushing")]
         \/ Starts /\ flow' = [flow EXCEPT !["apply"] = Told("reindexing")]
  <2>. DEFINE ops == OpsOf(a.loaded)
              Ends(status) == /\ SetStatus(ids, status)
                              /\ flow' = [flow EXCEPT !["apply"].at = "flushing"]
                              /\ UNCHANGED <<vault, scan, scans>>
              Succeeds == /\ SetStatus(ids, "applied")
                          /\ IF scan = Nothing /\ scans < MaxScans
                             THEN /\ scan' = [Scanned("apply") EXCEPT !.notes = vault'] /\ scans' = scans + 1
                                  /\ flow' = [flow EXCEPT !["apply"] = [@ EXCEPT !.at = "reindexing", !.ok = TRUE]]
                             ELSE /\ flow' = [flow EXCEPT !["apply"] = [@ EXCEPT !.at = "flushing", !.ok = TRUE]]
                                  /\ UNCHANGED <<scan, scans>>
  <2>1. \/ flow' = [flow EXCEPT !["apply"].at = "flushing"] /\ UNCHANGED <<vault, rows, scan, scans>>
        \/ Ends("stale") \/ Ends("apply-failed") \/ Succeeds
    BY Zenon DEF ApplyBatch
  <2>2. ASSUME NEW e PROVE [flow EXCEPT !["apply"] = e]["apply"] = e
    BY DEF ApplySound, Handlers
  <2>3. [flow EXCEPT !["apply"].at = "flushing"] = [flow EXCEPT !["apply"] = b]
    OBVIOUS
  <2>4. \A at : [flow EXCEPT !["apply"] = [@ EXCEPT !.at = at, !.ok = TRUE]] = [flow EXCEPT !["apply"] = Told(at)]
    OBVIOUS
  <2>5. [Scanned("apply") EXCEPT !.notes = vault'] = [id |-> scans + 1, notes |-> vault', for |-> "apply"]
    BY DEF Scanned
  <2>6. CASE flow' = [flow EXCEPT !["apply"].at = "flushing"] /\ UNCHANGED <<vault, rows, scan, scans>>
    BY <2>3, <2>6
  <2>7. CASE \E status : Ends(status)
    <3>. HIDE DEF b
    <3>. QED BY <2>3, <2>7
  <2>8. CASE Succeeds
    <3>. HIDE DEF b, Told
    <3>. QED BY <2>4, <2>5, <2>8
  <2>. HIDE DEF Succeeds, b, Told, ids, ops, Starts
  <2>. QED BY <2>1, <2>6, <2>7, <2>8
<1>4. ScansOrdered' /\ KnownStays
  <2>1. CASE UNCHANGED <<scan, scans>>
    BY <1>1, <2>1, ScansStand DEF scanVars
  <2>2. CASE Starts
    BY <1>1, <2>2, ScanStarts
  <2>. QED BY <1>3, <2>1, <2>2
<1>5. RowsGrow(rows, rows') /\ DOMAIN rows' = DOMAIN rows
      /\ \A id \in DOMAIN rows' :
           LET r == rows'[id] IN r = [status |-> r.status, finding |-> r.finding, scan |-> r.scan, ops |-> r.ops]
  <2>1. CASE UNCHANGED rows
    BY <2>1, SameRows DEF RowsSound
  <2>2. CASE \E status : SetStatus(ids, status)
    <3>. HIDE DEF ids
    <3>. QED BY <2>2, StatusOnly
  <2>. QED BY <1>3, <2>1, <2>2
<1>6. \A s : MadeUnder(rows, s) => MadeUnder(rows', s)
  <2>. SUFFICES ASSUME NEW s, MadeUnder(rows, s) PROVE MadeUnder(rows', s)
    OBVIOUS
  <2>1. \A id \in SchemaRows(rows') : id \in DOMAIN rows
    BY <1>5 DEF SchemaRows
  <2>. QED BY <1>5, <2>1, MadeGrows
<1>7. RowsSound'
  <2>1. SchemaRows(rows') = SchemaRows(rows)
    BY <1>5 DEF SchemaRows
  <2>. QED BY <1>1, <1>4, <1>5, <1>6, <2>1 DEF RowsSound, KnownStays
<1>8. PrepSound'
  <2>1. SUFFICES ASSUME prep.at # "off" PROVE PrepSound'
    BY <1>1 DEF PrepSound
  <2>2. PrepShape /\ Known(snapshot) /\ TurnSound(prep.turn, rows) /\ PartsSound(prep.parts, rows)
    BY <2>1 DEF PrepSound
  <2>3. TurnSound(prep.turn, rows') /\ PartsSound(prep.parts, rows')
    BY <1>5, <1>6, <2>2, StaysSound DEF TurnSound, PartsSound
  <2>. QED BY <1>1, <1>4, <2>2, <2>3 DEF PrepSound, KnownStays, PrepShape, TurnSound, PartsSound
<1>9. PreparedSound'
  BY <1>1, <1>5, OfferStands
<1>10. ApplySound'
  <2>1. CASE UNCHANGED <<scan, scans>> /\ flow' = [flow EXCEPT !["apply"] = b]
    <3>1. ApplyShape(b) /\ SameEffects(b)
      BY <1>2, PlaceChanges
    <3>. HIDE DEF b
    <3>. QED BY <1>2, <2>1, <3>1, ApplicationGoesOn
  <2>2. CASE UNCHANGED <<scan, scans>> /\ flow' = [flow EXCEPT !["apply"] = Told("flushing")]
    <3>1. ApplyShape(Told("flushing")) /\ SameEffects(Told("flushing"))
      BY <1>2, PlaceChanges
    <3>. HIDE DEF Told
    <3>. QED BY <1>2, <2>2, <3>1, ApplicationGoesOn
  <2>3. CASE flow' = [flow EXCEPT !["apply"] = Told("reindexing")]
    <3>1. ApplyShape(Told("reindexing")) /\ SameEffects(Told("reindexing")) /\ Told("reindexing").at = "reindexing"
      BY <1>2, PlaceChanges
    <3>. HIDE DEF Told
    <3>. QED BY <2>3, <3>1, ApplicationGoesOn
  <2>. HIDE DEF b, Told, Starts
  <2>. QED BY <1>3, <2>1, <2>2, <2>3
<1>. QED BY <1>4, <1>7, <1>8, <1>9, <1>10

-----------------------------------------------------------------------------
(* The theorems.                                                           *)

\* At first there is nothing.
LEMMA InitIsSound ==
  ASSUME Init
  PROVE  WorkspaceInv
<1>1. scans = 0 /\ scan = Nothing /\ snapshot = Nothing /\ prep.at = "off" /\ prepared = Nothing /\ mode # "recommendation"
  BY DEF Init, Off
<1>2. ScansOrdered /\ PrepSound /\ PreparedSound
  BY <1>1 DEF ScansOrdered, PrepSound, PreparedSound
<1>3. RowsSound
  <2>1. DOMAIN rows = {}
    BY DEF Init
  <2>. QED BY <2>1 DEF RowsSound, SchemaRows, MadeUnder
<1>4. flow = [h \in Handlers |-> flow[h]] /\ flow["apply"].at = "off"
  BY DEF Init, Off, Handlers
<1>5. ApplySound
  BY <1>1, <1>4 DEF ApplySound
<1>. QED BY <1>2, <1>3, <1>5 DEF WorkspaceInv

\* A step that changes neither rows nor scans, and leaves the offer, the
\* preparation and the application alone.
LEMMA QuietIsSound ==
  ASSUME WorkspaceInv, UNCHANGED <<scanVars, rows, prep>>,
         \/ UNCHANGED prepared /\ (mode' = mode \/ mode' # "recommendation")
         \/ prepared' = Nothing /\ mode' # "recommendation",
         UNCHANGED flow \/ \E h \in Handlers \ {"apply"} : \E e : flow' = [flow EXCEPT ![h] = e]
  PROVE  WorkspaceInv'
<1>. USE DEF WorkspaceInv
<1>1. ScansOrdered' /\ KnownStays /\ UNCHANGED <<scan, snapshot>>
  BY ScansStand DEF scanVars
<1>2. RowsSound' /\ PrepSound'
  BY <1>1, RowsStand, PreparingStands
<1>3. PreparedSound'
  BY SameRows, OfferStands, NothingOffered
<1>4. ApplySound'
  BY <1>1, ApplicationStands
<1>. QED BY <1>1, <1>2, <1>3, <1>4

\* A scan of the timer, or of the user who checks the vault.
LEMMA ScanOfOthersIsSound ==
  ASSUME WorkspaceInv, scan = Nothing, scans' = scans + 1, UNCHANGED <<snapshot, rows, prep, prepared>>,
         NEW notes, NEW who, who # "apply", scan' = [id |-> scans + 1, notes |-> notes, for |-> who],
         mode' = mode \/ mode' # "recommendation",
         UNCHANGED flow \/ \E e : flow' = [flow EXCEPT !["check"] = e]
  PROVE  WorkspaceInv'
<1>. USE DEF WorkspaceInv
<1>1. ScansOrdered' /\ KnownStays
  BY ScanStarts
<1>2. RowsSound' /\ PrepSound' /\ PreparedSound'
  BY <1>1, RowsStand, PreparingStands, SameRows, OfferStands
<1>3. "check" \in Handlers /\ "apply" \in Handlers
  BY DEF Handlers
<1>4. flow' = [h \in Handlers |-> flow'[h]] /\ flow'["apply"] = flow["apply"]
  BY <1>3 DEF ApplySound
<1>5. scan'.for # "apply"
  OBVIOUS
<1>6. ApplySound'
  BY <1>4, <1>5 DEF ApplySound, ApplyShape, SameEffects, Effect
<1>. QED BY <1>1, <1>2, <1>6

\* Every step of the workspace keeps the invariant.
LEMMA StepIsSound ==
  ASSUME WorkspaceInv, [Next]_vars
  PROVE  WorkspaceInv'
<1>1. CASE ScheduledScan
  <2>1. scan' = [id |-> scans + 1, notes |-> vault, for |-> "schedule"]
    BY <1>1 DEF ScheduledScan, Scanned
  <2>2. scan = Nothing /\ scans' = scans + 1 /\ UNCHANGED <<snapshot, rows, prep, prepared, mode, flow>>
    BY <1>1 DEF ScheduledScan, viewVars
  <2>. QED BY <2>1, <2>2, ScanOfOthersIsSound
<1>2. CASE CheckVault
  <2>1. UNCHANGED <<snapshot, rows, prep, prepared>>
    BY <1>2 DEF CheckVault
  <2>2. CASE scan # Nothing
    <3>1. mode' # "recommendation" /\ UNCHANGED <<scan, scans, flow>>
      BY <1>2, <2>2 DEF CheckVault
    <3>. QED BY <2>1, <3>1, QuietIsSound DEF scanVars
  <2>3. CASE scan = Nothing
    <3>1. /\ mode' # "recommendation" /\ scans' = scans + 1 /\ scan' = Scanned("check")
          /\ \E e : flow' = [flow EXCEPT !["check"] = e]
      BY <1>2, <2>3 DEF CheckVault
    <3>2. scan' = [id |-> scans + 1, notes |-> vault, for |-> "check"]
      BY <3>1 DEF Scanned
    <3>. QED BY <2>1, <2>3, <3>1, <3>2, ScanOfOthersIsSound
  <2>. QED BY <2>2, <2>3
<1>3. CASE ReviewNext
  <2>1. \E e : flow' = [flow EXCEPT !["next"] = e]
    BY <1>3, Zenon DEF ReviewNext
  <2>2. UNCHANGED <<scanVars, rows, prep, prepared, mode>>
    BY <1>3 DEF ReviewNext
  <2>. QED BY <2>1, <2>2, QuietIsSound DEF Handlers
<1>4. CASE DismissJudgment
  <2>1. \E e : flow' = [flow EXCEPT !["dismiss"] = e]
    BY <1>4, Zenon DEF DismissJudgment
  <2>2. UNCHANGED <<scanVars, rows, prep, prepared, mode>>
    BY <1>4 DEF DismissJudgment, viewVars
  <2>. QED BY <2>1, <2>2, QuietIsSound DEF Handlers
<1>5. CASE Consolidate
  <2>1. \E e : flow' = [flow EXCEPT !["consolidate"] = e]
    BY <1>5, Zenon DEF Consolidate
  <2>2. UNCHANGED <<scanVars, rows, prep, prepared, mode>>
    BY <1>5 DEF Consolidate, viewVars
  <2>. QED BY <2>1, <2>2, QuietIsSound DEF Handlers
<1>6. CASE Toggle
  <2>1. UNCHANGED <<scanVars, rows, prep, prepared, mode, flow>>
    BY <1>6 DEF Toggle
  <2>. QED BY <2>1, QuietIsSound
<1>7. CASE Apply
  BY <1>7, ApplyIsSound
<1>8. CASE UserEdit
  <2>1. UNCHANGED <<scanVars, rows, prep, prepared, mode, flow>>
    BY <1>8 DEF UserEdit, viewVars
  <2>. QED BY <2>1, QuietIsSound
<1>9. CASE CompleteScan
  BY <1>9, CompleteScanIsSound
<1>10. CASE FailScan
  <2>. USE DEF WorkspaceInv
  <2>1. /\ scan # Nothing /\ scan' = Nothing /\ Resume(scan.for, FALSE)
        /\ UNCHANGED <<snapshot, scans, rows, prepared, prep>>
    BY <1>10 DEF FailScan
  <2>2. ApplySound' /\ PreparedSound'
    BY <2>1, ResumeIsSound
  <2>3. ScansOrdered' /\ KnownStays
    BY <2>1 DEF ScansOrdered, Known, KnownStays
  <2>4. RowsSound' /\ PrepSound'
    BY <2>1, <2>3, RowsStand, PreparingStands
  <2>. QED BY <2>2, <2>3, <2>4
<1>11. CASE PrepareFinding
  BY <1>11, PrepareFindingIsSound
<1>12. CASE FinishFamily
  BY <1>12, FinishFamilyIsSound
<1>13. CASE \E h \in {"check", "next"} : BeginPreparing(h) \/ Choose(h)
  BY <1>13, BeginPreparingIsSound, ChooseIsSound
<1>14. CASE ApplyBatch
  BY <1>14, ApplyBatchIsSound
<1>15. CASE Applied
  <2>. USE DEF WorkspaceInv
  <2>1. /\ flow["apply"].at = "flushing" /\ flow' = [flow EXCEPT !["apply"] = Off]
        /\ UNCHANGED <<scanVars, rows, prepared, prep>> /\ mode' # "recommendation"
    BY <1>15 DEF Applied
  <2>2. ScansOrdered' /\ KnownStays /\ UNCHANGED <<scan, snapshot>>
    BY <2>1, ScansStand DEF scanVars
  <2>3. RowsSound' /\ PrepSound' /\ PreparedSound'
    BY <2>1, <2>2, RowsStand, PreparingStands, SameRows, OfferStands
  <2>4. ~ (scan' # Nothing /\ scan'.for = "apply")
    BY <2>1, <2>2 DEF ApplySound
  <2>5. ApplySound'
    BY <2>1, <2>4, ApplicationGoesOn DEF Off
  <2>. QED BY <2>2, <2>3, <2>5
<1>16. CASE Dismissed
  <2>1. UNCHANGED <<scanVars, rows, prep>> /\ \E e : flow' = [flow EXCEPT !["dismiss"] = e]
    BY <1>16 DEF Dismissed
  <2>2. \/ UNCHANGED prepared /\ mode' # "recommendation"
        \/ prepared' = Nothing /\ mode' # "recommendation"
    BY <1>16 DEF Dismissed, ShowJudgment
  <2>. QED BY <2>1, <2>2, QuietIsSound DEF Handlers
<1>17. CASE Consolidated
  BY <1>17, ConsolidatedIsSound
<1>18. CASE UNCHANGED vars
  <2>1. UNCHANGED <<scanVars, rows, prep, prepared, mode, flow>>
    BY <1>18 DEF vars, viewVars
  <2>. QED BY <2>1, QuietIsSound
<1>. QED BY <1>1, <1>2, <1>3, <1>4, <1>5, <1>6, <1>7, <1>8, <1>9, <1>10, <1>11, <1>12, <1>13, <1>14, <1>15, <1>16,
            <1>17, <1>18 DEF Next, ScanStep, PrepareStep, ApplyStep

\* The invariant of the workspace: scans are numbered in their order, every
\* proposal that is prepared or offered is stored with what it writes, and
\* what is offered together is of one scan.
THEOREM WorkspaceInvariant == Spec => []WorkspaceInv
<1>1. Init => WorkspaceInv
  BY InitIsSound
<1>2. WorkspaceInv /\ [Next]_vars => WorkspaceInv'
  BY StepIsSound
<1>. QED BY <1>1, <1>2, PTL DEF Spec

\* What is applied writes what was shown, whatever is prepared meanwhile and
\* whichever answers the models give a second time
\* (main.ts 468-476, 617-630).
THEOREM ShownIsWhatIsWritten == Spec => []ShownIsWritten
<1>1. WorkspaceInv => ShownIsWritten
  BY DEF WorkspaceInv, ApplySound, SameEffects, ShownIsWritten
<1>. QED BY <1>1, WorkspaceInvariant, PTL

\* What is offered together is of one scan, whenever scans complete between
\* the families of a preparation (main.ts 457-534).
THEOREM OneScanIsOffered == Spec => []OfferedFromOneScan
<1>1. WorkspaceInv => OfferedFromOneScan
  BY DEF WorkspaceInv, PreparedSound, Sound, OfferedFromOneScan
<1>. QED BY <1>1, WorkspaceInvariant, PTL
=============================================================================
