------------------------------ MODULE References ------------------------------
(***************************************************************************)
(* References between notes: how a scan resolves them, what it reports     *)
(* when notes are renamed, deleted or superseded, how a repair target is   *)
(* chosen, what the repair writes, and how two duplicate notes are         *)
(* consolidated (src/src/reference, indexing/impact.ts,                    *)
(* maintenance/change-aware.ts, review/propose.ts,                         *)
(* review/reference-recommendation.ts, review/entity-consolidation.ts and  *)
(* the scan and preparation methods of main.ts that call them).            *)
(*                                                                         *)
(* A path is the sequence of its parts without ".md"; names hold no dot    *)
(* and one letter case.  The body of a note is the sequence of its         *)
(* references, one per line.  The user renames, deletes, creates and edits *)
(* notes at any moment, also while a scan or a repair is waiting.          *)
(***************************************************************************)
EXTENDS Integers, SequencesExt

CONSTANTS
  PathOrder,      \* every path a note may stand at, in localeCompare order
  AnchorOrder,    \* every anchor, in localeCompare order
  Tokens,         \* the words of a name or of an anchor: [name -> set of words]
  NewNotes,       \* what the user may create
  Bodies,         \* what the user may write over the body of a note
  Vaults,         \* the vaults to start from: sets of functions over the paths
  Typed,          \* the targets the user may type
  Duplicates,     \* the pairs of notes a duplicate finding cites
  HeaderLines,    \* lines the frontmatter takes in a file
  MaxCandidates,  \* MAX_CANDIDATES of reference-recommendation.ts (20)
  MaxOperations,  \* MAX_OPERATIONS of entity-consolidation.ts (20)
  MaxChanges,     \* bound: changes of the user
  MaxScans,       \* bound: scans started
  MaxRepairs      \* bound: repairs begun

ASSUME ReferenceBounds ==
  /\ {HeaderLines, MaxCandidates, MaxOperations} \subseteq Nat \ {0}
  /\ {MaxChanges, MaxScans, MaxRepairs} \subseteq Nat

Paths == Range(PathOrder)
None == [none |-> TRUE]

Nowhere == <<>>
Outside == <<"..">>
NoAnchor == "none"
External == <<"https:">>

\* What a file, a folder and a heading may be called; what a reference is
\* written with; a reference, and a note: what the scanner reads of a file.
Names == STRING \ {"..", "https:"}
Headings == STRING \ {NoAnchor}
Parts == Names \cup {"..", "https:"}
Targets == Seq(Names) \ {Nowhere}
Links == [kind : {"wiki", "markdown"}, raw : Seq(Parts), anchor : Headings \cup {NoAnchor}]
Notes == [id : Nat, header : BOOLEAN, aliases : SUBSET Seq(STRING), anchors : Seq(Headings),
          superseded : BOOLEAN, needs : SUBSET (STRING \X Seq(STRING)), body : Seq(Links)]

ASSUME NotesAssumption ==
  /\ PathOrder \in Seq(Targets) /\ Typed \subseteq Targets
  /\ Vaults \subseteq [Paths -> Notes \cup {None}]
  /\ NewNotes \subseteq Notes /\ Bodies \subseteq Seq(Links)

VARIABLES
  disk,      \* the vault: a note or None at each path
  queue,     \* invalidatedEvents of the reader; nothing tells their order apart
  scan,      \* the scan in flight: what it consumed and, once listed, saw
  snap,      \* activeSnapshot with the events its scan consumed
  findings,  \* findings of the latest completed scan
  intent,    \* the recommended or chosen repair, before the source is read
  proposal,  \* the stored proposal: its operations and what they are for
  tenant,    \* history: the note that last stood at each path
  changes, scans, repairs

vars == <<disk, queue, scan, snap, findings, intent, proposal, tenant, changes, scans, repairs>>

\* sort and slice(0, n): the n first by their ranks.
Place(order, x) == CHOOSE i \in DOMAIN order : order[i] = x
Before(a, b) ==
  \E i \in DOMAIN a.rank : /\ a.rank[i] < b.rank[i]
                           /\ \A j \in 1..(i - 1) : a.rank[j] = b.rank[j]
Foremost(all, n) == {x \in all : Cardinality({y \in all : Before(y, x)}) < n}

\* The content hash of a note covers its path and text, not the note's history.
Rev(note) == [note EXCEPT !.id = 0]
Live(notes) == {p \in Paths : notes[p] # None}

(***************************** Resolution *********************************)
\* normalizeResolvedPath: "." and empty parts are gone, ".." climbs.
Climb(parts, part) ==
  IF parts = Outside \/ (part = ".." /\ parts = Nowhere) THEN Outside
  ELSE IF part = ".." THEN Front(parts) ELSE Append(parts, part)

NormalizeResolvedPath(parts) ==
  LET climbed[n \in 0..Len(parts)] == IF n = 0 THEN Nowhere ELSE Climb(climbed[n - 1], parts[n])
  IN  climbed[Len(parts)]

\* parseReferenceTarget: the vault path a reference asks for; Markdown links
\* are relative to the directory of the note they stand in.
ParseReferenceTarget(ref, source) ==
  IF ref.raw = External THEN Outside
  ELSE NormalizeResolvedPath(IF ref.kind = "markdown" THEN Front(source) \o ref.raw ELSE ref.raw)

\* anchorExists.
AnchorExists(note, anchor) == anchor = NoAnchor \/ anchor \in Range(note.anchors)

\* resolveInternalReference: the exact path, else every note of that base
\* name, else every note with that alias; one candidate resolves, several are
\* ambiguous.
ResolveInternalReference(notes, ref, source) ==
  LET asked == ParseReferenceTarget(ref, source)
      named == {p \in Live(notes) : Last(p) = Last(asked)}
      aliased == {p \in Live(notes) : asked \in notes[p].aliases}
      found == IF asked \in Live(notes) THEN {asked} ELSE IF named # {} THEN named ELSE aliased
      result(status, p) ==
        [asked |-> asked, status |-> status, path |-> p,
         anchored |-> p # Nowhere /\ AnchorExists(notes[p], ref.anchor)]
  IN  IF asked \in {Nowhere, Outside} THEN result("invalid", Nowhere)
      ELSE IF found = {} THEN result("missing", Nowhere)
      ELSE IF Cardinality(found) # 1 THEN result("ambiguous", Nowhere)
      ELSE result("resolved", CHOOSE p \in found : TRUE)

Slots(notes) == UNION {{p} \X DOMAIN notes[p].body : p \in Live(notes)}
Ref(notes, s) == notes[s[1]].body[s[2]]
Resolve(notes, s) == ResolveInternalReference(notes, Ref(notes, s), s[1])
Finding(type, notes, s, why) ==
  [type |-> type, path |-> s[1], line |-> s[2], text |-> Ref(notes, s), why |-> why]

\* checkReferenceIntegrity: one finding for each reference that does not
\* reach one note and the anchor it names; web links are not looked at.
CheckReferenceIntegrity(notes) ==
  LET local == {s \in Slots(notes) : Ref(notes, s).raw # External}
  IN  {Finding("invalid-reference", notes, s, "outside") :
         s \in {t \in local : Resolve(notes, t).status = "invalid"}}
      \cup {Finding("broken-reference", notes, s, Resolve(notes, s).status) :
         s \in {t \in local : Resolve(notes, t).status \in {"missing", "ambiguous"}}}
      \cup {Finding("broken-reference", notes, s, "anchor") :
         s \in {t \in local : Resolve(notes, t).status = "resolved" /\ ~Resolve(notes, t).anchored}}

(***************************** Rewriting **********************************)
\* How many folders two directories share.
SharedFolders(dir, folders) ==
  Min({k \in 0..Len(dir) : k < Len(dir) /\ k < Len(folders) => dir[k + 1] # folders[k + 1]})

\* relativeMarkdownPath: up to the last folder both share, and down.
RelativeMarkdownPath(source, target) ==
  LET dir == Front(source)
      shared == SharedFolders(dir, Front(target))
  IN  [i \in 1..(Len(dir) - shared) |-> ".."] \o SubSeq(target, shared + 1, Len(target))

\* A faulty variant: the shortest form is written.
ReplaceByName(ref, source, target, anchor) ==
  {[ref EXCEPT !.anchor = IF anchor = NoAnchor THEN @ ELSE anchor,
               !.raw = IF ref.kind = "markdown" THEN RelativeMarkdownPath(source, target)
                       ELSE <<Last(target)>>]}

\* replaceInternalReference: the same kind of link to the target; its own
\* anchor is kept unless another one is given.
ReplaceInternalReference(ref, source, target, anchor) ==
  LET kept == [ref EXCEPT !.anchor = IF anchor = NoAnchor THEN @ ELSE anchor]
  IN  CASE ref.kind # "markdown" -> {[kept EXCEPT !.raw = target]}
        [] ref.kind = "markdown" /\ ParseReferenceTarget(ref, source) # Outside ->
             {[kept EXCEPT !.raw = RelativeMarkdownPath(source, target)]}
        [] OTHER -> {}

(************************ What a change touches ***************************)
\* A faulty variant: a relative link is compared as it is written.
TargetAsWritten(ref, source) == ref.raw

\* referenceTargetForImpact: the path as written, looked up under no name or
\* alias.
ReferenceTargetForImpact(ref, source) ==
  IF ref.kind = "markdown" THEN ParseReferenceTarget(ref, source) ELSE ref.raw

\* analyzeChangeImpact: inbound references and notes whose frontmatter names
\* the target as a task, decision or policy dependency.
AnalyzeChangeImpact(target, notes) ==
  [inbound |-> {s \in Slots(notes) : ReferenceTargetForImpact(Ref(notes, s), s[1]) = target},
   dependents |-> {d \in Live(notes) \X {"task", "decision", "policy"} :
                     <<d[2], target>> \in notes[d[1]].needs}]

ImpactFindings(change, target, before) ==
  LET impact == AnalyzeChangeImpact(target, before)
  IN  {Finding("staleness", before, s, change) : s \in impact.inbound}
      \cup {[type |-> "staleness", path |-> d[1], line |-> 0, text |-> d[2], why |-> change] :
              d \in impact.dependents}

\* supersededDecisionFindings: citations, in the new snapshot, of a decision
\* that was not superseded in the old one.
SupersededDecisionFindings(path, before, after) ==
  IF /\ after[path] # None /\ after[path].superseded
     /\ before[path] # None => ~before[path].superseded
  THEN {Finding("staleness", after, s, "superseded") :
          s \in {t \in Slots(after) : Ref(after, t).raw = path}}
  ELSE {}

\* buildChangeAwareFindings: renames and deletions are judged on the previous
\* notes, modifications on both.
BuildChangeAwareFindings(events, before, after) ==
  UNION {CASE e.kind = "rename" -> ImpactFindings("renamed", e.old, before)
           [] e.kind = "delete" -> ImpactFindings("deleted", e.path, before)
           [] e.kind = "modify" -> SupersededDecisionFindings(e.path, before, after)
           [] OTHER -> {} : e \in events}

\* recentRenames, as the completed scan sets it.
RecentRenames(events) == {[old |-> e.old, path |-> e.path] : e \in {x \in events : x.kind = "rename"}}

\* buildContextualNormalizationFindings: for a rename to an indexed note, the
\* references that reach it written otherwise, when there are two or more.
BuildContextualNormalizationFindings(notes, renames) ==
  UNION {LET eligible == {s \in Slots(notes) :
                            /\ Resolve(notes, s).status = "resolved"
                            /\ Resolve(notes, s).path = r.path
                            /\ ReplaceInternalReference(Ref(notes, s), s[1], r.path, NoAnchor)
                                 \notin {{}, {Ref(notes, s)}}}
         IN  IF Cardinality(eligible) < 2 THEN {}
             ELSE {Finding("reference-normalization", notes, s, "renamed") : s \in eligible} :
         r \in {x \in renames : x.path \in Live(notes)}}

(************************** Choosing a target *****************************)
Words(parts) == UNION {Tokens[parts[i]] : i \in DOMAIN parts}
\* tokenOverlap of two paths.
TokenOverlap(left, right) == Cardinality(Words(left) \cap Words(right))

\* Candidates are ranked by kind, by shared words and by name.
Candidate(source, path, anchor, priority, score) ==
  [source |-> source, path |-> path, anchor |-> anchor,
   rank |-> <<priority, -score, IF anchor = NoAnchor THEN Place(PathOrder, path)
                                ELSE Place(AnchorOrder, anchor)>>]

\* buildAnchorCandidates: headings and blocks that occur once and share a word
\* with the missing anchor.
BuildAnchorCandidates(note, path, missing) ==
  {Candidate("anchor", path, a, 0, Cardinality(Tokens[a] \cap Tokens[missing])) :
     a \in {x \in Range(note.anchors) :
              /\ Cardinality({i \in DOMAIN note.anchors : note.anchors[i] = x}) = 1
              /\ Tokens[x] \cap Tokens[missing] # {}}}

\* A faulty variant: any rename of the scan will do.
PathCandidatesOfAnyRename(notes, source, missing, renames) ==
  {Candidate("rename", r.path, NoAnchor, 0, 0) : r \in {x \in renames : x.path \in Live(notes)}}

\* The candidates for a missing target: renames of it to an indexed note, the
\* notes with its alias, the notes sharing a word with it; the first kind that
\* fits a note counts, and the note itself only as a rename.
BuildPathCandidates(notes, source, missing, renames) ==
  LET renamed == {r.path : r \in {x \in renames : x.old = missing /\ x.path \in Live(notes)}}
      others == Live(notes) \ (renamed \cup {source})
      aliased == {p \in others : notes[p].aliases \cap {missing, <<Last(missing)>>} # {}}
      similar == {p \in others \ aliased : TokenOverlap(missing, p) > 0}
  IN  {Candidate("rename", p, NoAnchor, 0, 0) : p \in renamed}
      \cup {Candidate("alias", p, NoAnchor, 1, 0) : p \in aliased}
      \cup {Candidate("path", p, NoAnchor, 2, TokenOverlap(missing, p)) : p \in similar}

\* buildReferenceRepairCandidates.
BuildReferenceRepairCandidates(f, notes, renames) ==
  LET slot == <<f.path, f.line>>
      cited == slot \in Slots(notes) /\ Ref(notes, slot) = f.text
      to == Resolve(notes, slot)
      all == CASE to.status = "resolved" /\ ~to.anchored ->
                    BuildAnchorCandidates(notes[to.path], to.path, f.text.anchor)
               [] to.status = "resolved" /\ to.anchored /\ f.type = "reference-normalization" ->
                    {Candidate("canonical", to.path, NoAnchor, 0, 0)}
               [] to.status = "missing" -> BuildPathCandidates(notes, f.path, to.asked, renames)
               [] OTHER -> {}
  IN  IF f.type \in {"broken-reference", "reference-normalization"} /\ cited
      THEN Foremost(all, MaxCandidates) ELSE {}

\* recommendReferenceRepair: a single rename or canonical note is verified;
\* otherwise the model names a candidate or abstains, and a reply that names
\* none of the candidates counts as abstaining.
RecommendReferenceRepair(candidates) ==
  LET only(source) == {c \in candidates : c.source = source}
  IN  CASE Cardinality(only("rename")) = 1 -> {<<c, "verified-rename">> : c \in only("rename")}
        [] Cardinality(only("rename")) # 1 /\ Cardinality(only("canonical")) = 1 ->
             {<<c, "verified-canonical">> : c \in only("canonical")}
        [] OTHER -> {<<c, "ai-suggested">> : c \in candidates}

(************************ Building the operations *************************)
\* Slot 0 stands for the aliases; operations are found turn by turn, then in
\* the order of files and lines.
Operation(turn, note, path, slot, expected, replacement) ==
  [path |-> path, rev |-> Rev(note), slot |-> slot, expected |-> expected, with |-> replacement,
   rank |-> <<turn, Place(PathOrder, path), slot>>]

\* exactEvidenceStart: the line counted in the whole file, frontmatter
\* included, when it holds the excerpt.  The scanner counted it in the body.
ExactEvidenceSlots(note, line, text) ==
  {s \in DOMAIN note.body :
     note.body[s] = text /\ line = s + (IF note.header THEN HeaderLines ELSE 0)}

\* proposeReferenceRepair, on the source as it is when it is read.
ProposeReferenceRepair(note, i) ==
  {Operation(0, note, i.path, s, i.text, new) :
     s \in ExactEvidenceSlots(note, i.line, i.text),
     new \in ReplaceInternalReference(i.text, i.path, i.target, i.anchor)}

\* The references of the other notes that reach the duplicate.
ReferenceOperations(notes, canonical, duplicate) ==
  UNION {LET link == Ref(notes, s)
         IN  {Operation(0, notes[s[1]], s[1], s[2], link, new) :
                new \in ReplaceInternalReference(link, s[1], canonical, NoAnchor) \ {link}} :
         s \in {t \in Slots(notes) : /\ t[1] \notin {canonical, duplicate}
                                     /\ Resolve(notes, t).path = duplicate}}

AliasOperation(turn, notes, p, aliases) == Operation(turn, notes[p], p, 0, notes[p].aliases, aliases)

\* A faulty variant: the aliases are dropped before they are given.
TransferEveryAlias(notes, canonical, duplicate) ==
  IF notes[duplicate].aliases = {} \/ notes[canonical].aliases = {} THEN {}
  ELSE {AliasOperation(2, notes, duplicate, {})}

\* transferExclusiveAliases: the duplicate's aliases that no other note has
\* move to the canonical note, when both have an alias field to edit.
TransferExclusiveAliases(notes, canonical, duplicate) ==
  LET moved == notes[duplicate].aliases \ UNION {notes[p].aliases : p \in Live(notes) \ {duplicate}}
  IN  IF moved = {} \/ notes[canonical].aliases = {} THEN {}
      ELSE {AliasOperation(1, notes, canonical, notes[canonical].aliases \cup moved),
            AliasOperation(2, notes, duplicate, notes[duplicate].aliases \ moved)}

\* The sources a consolidation reads, each of which must still be the note the
\* snapshot holds: the two notes only if the references leave room.
ConsolidationSources(refs, canonical, duplicate) ==
  {op.path : op \in refs} \cup (IF Cardinality(refs) < MaxOperations THEN {canonical, duplicate} ELSE {})

\* What applying the operations makes of a line or of the aliases, and of the
\* vault.
AfterWriting(ops, p, slot, text) ==
  IF \E op \in ops : op.path = p /\ op.slot = slot
  THEN (CHOOSE op \in ops : op.path = p /\ op.slot = slot).with ELSE text

Written(notes, ops) ==
  [p \in Paths |->
     IF notes[p] = None THEN None
     ELSE [notes[p] EXCEPT
             !.aliases = AfterWriting(ops, p, 0, notes[p].aliases),
             !.body = [l \in DOMAIN notes[p].body |-> AfterWriting(ops, p, l, notes[p].body[l])]]]

(******************************* The user *********************************)
Event(kind, path, old) == [kind |-> kind, path |-> path, old |-> old]

Changed(new, event) ==
  /\ changes < MaxChanges
  /\ changes' = changes + 1
  /\ disk' = new
  /\ tenant' = [p \in Paths |-> IF new[p] = None THEN tenant[p] ELSE new[p].id]
  /\ queue' = queue \cup {event}
  /\ UNCHANGED <<scan, snap, findings, intent, proposal, scans, repairs>>

Rename(p, q) ==
  /\ disk[p] # None /\ disk[q] = None
  /\ Changed([disk EXCEPT ![p] = None, ![q] = disk[p]], Event("rename", q, p))

Delete(p) == disk[p] # None /\ Changed([disk EXCEPT ![p] = None], Event("delete", p, Nowhere))

Create(p) ==
  /\ disk[p] = None
  /\ \E n \in NewNotes : Changed([disk EXCEPT ![p] = [n EXCEPT !.id = 100 + changes]],
                                 Event("create", p, Nowhere))

Edit(p) ==
  /\ disk[p] # None
  /\ \E b \in Bodies : b # disk[p].body /\ Changed([disk EXCEPT ![p].body = b], Event("modify", p, Nowhere))

Supersede(p) ==
  /\ disk[p] # None /\ ~disk[p].superseded
  /\ Changed([disk EXCEPT ![p].superseded = TRUE, ![p].header = TRUE], Event("modify", p, Nowhere))

(******************************* Scanning *********************************)
\* scanVaultInternal up to listFiles: the events are taken.
StartScan ==
  /\ scan = None /\ scans < MaxScans
  /\ scans' = scans + 1
  /\ scan' = [events |-> queue, notes |-> None, tenant |-> tenant, waiting |-> {}]
  /\ queue' = {}
  /\ UNCHANGED <<disk, snap, findings, intent, proposal, tenant, changes, repairs>>

\* listFiles and scanVaultFiles: the snapshot.
ListFiles ==
  /\ scan # None /\ scan.notes = None
  /\ scan' = [scan EXCEPT !.notes = disk, !.tenant = tenant, !.waiting = queue]
  /\ UNCHANGED <<disk, queue, snap, findings, intent, proposal, tenant, changes, scans, repairs>>

\* An exception of the listing, the policy or the analysis: the events the
\* scan took are not given back.
FailScan ==
  /\ scan # None
  /\ scan' = None
  /\ UNCHANGED <<disk, queue, snap, findings, intent, proposal, tenant, changes, scans, repairs>>

\* The rest of scanVaultInternal.
CompleteScan ==
  /\ scan # None /\ scan.notes # None
  /\ LET before == IF snap = None THEN [p \in Paths |-> None] ELSE snap.notes
     IN  /\ snap' = [events |-> scan.events, notes |-> scan.notes, tenant |-> scan.tenant,
                     waiting |-> scan.waiting, before |-> before]
         /\ findings' = CheckReferenceIntegrity(scan.notes)
                          \cup BuildContextualNormalizationFindings(scan.notes, RecentRenames(scan.events))
                          \cup BuildChangeAwareFindings(scan.events, before, scan.notes)
  /\ scan' = None
  /\ UNCHANGED <<disk, queue, intent, proposal, tenant, changes, scans, repairs>>

(******************************* Repairs **********************************)
Begin == repairs < MaxRepairs /\ repairs' = repairs + 1

Intend(f, target, anchor, provenance) ==
  /\ intent' = [path |-> f.path, line |-> f.line, text |-> f.text, target |-> target,
                anchor |-> anchor, provenance |-> provenance]
  /\ Begin
  /\ UNCHANGED <<disk, queue, scan, snap, findings, proposal, tenant, changes, scans>>

\* prepareReferenceRepairBatch up to the answer of the model.
Recommend(f) ==
  /\ intent = None
  /\ \E r \in RecommendReferenceRepair(
                BuildReferenceRepairCandidates(f, snap.notes, RecentRenames(snap.events))) :
       Intend(f, r[1].path, r[1].anchor, r[2])

\* createReferenceProposal: the user types the target, indexed or not.
ChooseTarget(f) ==
  /\ intent = None /\ f.type \in {"broken-reference", "reference-normalization"}
  /\ \E p \in Typed : Intend(f, p, NoAnchor, "user")

\* The source is read and the proposal stored; a source that is gone or no
\* longer holds the evidence gives none.
Propose ==
  /\ intent # None
  /\ LET ops == IF disk[intent.path] = None THEN {} ELSE ProposeReferenceRepair(disk[intent.path], intent)
     IN  proposal' = IF ops = {} THEN proposal
                     ELSE [kind |-> "reference", ops |-> ops, target |-> intent.target,
                           anchor |-> intent.anchor, duplicate |-> Nowhere, cut |-> FALSE, seen |-> snap.notes]
  /\ intent' = None
  /\ UNCHANGED <<disk, queue, scan, snap, findings, tenant, changes, scans, repairs>>

\* prepareEntityConsolidation for two notes a duplicate finding cites; what
\* exceeds the limit is left out.
Consolidate(canonical, duplicate) ==
  /\ snap # None /\ canonical # duplicate /\ {canonical, duplicate} \in Duplicates
  /\ {canonical, duplicate} \subseteq Live(snap.notes)
  /\ \E refs \in {ReferenceOperations(snap.notes, canonical, duplicate)} :
       /\ \A p \in ConsolidationSources(refs, canonical, duplicate) :
            disk[p] # None /\ Rev(disk[p]) = Rev(snap.notes[p])
       /\ \E ops \in {refs \cup TransferExclusiveAliases(snap.notes, canonical, duplicate)} \ {{}} :
            proposal' = [kind |-> "entity", ops |-> Foremost(ops, MaxOperations), target |-> canonical,
                         anchor |-> NoAnchor, duplicate |-> duplicate,
                         cut |-> Foremost(ops, MaxOperations) # ops, seen |-> snap.notes]
  /\ Begin
  /\ UNCHANGED <<disk, queue, scan, snap, findings, intent, tenant, changes, scans>>

\* The review workflow writes the operations when every file is as the
\* proposal read it, and none of them otherwise.
Apply ==
  /\ proposal # None
  /\ IF \A op \in proposal.ops : disk[op.path] # None /\ Rev(disk[op.path]) = op.rev
     THEN /\ disk' = Written(disk, proposal.ops)
          /\ queue' = queue \cup {Event("modify", op.path, Nowhere) : op \in proposal.ops}
     ELSE UNCHANGED <<disk, queue>>
  /\ proposal' = None
  /\ UNCHANGED <<scan, snap, findings, intent, tenant, changes, scans, repairs>>

Init ==
  /\ disk \in Vaults
  /\ tenant = [p \in Paths |-> IF disk[p] = None THEN 0 ELSE disk[p].id]
  /\ queue = {} /\ findings = {} /\ changes = 0 /\ scans = 0 /\ repairs = 0
  /\ scan = None /\ snap = None /\ intent = None /\ proposal = None

Next ==
  \/ \E p \in Paths : Delete(p) \/ Create(p) \/ Edit(p) \/ Supersede(p)
  \/ \E p, q \in Paths : Rename(p, q) \/ Consolidate(p, q)
  \/ StartScan \/ ListFiles \/ FailScan \/ CompleteScan
  \/ \E f \in findings : Recommend(f) \/ ChooseTarget(f)
  \/ Propose \/ Apply

Spec == Init /\ [][Next]_vars

(***************************** Properties *********************************)
Applied(kind) == proposal # None /\ proposal.kind = kind /\ proposal' = None /\ disk' # disk

\* A reference repair that is written makes the reference reach the target it
\* was built for, with the anchor chosen, wherever the two notes stand and
\* however many others share a name or an alias, if the target is still there:
\* replaceInternalReference writes what resolveInternalReference reads.
RepairReachesTarget ==
  [][(Applied("reference") /\ proposal.target \in Live(disk)) =>
       \A op \in proposal.ops :
         LET s == <<op.path, op.slot>>
             to == Resolve(disk', s)
         IN  /\ to.status = "resolved" /\ to.path = proposal.target
             /\ proposal.anchor \in Range(disk[proposal.target].anchors) =>
                  Ref(disk', s).anchor = proposal.anchor /\ to.anchored]_vars

\* A consolidation that was not cut at the limit and whose canonical note is
\* still there breaks no reference of the vault: what reached a note before
\* reaches one after.  If the vault is still the one it was built from, no
\* other note refers to the duplicate any more.
ConsolidationKeepsLinks ==
  [][(Applied("entity") /\ ~proposal.cut /\ proposal.target \in Live(disk)) =>
       /\ \A s \in Slots(disk) :
            Resolve(disk, s).status = "resolved" => Resolve(disk', s).status = "resolved"
       /\ disk = proposal.seen =>
            \A s \in Slots(disk') : s[1] \in {proposal.target, proposal.duplicate}
                                      \/ Resolve(disk', s).path # proposal.duplicate]_vars

Touches(e, p) == p \in {e.path, e.old}

\* A candidate that passes for a verified rename is the note that last stood
\* at the missing path, unless the events of that scan, or of the time it took
\* to list the files, touch one of the two paths again: renames are forgotten
\* with the next completed scan, before a path can be taken by another note.
VerifiedIsMoved ==
  snap # None =>
    \A f \in findings : \A c \in BuildReferenceRepairCandidates(f, snap.notes, RecentRenames(snap.events)) :
      c.source = "rename" =>
        LET asked == ParseReferenceTarget(f.text, f.path)
            moved == Event("rename", c.path, asked)
        IN  /\ moved \in snap.events
            /\ \/ snap.notes[c.path].id = snap.tenant[asked]
               \/ \E e \in snap.events \cup snap.waiting :
                    e # moved /\ (Touches(e, c.path) \/ Touches(e, asked))

\* Every reference that named the full path of a note in the previous scan is
\* reported when that note was renamed or deleted since: the impact analysis
\* reads paths with code of its own and must read them as the resolver does.
\* Only a wiki link that climbs, which the analysis takes as written, is not.
ImpactMatchesResolver ==
  snap # None =>
    \A s \in Slots(snap.before) : \A e \in snap.events :
      LET to == Resolve(snap.before, s)
      IN  (/\ to.status = "resolved" /\ to.path = to.asked
           /\ Ref(snap.before, s).kind = "wiki" => ".." \notin Range(Ref(snap.before, s).raw)
           /\ \/ e.kind = "rename" /\ e.old = to.path
              \/ e.kind = "delete" /\ e.path = to.path) =>
          \E f \in findings : f.type = "staleness" /\ <<f.path, f.line>> = s
=============================================================================
