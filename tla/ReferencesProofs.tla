--------------------------- MODULE ReferencesProofs ---------------------------
(***************************************************************************)
(* Theorems of References, for any vaults, edits, names and bounds.        *)
(*                                                                         *)
(* What passes for a verified rename is one: every rename the reader has   *)
(* queued, a scan has taken or the snapshot was built with is accounted    *)
(* for, that is, the note it moved is still the one that last stood at its *)
(* old path, or another event tells that one of the two paths was used     *)
(* again.                                                                  *)
(*                                                                         *)
(* The path a repair writes is read as the path it was to write, which is  *)
(* shown part by part; so a repair reaches its target, a consolidation     *)
(* breaks no link, and the impact analysis reports what the resolver       *)
(* resolves.                                                               *)
(***************************************************************************)
EXTENDS References, SequenceTheorems, FiniteSetTheorems, WellFoundedInduction, TLAPS

-----------------------------------------------------------------------------
(* The history of the renames.                                             *)

Fields == {"id", "header", "aliases", "anchors", "superseded", "needs", "body"}
ScanFields == {"events", "notes", "tenant", "waiting"}
RenameEvents == [kind : {"rename"}, path : Paths, old : Paths]

\* There is a note or none at each path.
Shaped(notes) ==
  /\ DOMAIN notes = Paths
  /\ \A p \in Paths : notes[p] = None \/ DOMAIN notes[p] = Fields

\* Each rename among the events holds good in the notes, or another of the
\* events touches one of its paths.
Accounted(events, notes, last) ==
  \A m \in events : m.kind = "rename" =>
    /\ m \in RenameEvents
    /\ \/ \E e \in events : e # m /\ (Touches(e, m.path) \/ Touches(e, m.old))
       \/ notes[m.path].id = last[m.old]

\* What the vault remembers.
VaultHistory ==
  /\ Shaped(disk)
  /\ DOMAIN tenant = Paths
  /\ \A p \in Paths : disk[p] # None => tenant[p] = disk[p].id

\* What the scan in flight has taken, before and after it has listed the files.
ScanHistory ==
  scan # None =>
    /\ DOMAIN scan = ScanFields
    /\ IF scan.notes = None THEN Accounted(scan.events \cup queue, disk, tenant)
       ELSE Accounted(scan.events \cup scan.waiting, scan.notes, scan.tenant)

\* What the active snapshot was built with.
SnapHistory == snap # None => Accounted(snap.events \cup snap.waiting, snap.notes, snap.tenant)

\* The inductive invariant.
History ==
  /\ VaultHistory
  /\ Accounted(queue, disk, tenant)
  /\ ScanHistory
  /\ SnapHistory

-----------------------------------------------------------------------------
(* Notes and events.                                                       *)

\* A record with the fields of a note is not the absence of one.
LEMMA NoteIsSome == ASSUME NEW n, DOMAIN n = Fields PROVE n # None
BY DEF Fields, None

\* The notes the constants hold have the fields of a note.
LEMMA NoteFields == ASSUME NEW n \in Notes PROVE DOMAIN n = Fields
BY DEF Notes, Fields

\* A rename holds good; an event moves nothing but what it tells.
HoldsGood(v, notes, last) ==
  v.kind = "rename" => v \in RenameEvents /\ notes[v.path].id = last[v.old]
MovesNothingElse(v, notes, last, notes2, last2) ==
  \A p \in Paths : ~Touches(v, p) => notes2[p].id = notes[p].id /\ last2[p] = last[p]

\* One more event accounts for itself and leaves the renames accounted for it
\* does not touch.
LEMMA OneMoreEvent ==
  ASSUME NEW events, NEW notes, NEW last, NEW v, NEW notes2, NEW last2,
         Accounted(events, notes, last),
         HoldsGood(v, notes2, last2), MovesNothingElse(v, notes, last, notes2, last2)
  PROVE  Accounted(events \cup {v}, notes2, last2)
<1>. SUFFICES ASSUME NEW m \in events \cup {v}, m.kind = "rename"
     PROVE  /\ m \in RenameEvents
            /\ \/ notes2[m.path].id = last2[m.old]
               \/ \E e \in events \cup {v} : e # m /\ (Touches(e, m.path) \/ Touches(e, m.old))
  BY DEF Accounted
<1>1. CASE m = v
  BY <1>1 DEF HoldsGood
<1>2. CASE m # v
  <2>1. /\ m \in RenameEvents
        /\ \/ notes[m.path].id = last[m.old]
           \/ \E e \in events : e # m /\ (Touches(e, m.path) \/ Touches(e, m.old))
    BY <1>2 DEF Accounted
  <2>2. m.path \in Paths /\ m.old \in Paths
    BY <2>1 DEF RenameEvents
  <2>3. CASE Touches(v, m.path) \/ Touches(v, m.old)
    BY <1>2, <2>1, <2>3
  <2>4. CASE ~Touches(v, m.path) /\ ~Touches(v, m.old)
    BY <2>1, <2>2, <2>4 DEF MovesNothingElse
  <2>. QED BY <2>3, <2>4
<1>. QED BY <1>1, <1>2

\* Events that move nothing leave every rename accounted for.
LEMMA QuietEvents ==
  ASSUME NEW events, NEW notes, NEW last, NEW more, NEW notes2,
         Accounted(events, notes, last),
         \A e \in more : e.kind # "rename",
         \A p \in Paths : notes2[p].id = notes[p].id
  PROVE  Accounted(events \cup more, notes2, last)
<1>. SUFFICES ASSUME NEW m \in events \cup more, m.kind = "rename"
     PROVE  /\ m \in RenameEvents
            /\ \/ notes2[m.path].id = last[m.old]
               \/ \E e \in events \cup more : e # m /\ (Touches(e, m.path) \/ Touches(e, m.old))
  BY DEF Accounted
<1>1. m \in events
  OBVIOUS
<1>2. /\ m \in RenameEvents
      /\ \/ notes[m.path].id = last[m.old]
         \/ \E e \in events : e # m /\ (Touches(e, m.path) \/ Touches(e, m.old))
  BY <1>1 DEF Accounted
<1>3. m.path \in Paths
  BY <1>2 DEF RenameEvents
<1>. QED BY <1>2, <1>3

-----------------------------------------------------------------------------
(* The user.                                                               *)

\* A change of the user keeps the history when its event tells every path at
\* which another note stands, or last stood.
LEMMA ChangedHistory ==
  ASSUME History, NEW v, Changed(disk', v), Shaped(disk'),
         v.kind = "rename" => v \in RenameEvents /\ disk'[v.path].id = tenant'[v.old],
         \A p \in Paths : ~Touches(v, p) => disk'[p] = disk[p]
  PROVE  History'
<1>1. queue' = queue \cup {v} /\ UNCHANGED <<scan, snap>>
  BY DEF Changed
<1>2. tenant' = [p \in Paths |-> IF disk'[p] = None THEN tenant[p] ELSE disk'[p].id]
  BY DEF Changed
<1>3. VaultHistory'
  BY <1>2 DEF VaultHistory, Shaped
<1>4. \A p \in Paths : ~Touches(v, p) => disk'[p].id = disk[p].id /\ tenant'[p] = tenant[p]
  BY <1>2 DEF History, VaultHistory
<1>5. ASSUME NEW STATE events, Accounted(events, disk, tenant)
      PROVE  Accounted(events \cup {v}, disk', tenant')
  <2>1. HoldsGood(v, disk', tenant') /\ MovesNothingElse(v, disk, tenant, disk', tenant')
    BY <1>4 DEF HoldsGood, MovesNothingElse
  <2>. QED BY <1>5, <2>1, OneMoreEvent
<1>6. Accounted(queue', disk', tenant')
  BY <1>1, <1>5 DEF History
<1>7. ScanHistory'
  <2>. SUFFICES ASSUME scan' # None
       PROVE  /\ DOMAIN scan' = ScanFields
              /\ IF scan'.notes = None THEN Accounted(scan'.events \cup queue', disk', tenant')
                 ELSE Accounted(scan'.events \cup scan'.waiting, scan'.notes, scan'.tenant)
    BY DEF ScanHistory
  <2>1. scan.events \cup queue' = (scan.events \cup queue) \cup {v}
    BY <1>1
  <2>2. CASE scan.notes = None
    <3>1. Accounted(scan.events \cup queue, disk, tenant) /\ DOMAIN scan = ScanFields
      BY <1>1, <2>2 DEF History, ScanHistory
    <3>2. Accounted(scan.events \cup queue', disk', tenant')
      BY <1>5, <2>1, <3>1
    <3>. QED BY <1>1, <2>2, <3>1, <3>2
  <2>3. CASE scan.notes # None
    BY <1>1, <2>3 DEF History, ScanHistory
  <2>. QED BY <2>2, <2>3
<1>8. SnapHistory'
  BY <1>1 DEF History, SnapHistory
<1>. QED BY <1>3, <1>6, <1>7, <1>8 DEF History

\* A rename takes the note that last stood at the old path to the new one.
LEMMA RenameHistory ==
  ASSUME History, NEW p \in Paths, NEW q \in Paths, Rename(p, q)
  PROVE  History'
<1>. DEFINE v == Event("rename", q, p)
<1>1. disk[p] # None /\ disk[q] = None /\ p # q /\ Changed(disk', v)
  BY DEF Rename, Changed
<1>2. disk' = [disk EXCEPT ![p] = None, ![q] = disk[p]]
  BY DEF Rename, Changed
<1>3. DOMAIN disk = Paths /\ tenant[p] = disk[p].id
  BY <1>1 DEF History, VaultHistory, Shaped
<1>4. /\ DOMAIN disk' = Paths /\ disk'[p] = None /\ disk'[q] = disk[p]
      /\ \A x \in Paths \ {p, q} : disk'[x] = disk[x]
  BY <1>1, <1>2, <1>3
<1>5. Shaped(disk')
  BY <1>4 DEF History, VaultHistory, Shaped
<1>6. tenant'[p] = tenant[p]
  BY <1>1, <1>4 DEF Changed
<1>7. v \in RenameEvents /\ v.path = q /\ v.old = p
  BY DEF Event, RenameEvents
<1>8. \A x \in Paths : ~Touches(v, x) => disk'[x] = disk[x]
  BY <1>4, <1>7 DEF Touches
<1>. HIDE DEF v
<1>. QED BY <1>1, <1>3, <1>4, <1>5, <1>6, <1>7, <1>8, ChangedHistory

\* The other changes put a note or none at the one path their event tells.
LEMMA OtherChangeHistory ==
  ASSUME History, NEW p \in Paths, NEW k \in {"delete", "create", "modify"},
         Changed(disk', Event(k, p, Nowhere)),
         DOMAIN disk' = Paths,
         disk'[p] = None \/ DOMAIN disk'[p] = Fields,
         \A x \in Paths \ {p} : disk'[x] = disk[x]
  PROVE  History'
<1>1. Shaped(disk')
  BY DEF History, VaultHistory, Shaped
<1>2. Event(k, p, Nowhere).kind # "rename" /\ Touches(Event(k, p, Nowhere), p)
  BY DEF Event, Touches
<1>. QED BY <1>1, <1>2, ChangedHistory

\* Deleting, creating, editing and superseding notes.
LEMMA UserHistory ==
  ASSUME History, NEW p \in Paths, Delete(p) \/ Create(p) \/ Edit(p) \/ Supersede(p)
  PROVE  History'
<1>0. DOMAIN disk = Paths /\ (disk[p] # None => DOMAIN disk[p] = Fields)
  BY DEF History, VaultHistory, Shaped
<1>1. CASE Delete(p)
  <2>1. Changed(disk', Event("delete", p, Nowhere)) /\ disk' = [disk EXCEPT ![p] = None]
    BY <1>1 DEF Delete, Changed
  <2>. QED BY <1>0, <2>1, OtherChangeHistory
<1>2. CASE Create(p)
  <2>1. PICK n \in NewNotes :
          Changed([disk EXCEPT ![p] = [n EXCEPT !.id = 100 + changes]], Event("create", p, Nowhere))
    BY <1>2 DEF Create
  <2>2. /\ Changed(disk', Event("create", p, Nowhere))
        /\ disk' = [disk EXCEPT ![p] = [n EXCEPT !.id = 100 + changes]]
    BY <2>1 DEF Changed
  <2>3. DOMAIN n = Fields
    BY NotesAssumption, NoteFields
  <2>4. DOMAIN disk'[p] = Fields
    BY <1>0, <2>2, <2>3
  <2>. QED BY <1>0, <2>2, <2>4, OtherChangeHistory
<1>3. CASE Edit(p)
  <2>1. PICK b \in Bodies :
          disk[p] # None /\ Changed([disk EXCEPT ![p].body = b], Event("modify", p, Nowhere))
    BY <1>3 DEF Edit
  <2>2. Changed(disk', Event("modify", p, Nowhere)) /\ disk' = [disk EXCEPT ![p].body = b]
    BY <2>1 DEF Changed
  <2>3. DOMAIN disk'[p] = Fields
    BY <1>0, <2>1, <2>2
  <2>. QED BY <1>0, <2>2, <2>3, OtherChangeHistory
<1>4. CASE Supersede(p)
  <2>1. /\ Changed(disk', Event("modify", p, Nowhere))
        /\ disk' = [disk EXCEPT ![p].superseded = TRUE, ![p].header = TRUE]
    BY <1>4 DEF Supersede, Changed
  <2>2. DOMAIN disk'[p] = Fields
    BY <1>0, <1>4, <2>1 DEF Supersede
  <2>. QED BY <1>0, <2>1, <2>2, OtherChangeHistory
<1>. QED BY <1>1, <1>2, <1>3, <1>4

-----------------------------------------------------------------------------
(* The scan and the repairs.                                               *)

\* A scan takes the events, the listing what the vault holds, and the snapshot
\* what the scan holds.
LEMMA ScanStepHistory ==
  ASSUME History, StartScan \/ ListFiles \/ FailScan \/ CompleteScan
  PROVE  History'
<1>1. CASE StartScan
  <2>1. /\ scan' = [events |-> queue, notes |-> None, tenant |-> tenant, waiting |-> {}]
        /\ queue' = {} /\ UNCHANGED <<disk, snap, tenant>>
    BY <1>1 DEF StartScan
  <2>2. DOMAIN scan' = ScanFields /\ scan'.notes = None /\ scan'.events \cup queue' = queue
    BY <2>1 DEF ScanFields
  <2>3. Accounted({}, disk, tenant)
    BY DEF Accounted
  <2>4. VaultHistory' /\ SnapHistory'
    BY <2>1 DEF History, VaultHistory, SnapHistory
  <2>5. ScanHistory'
    BY <2>1, <2>2 DEF History, ScanHistory
  <2>. QED BY <2>1, <2>3, <2>4, <2>5 DEF History
<1>2. CASE ListFiles
  <2>1. /\ scan # None /\ scan.notes = None /\ UNCHANGED <<disk, queue, snap, tenant>>
        /\ scan' = [scan EXCEPT !.notes = disk, !.tenant = tenant, !.waiting = queue]
    BY <1>2 DEF ListFiles
  <2>2. DOMAIN scan = ScanFields /\ Accounted(scan.events \cup queue, disk, tenant)
    BY <2>1 DEF History, ScanHistory
  <2>3. /\ DOMAIN scan' = ScanFields /\ scan'.events = scan.events
        /\ scan'.notes = disk /\ scan'.tenant = tenant /\ scan'.waiting = queue
    BY <2>1, <2>2 DEF ScanFields
  <2>4. VaultHistory' /\ SnapHistory'
    BY <2>1 DEF History, VaultHistory, SnapHistory
  <2>5. ScanHistory'
    BY <2>1, <2>2, <2>3 DEF ScanHistory
  <2>. QED BY <2>1, <2>4, <2>5 DEF History
<1>3. CASE FailScan
  BY <1>3 DEF FailScan, History, VaultHistory, ScanHistory, SnapHistory
<1>4. CASE CompleteScan
  <2>1. /\ scan # None /\ scan.notes # None /\ scan' = None /\ UNCHANGED <<disk, queue, tenant>>
        /\ \E before : snap' = [events |-> scan.events, notes |-> scan.notes, tenant |-> scan.tenant,
                              waiting |-> scan.waiting, before |-> before]
    BY <1>4 DEF CompleteScan
  <2>2. /\ DOMAIN scan = ScanFields
        /\ Accounted(scan.events \cup scan.waiting, scan.notes, scan.tenant)
    BY <2>1 DEF History, ScanHistory
  <2>3. /\ snap'.events = scan.events /\ snap'.waiting = scan.waiting
        /\ snap'.notes = scan.notes /\ snap'.tenant = scan.tenant
    BY <2>1
  <2>4. SnapHistory'
    BY <2>2, <2>3 DEF SnapHistory
  <2>5. VaultHistory' /\ ScanHistory'
    BY <2>1 DEF History, VaultHistory, ScanHistory
  <2>. QED BY <2>1, <2>4, <2>5 DEF History
<1>. QED BY <1>1, <1>2, <1>3, <1>4

\* Writing operations moves no note.
LEMMA WrittenMovesNothing ==
  ASSUME NEW ops, Shaped(disk)
  PROVE  /\ Shaped(Written(disk, ops))
         /\ \A p \in Paths : /\ Written(disk, ops)[p].id = disk[p].id
                             /\ Written(disk, ops)[p] = None <=> disk[p] = None
<1>1. DOMAIN Written(disk, ops) = Paths
  BY DEF Written
<1>2. ASSUME NEW p \in Paths, disk[p] = None PROVE Written(disk, ops)[p] = None
  BY <1>2 DEF Written
<1>3. ASSUME NEW p \in Paths, disk[p] # None
      PROVE  /\ DOMAIN Written(disk, ops)[p] = Fields
             /\ Written(disk, ops)[p].id = disk[p].id
  <2>1. DOMAIN disk[p] = Fields
    BY <1>3 DEF Shaped
  <2>2. \E aliases, body : Written(disk, ops)[p] = [disk[p] EXCEPT !.aliases = aliases, !.body = body]
    BY <1>3 DEF Written
  <2>. QED BY <2>1, <2>2 DEF Fields
<1>. QED BY <1>1, <1>2, <1>3, NoteIsSome DEF Shaped

\* Applying a proposal keeps the history.
LEMMA ApplyHistory == ASSUME History, Apply PROVE History'
<1>1. UNCHANGED <<scan, snap, tenant>>
  BY DEF Apply
<1>2. CASE UNCHANGED <<disk, queue>>
  BY <1>1, <1>2 DEF History, VaultHistory, ScanHistory, SnapHistory
<1>3. CASE /\ disk' = Written(disk, proposal.ops)
           /\ queue' = queue \cup {Event("modify", op.path, Nowhere) : op \in proposal.ops}
  <2>. DEFINE more == {Event("modify", op.path, Nowhere) : op \in proposal.ops}
  <2>1. \A e \in more : e.kind # "rename"
    BY DEF Event
  <2>2. /\ Shaped(disk')
        /\ \A p \in Paths : disk'[p].id = disk[p].id /\ (disk'[p] = None <=> disk[p] = None)
    BY <1>3, WrittenMovesNothing DEF History, VaultHistory
  <2>3. queue' = queue \cup more
    BY <1>3
  <2>. HIDE DEF more
  <2>4. ASSUME NEW STATE events, Accounted(events, disk, tenant)
        PROVE  Accounted(events \cup more, disk', tenant)
    BY <2>1, <2>2, <2>4, QuietEvents
  <2>5. VaultHistory'
    BY <1>1, <2>2 DEF History, VaultHistory
  <2>6. Accounted(queue', disk', tenant')
    BY <1>1, <2>3, <2>4 DEF History
  <2>7. ASSUME scan # None, scan.notes = None
        PROVE  Accounted(scan.events \cup queue', disk', tenant')
    <3>1. Accounted(scan.events \cup queue, disk, tenant)
      BY <2>7 DEF History, ScanHistory
    <3>2. scan.events \cup queue' = (scan.events \cup queue) \cup more
      BY <2>3
    <3>. QED BY <1>1, <2>4, <3>1, <3>2
  <2>8. ScanHistory'
    BY <1>1, <2>7 DEF History, ScanHistory
  <2>9. SnapHistory'
    BY <1>1 DEF History, SnapHistory
  <2>. QED BY <2>5, <2>6, <2>8, <2>9 DEF History
<1>. QED BY <1>2, <1>3 DEF Apply

-----------------------------------------------------------------------------
(* The history is kept.                                                    *)

\* Nothing has been renamed at the start.
LEMMA InitHistory == Init => History
<1>. SUFFICES ASSUME Init PROVE History
  OBVIOUS
<1>1. disk \in [Paths -> Notes \cup {None}]
  BY NotesAssumption DEF Init
<1>2. Shaped(disk)
  BY <1>1, NoteFields DEF Shaped
<1>3. tenant = [p \in Paths |-> IF disk[p] = None THEN 0 ELSE disk[p].id]
  BY DEF Init
<1>4. VaultHistory
  BY <1>2, <1>3 DEF VaultHistory
<1>. QED BY <1>4 DEF Init, History, Accounted, ScanHistory, SnapHistory

\* No step leaves a rename unaccounted for.
LEMMA HistoryStep == History /\ [Next]_vars => History'
<1>. SUFFICES ASSUME History, [Next]_vars PROVE History'
  OBVIOUS
<1>1. ASSUME NEW p \in Paths, Delete(p) \/ Create(p) \/ Edit(p) \/ Supersede(p) PROVE History'
  BY <1>1, UserHistory
<1>2. ASSUME NEW p \in Paths, NEW q \in Paths, Rename(p, q) PROVE History'
  BY <1>2, RenameHistory
<1>3. CASE StartScan \/ ListFiles \/ FailScan \/ CompleteScan
  BY <1>3, ScanStepHistory
<1>4. CASE Apply
  BY <1>4, ApplyHistory
<1>5. CASE UNCHANGED <<disk, queue, scan, snap, tenant>>
  BY <1>5 DEF History, VaultHistory, ScanHistory, SnapHistory
<1>6. ASSUME NEW f \in findings, Recommend(f) \/ ChooseTarget(f) PROVE History'
  BY <1>5, <1>6 DEF Recommend, ChooseTarget, Intend
<1>7. CASE Propose
  BY <1>5, <1>7 DEF Propose
<1>8. ASSUME NEW p \in Paths, NEW q \in Paths, Consolidate(p, q) PROVE History'
  BY <1>5, <1>8 DEF Consolidate
<1>9. CASE UNCHANGED vars
  BY <1>5, <1>9 DEF vars
<1>. QED BY <1>1, <1>2, <1>3, <1>4, <1>6, <1>7, <1>8, <1>9 DEF Next

\* Every rename in the queue, in a scan or in the snapshot is accounted for.
THEOREM RenamesAccounted == Spec => []History
BY InitHistory, HistoryStep, PTL DEF Spec

-----------------------------------------------------------------------------
(* What passes for a verified rename.                                      *)

\* What a reference asks for does not depend on what it resolves to.
LEMMA AskedPath ==
  ASSUME NEW notes, NEW ref, NEW source
  PROVE  ResolveInternalReference(notes, ref, source).asked = ParseReferenceTarget(ref, source)
BY DEF ResolveInternalReference

\* What a candidate is made of.
LEMMA CandidateFields ==
  \A source, path, anchor, priority, score :
    /\ Candidate(source, path, anchor, priority, score).source = source
    /\ Candidate(source, path, anchor, priority, score).path = path
    /\ Candidate(source, path, anchor, priority, score).anchor = anchor
BY DEF Candidate

\* A candidate for an anchor is never one for a rename.
LEMMA AnchorCandidate ==
  ASSUME NEW note, NEW path, NEW missing, NEW c \in BuildAnchorCandidates(note, path, missing)
  PROVE  c.source = "anchor"
<1>1. \E a, score : c = Candidate("anchor", path, a, 0, score)
  BY Zenon DEF BuildAnchorCandidates
<1>. QED BY <1>1, CandidateFields

\* A candidate for a rename is a rename of the path asked for.
LEMMA RenameCandidate ==
  ASSUME NEW f, NEW notes, NEW renames,
         NEW c \in BuildReferenceRepairCandidates(f, notes, renames), c.source = "rename"
  PROVE  \E r \in renames : r.old = ParseReferenceTarget(f.text, f.path) /\ r.path = c.path
<1>. DEFINE slot == <<f.path, f.line>>
            to == Resolve(notes, slot)
<1>1. /\ Ref(notes, slot) = f.text
      /\ \/ c \in BuildAnchorCandidates(notes[to.path], to.path, f.text.anchor)
         \/ c = Candidate("canonical", to.path, NoAnchor, 0, 0)
         \/ c \in BuildPathCandidates(notes, f.path, to.asked, renames)
  BY DEF BuildReferenceRepairCandidates, Foremost
<1>2. to.asked = ParseReferenceTarget(f.text, f.path)
  BY <1>1, AskedPath DEF Resolve
<1>. HIDE DEF to
<1>3. c \in BuildPathCandidates(notes, f.path, to.asked, renames)
  BY <1>1, CandidateFields, AnchorCandidate
<1>4. PICK p \in {r.path : r \in {x \in renames : x.old = to.asked /\ x.path \in Live(notes)}} :
        c = Candidate("rename", p, NoAnchor, 0, 0)
  BY <1>3, CandidateFields DEF BuildPathCandidates
<1>. QED BY <1>2, <1>4, CandidateFields

\* In a snapshot whose renames are accounted for, the candidate was moved.
LEMMA MovedInHistory == History => VerifiedIsMoved
<1>. SUFFICES ASSUME History, snap # None, NEW f \in findings,
                     NEW c \in BuildReferenceRepairCandidates(f, snap.notes, RecentRenames(snap.events)),
                     c.source = "rename"
     PROVE  LET asked == ParseReferenceTarget(f.text, f.path)
                moved == Event("rename", c.path, asked)
            IN  /\ moved \in snap.events
                /\ \/ snap.notes[c.path].id = snap.tenant[asked]
                   \/ \E e \in snap.events \cup snap.waiting :
                        e # moved /\ (Touches(e, c.path) \/ Touches(e, asked))
  BY DEF VerifiedIsMoved
<1>. DEFINE asked == ParseReferenceTarget(f.text, f.path)
            moved == Event("rename", c.path, asked)
<1>1. PICK r \in RecentRenames(snap.events) : r.old = asked /\ r.path = c.path
  BY RenameCandidate
<1>2. PICK m \in snap.events : m.kind = "rename" /\ m.old = asked /\ m.path = c.path
  BY <1>1 DEF RecentRenames
<1>3. /\ m \in RenameEvents
      /\ \/ snap.notes[m.path].id = snap.tenant[m.old]
         \/ \E e \in snap.events \cup snap.waiting : e # m /\ (Touches(e, m.path) \/ Touches(e, m.old))
  BY <1>2 DEF History, SnapHistory, Accounted
<1>4. m = moved
  BY <1>2, <1>3 DEF RenameEvents, Event
<1>. HIDE DEF asked, moved
<1>5. moved \in snap.events
  BY <1>2, <1>4
<1>6. \/ snap.notes[c.path].id = snap.tenant[asked]
      \/ \E e \in snap.events \cup snap.waiting : e # moved /\ (Touches(e, c.path) \/ Touches(e, asked))
  BY <1>2, <1>3, <1>4
<1>. QED BY <1>5, <1>6 DEF asked, moved

\* A candidate that passes for a verified rename is the note that last stood
\* at the missing path, or another event of the scan tells that one of the two
\* paths was used again: the renames of one scan, and what the reader has
\* queued while the files were listed, are all that has to be remembered.
THEOREM VerifiedRenames == Spec => []VerifiedIsMoved
BY RenamesAccounted, MovedInHistory, PTL

-----------------------------------------------------------------------------
(* Walking over the parts of a path.                                       *)

\* A set of numbers with zero that is closed under successor has every number.
LEMMA EveryNumber ==
  ASSUME NEW S \in SUBSET Nat, 0 \in S, \A n \in S : n + 1 \in S
  PROVE  S = Nat
<1>. DEFINE Less == {ss \in Nat \X Nat : ss[1] < ss[2]}
<1>1. IsWellFoundedOn(Less, Nat)
  BY NatLessThanWellFounded DEF OpToRel
<1>2. SUFFICES ASSUME Nat \ S # {} PROVE FALSE
  OBVIOUS
<1>3. PICK n \in Nat \ S : \A m \in Nat \ S : ~ (<<m, n>> \in Less)
  <2>. HIDE DEF Less
  <2>1. Nat \ S \subseteq Nat
    OBVIOUS
  <2>. QED BY <1>1, <1>2, <2>1, WFMin
<1>4. n # 0 /\ n - 1 \in Nat /\ n - 1 < n
  OBVIOUS
<1>5. n - 1 \notin S
  <2>1. (n - 1) + 1 = n
    BY <1>4
  <2>. QED BY <2>1, <1>4
<1>6. <<n - 1, n>> \in Less
  BY <1>4
<1>. QED BY <1>3, <1>4, <1>5, <1>6

\* The paths reached part by part.
Climbing(parts, walk) ==
  walk = [n \in 0..Len(parts) |-> IF n = 0 THEN Nowhere ELSE Climb(walk[n - 1], parts[n])]

\* There is one walk over the parts at most, and it ends at the normal path.
LEMMA NormalPath ==
  ASSUME NEW parts, Len(parts) \in Nat, NEW walk, Climbing(parts, walk)
  PROVE  NormalizeResolvedPath(parts) = walk[Len(parts)]
<1>. DEFINE N == Len(parts)
            climbed == CHOOSE w : w = [n \in 0..N |-> IF n = 0 THEN Nowhere ELSE Climb(w[n - 1], parts[n])]
<1>1. Climbing(parts, climbed)
  BY DEF Climbing
<1>. HIDE DEF climbed
<1>. DEFINE S == {n \in Nat : n <= N => climbed[n] = walk[n]}
<1>2. 0 \in S
  BY <1>1 DEF Climbing
<1>3. ASSUME NEW n \in S PROVE n + 1 \in S
  <2>. SUFFICES ASSUME n + 1 <= N PROVE climbed[n + 1] = walk[n + 1]
    OBVIOUS
  <2>1. n \in Nat /\ climbed[n] = walk[n] /\ n + 1 \in 0..N /\ n + 1 # 0 /\ (n + 1) - 1 = n
    OBVIOUS
  <2>2. climbed[n + 1] = Climb(climbed[n], parts[n + 1])
    BY <1>1, <2>1 DEF Climbing
  <2>3. walk[n + 1] = Climb(walk[n], parts[n + 1])
    BY <2>1 DEF Climbing
  <2>. QED BY <2>1, <2>2, <2>3
<1>4. S = Nat
  <2>. HIDE DEF S
  <2>1. S \subseteq Nat
    BY DEF S
  <2>. QED BY <1>2, <1>3, <2>1, EveryNumber
<1>5. climbed[N] = walk[N]
  BY <1>4
<1>6. NormalizeResolvedPath(parts) = climbed[N]
  BY DEF NormalizeResolvedPath, climbed
<1>. QED BY <1>5, <1>6

\* The first parts of a path.
LEMMA FirstParts ==
  ASSUME NEW S, NEW s \in Seq(S), NEW i \in 0..Len(s)
  PROVE  /\ SubSeq(s, 1, i) \in Seq(S)
         /\ Len(SubSeq(s, 1, i)) = i
         /\ \A j \in 1..i : SubSeq(s, 1, i)[j] = s[j]
<1>1. Len(s) \in Nat /\ \A j \in 1..i : s[j] \in S
  BY LenProperties
<1>. QED BY <1>1, SubSeqProperties

\* A part that does not climb goes down, one that climbs goes up.
LEMMA ClimbDown ==
  ASSUME NEW S, NEW s \in Seq(S), ".." \notin S, NEW i \in 1..Len(s)
  PROVE  Climb(SubSeq(s, 1, i - 1), s[i]) = SubSeq(s, 1, i)
<1>. DEFINE a == SubSeq(s, 1, i - 1)
            b == SubSeq(s, 1, i)
<1>0. Len(s) \in Nat /\ i - 1 \in 0..Len(s) /\ i \in 0..Len(s)
  BY LenProperties
<1>1. a \in Seq(S) /\ Len(a) = i - 1 /\ \A j \in 1..(i - 1) : a[j] = s[j]
  BY <1>0, FirstParts
<1>2. b \in Seq(S) /\ Len(b) = i /\ \A j \in 1..i : b[j] = s[j]
  BY <1>0, FirstParts
<1>. HIDE DEF a, b
<1>3. s[i] \in S
  BY ElementOfSeq
<1>4. ASSUME a = Outside PROVE FALSE
  <2>1. a[1] = ".." /\ Len(a) = 1
    BY <1>4 DEF Outside
  <2>2. a[1] \in S
    BY <1>1, <2>1, ElementOfSeq
  <2>. QED BY <2>1, <2>2
<1>5. Climb(a, s[i]) = Append(a, s[i])
  BY <1>3, <1>4 DEF Climb
<1>6. Append(a, s[i]) = b
  <2>1. /\ Append(a, s[i]) \in Seq(S) /\ Len(Append(a, s[i])) = i
        /\ \A j \in 1..(i - 1) : Append(a, s[i])[j] = a[j]
        /\ Append(a, s[i])[i] = s[i]
    BY <1>0, <1>1, <1>3, AppendProperties
  <2>2. \A j \in 1..i : Append(a, s[i])[j] = b[j]
    BY <1>0, <1>1, <1>2, <2>1
  <2>. QED BY <1>2, <2>1, <2>2, SeqEqual
<1>. QED BY <1>5, <1>6 DEF a, b

LEMMA ClimbUp ==
  ASSUME NEW S, NEW s \in Seq(S), ".." \notin S, NEW i \in 1..Len(s)
  PROVE  Climb(SubSeq(s, 1, i), "..") = SubSeq(s, 1, i - 1)
<1>. DEFINE a == SubSeq(s, 1, i - 1)
            b == SubSeq(s, 1, i)
<1>0. Len(s) \in Nat /\ i - 1 \in 0..Len(s) /\ i \in 0..Len(s) /\ i - 1 \in 0..i
  BY LenProperties
<1>1. a \in Seq(S) /\ Len(a) = i - 1 /\ \A j \in 1..(i - 1) : a[j] = s[j]
  BY <1>0, FirstParts
<1>2. b \in Seq(S) /\ Len(b) = i /\ \A j \in 1..i : b[j] = s[j]
  BY <1>0, FirstParts
<1>. HIDE DEF a, b
<1>3. b[1] \in S
  BY <1>2, ElementOfSeq
<1>4. b # Outside /\ b # Nowhere
  <2>1. Outside[1] = ".." /\ Len(Nowhere) = 0
    BY DEF Outside, Nowhere
  <2>. QED BY <1>2, <1>3, <2>1
<1>5. Climb(b, "..") = SubSeq(b, 1, i - 1)
  BY <1>2, <1>4 DEF Climb, Front
<1>6. SubSeq(b, 1, i - 1) = a
  <2>1. /\ SubSeq(b, 1, i - 1) \in Seq(S) /\ Len(SubSeq(b, 1, i - 1)) = i - 1
        /\ \A j \in 1..(i - 1) : SubSeq(b, 1, i - 1)[j] = b[j]
    BY <1>0, <1>2, FirstParts
  <2>2. \A j \in 1..(i - 1) : SubSeq(b, 1, i - 1)[j] = a[j]
    BY <1>0, <1>1, <1>2, <2>1
  <2>. QED BY <1>1, <2>1, <2>2, SeqEqual
<1>. QED BY <1>5, <1>6 DEF a, b

\* A path that does not climb is normal.
LEMMA PlainPath ==
  ASSUME NEW S, NEW parts \in Seq(S), ".." \notin S
  PROVE  NormalizeResolvedPath(parts) = parts
<1>. DEFINE N == Len(parts)
            walk == [n \in 0..N |-> SubSeq(parts, 1, n)]
<1>1. N \in Nat
  BY LenProperties
<1>2. \A n \in 0..N : walk[n] = IF n = 0 THEN Nowhere ELSE Climb(walk[n - 1], parts[n])
  <2>. SUFFICES ASSUME NEW n \in 0..N
       PROVE  SubSeq(parts, 1, n) = IF n = 0 THEN Nowhere ELSE Climb(walk[n - 1], parts[n])
    OBVIOUS
  <2>1. CASE n = 0
    BY <2>1, SubSeqEmpty DEF Nowhere
  <2>2. CASE n # 0
    <3>1. n \in 1..N /\ walk[n - 1] = SubSeq(parts, 1, n - 1)
      BY <1>1, <2>2
    <3>. QED BY <2>2, <3>1, ClimbDown
  <2>. QED BY <2>1, <2>2
<1>3. Climbing(parts, walk)
  <2>1. walk = [n \in 0..N |-> walk[n]]
    OBVIOUS
  <2>. HIDE DEF walk
  <2>. QED BY <1>2, <2>1 DEF Climbing
<1>4. NormalizeResolvedPath(parts) = walk[N]
  <2>. HIDE DEF walk
  <2>. QED BY <1>1, <1>3, NormalPath
<1>5. walk[N] = parts
  BY <1>1, SubSeqFull
<1>. QED BY <1>4, <1>5

\* A set of numbers that is not empty has a least one.
LEMMA LeastNumber ==
  ASSUME NEW S \in SUBSET Nat, S # {}
  PROVE  Min(S) \in S /\ \A k \in S : Min(S) <= k
<1>. DEFINE Above == {n \in Nat : \A k \in S : n <= k}
<1>1. 0 \in Above
  OBVIOUS
<1>2. PICK n \in Above : n + 1 \notin Above
  <2>1. PICK k \in S : TRUE
    OBVIOUS
  <2>2. k + 1 \notin Above /\ k + 1 \in Nat
    <3>1. k \in Nat /\ ~(k + 1 <= k)
      OBVIOUS
    <3>. QED BY <3>1
  <2>3. Above # Nat
    BY <2>2
  <2>. HIDE DEF Above
  <2>4. Above \subseteq Nat
    BY DEF Above
  <2>. QED BY <1>1, <2>3, <2>4, EveryNumber
<1>3. n \in Nat /\ \A k \in S : n <= k
  OBVIOUS
<1>4. n \in S
  <2>1. PICK k \in S : ~(n + 1 <= k)
    BY <1>2, <1>3
  <2>2. n <= k /\ k \in Nat
    BY <1>3
  <2>3. n = k
    BY <1>3, <2>1, <2>2
  <2>. QED BY <2>3
<1>5. \E x \in S : \A k \in S : x <= k
  BY <1>3, <1>4
<1>. QED BY <1>5 DEF Min

\* Two directories share the folders they are said to share.
LEMMA SharedPrefix ==
  ASSUME NEW S, NEW dir \in Seq(S), NEW folders \in Seq(S)
  PROVE  /\ SharedFolders(dir, folders) \in 0..Len(dir)
         /\ SharedFolders(dir, folders) <= Len(folders)
         /\ \A j \in 1..SharedFolders(dir, folders) : dir[j] = folders[j]
<1>. DEFINE Differ(k) == k < Len(dir) /\ k < Len(folders) => dir[k + 1] # folders[k + 1]
            S0 == {k \in 0..Len(dir) : Differ(k)}
            m == SharedFolders(dir, folders)
<1>1. Len(dir) \in Nat /\ Len(folders) \in Nat
  BY LenProperties
<1>2. Len(dir) \in S0 /\ S0 \in SUBSET Nat
  BY <1>1
<1>3. m \in S0 /\ \A k \in S0 : m <= k
  <2>. HIDE DEF S0
  <2>1. m = Min(S0)
    BY DEF S0, SharedFolders
  <2>2. S0 # {}
    BY <1>2
  <2>. HIDE DEF m
  <2>. QED BY <1>2, <2>1, <2>2, LeastNumber
<1>. HIDE DEF m
<1>4. \A k \in 0..(m - 1) : k < Len(dir) /\ k < Len(folders) /\ dir[k + 1] = folders[k + 1]
  <2>. SUFFICES ASSUME NEW k \in 0..(m - 1), Differ(k) PROVE FALSE
    OBVIOUS
  <2>1. m \in 0..Len(dir) /\ k \in 0..Len(dir) /\ k < m
    BY <1>1, <1>3
  <2>2. m <= k
    BY <1>3, <2>1
  <2>. QED BY <2>1, <2>2
<1>5. m \in 0..Len(dir)
  BY <1>3
<1>6. m <= Len(folders)
  <2>1. CASE m = 0
    BY <1>1, <2>1
  <2>2. CASE m # 0
    <3>1. m - 1 \in 0..(m - 1)
      BY <1>1, <1>5, <2>2
    <3>2. m - 1 < Len(folders)
      BY <1>4, <3>1
    <3>. QED BY <1>1, <1>5, <3>2
  <2>. QED BY <2>1, <2>2
<1>7. ASSUME NEW j \in 1..m PROVE dir[j] = folders[j]
  <2>1. j - 1 \in 0..(m - 1) /\ (j - 1) + 1 = j
    BY <1>1, <1>5
  <2>. QED BY <1>4, <2>1
<1>. QED BY <1>5, <1>6, <1>7 DEF m

\* What a target is: parts that do not climb, one at least.
LEMMA TargetParts ==
  ASSUME NEW p \in Targets
  PROVE  /\ p \in Seq(Names) /\ Len(p) \in Nat \ {0}
         /\ p[Len(p)] \in Names /\ ".." \notin Names
         /\ Front(p) \in Seq(Names) /\ Len(Front(p)) = Len(p) - 1
         /\ \A j \in 1..(Len(p) - 1) : Front(p)[j] = p[j]
<1>1. p \in Seq(Names) /\ Len(p) \in Nat \ {0}
  BY EmptySeq DEF Targets, Nowhere
<1>2. p[Len(p)] \in Names
  BY <1>1, ElementOfSeq
<1>3. Len(p) - 1 \in 0..Len(p)
  BY <1>1
<1>. QED BY <1>1, <1>2, <1>3, FirstParts DEF Front, Names

\* The way from a directory to a path it shares folders with: up to the last
\* folder both share, and down.
LEMMA WayThere ==
  ASSUME NEW dir \in Seq(Names), NEW target \in Targets, NEW k \in 0..Len(dir),
         k < Len(target), \A j \in 1..k : dir[j] = target[j]
  PROVE  LET up == [i \in 1..(Len(dir) - k) |-> ".."]
             way == up \o SubSeq(target, k + 1, Len(target))
         IN  /\ way \in Seq(Parts) /\ way[Len(way)] \in Names /\ Len(way) \in Nat \ {0}
             /\ NormalizeResolvedPath(dir \o way) = target
<1>. DEFINE n == Len(dir)
            m == Len(target)
            up == [i \in 1..(n - k) |-> ".."]
            down == SubSeq(target, k + 1, m)
            way == up \o down
            parts == dir \o way
            L == 2 * (n - k) + m
<1>1. n \in Nat /\ m \in Nat /\ k \in Nat /\ k <= n /\ k < m /\ Names \subseteq Parts /\ ".." \notin Names
      /\ target \in Seq(Names)
  BY LenProperties, TargetParts DEF Names, Parts
<1>2. up \in Seq(Parts) /\ Len(up) = n - k /\ \A i \in 1..(n - k) : up[i] = ".."
  <2>0. n - k \in Nat
    BY <1>1
  <2>1. up \in [1..(n - k) -> Parts]
    BY DEF Parts
  <2>2. up \in Seq(Parts)
    <3>. HIDE DEF up
    <3>. QED BY <2>0, <2>1, SeqDef
  <2>3. DOMAIN up = 1..(n - k)
    OBVIOUS
  <2>4. Len(up) = n - k
    <3>. HIDE DEF up, n
    <3>. QED BY <2>0, <2>2, <2>3, LenProperties
  <2>. QED BY <2>2, <2>4
<1>3. down \in Seq(Names) /\ Len(down) = m - k /\ \A i \in 1..(m - k) : down[i] = target[k + i]
  <2>1. \A i \in (k + 1)..m : target[i] \in Names
    BY <1>1, ElementOfSeq
  <2>2. /\ down \in Seq(Names) /\ Len(down) = m - k
        /\ \A i \in 1..(m - (k + 1) + 1) : down[i] = target[(k + 1) + i - 1]
    BY <1>1, <2>1, SubSeqProperties
  <2>. HIDE DEF down
  <2>. QED BY <1>1, <2>2
<1>. HIDE DEF up, down
<1>4. down \in Seq(Parts) /\ dir \in Seq(Parts)
  BY <1>1, <1>3, SeqMonotonic
<1>5. /\ way \in Seq(Parts) /\ Len(way) = n - k + m - k
      /\ \A i \in 1..(n - k + m - k) : way[i] = IF i <= n - k THEN ".." ELSE target[i - n + 2 * k]
  <2>0. /\ way \in Seq(Parts) /\ Len(way) = Len(up) + Len(down)
        /\ \A i \in 1..(Len(up) + Len(down)) : way[i] = IF i <= Len(up) THEN up[i] ELSE down[i - Len(up)]
    BY <1>2, <1>4, ConcatProperties
  <2>. HIDE DEF way
  <2>1. /\ way \in Seq(Parts) /\ Len(way) = n - k + m - k
        /\ \A i \in 1..(n - k + m - k) : way[i] = IF i <= n - k THEN up[i] ELSE down[i - (n - k)]
    <3>1. Len(up) + Len(down) = n - k + m - k
      BY <1>1, <1>2, <1>3
    <3>. QED BY <1>2, <2>0, <3>1
  <2>2. ASSUME NEW i \in 1..(n - k + m - k)
        PROVE  way[i] = IF i <= n - k THEN ".." ELSE target[i - n + 2 * k]
    <3>1. CASE i <= n - k
      BY <1>1, <1>2, <2>1, <3>1
    <3>2. CASE ~(i <= n - k)
      <4>1. i - (n - k) \in 1..(m - k) /\ k + (i - (n - k)) = i - n + 2 * k
        BY <1>1, <3>2
      <4>2. way[i] = down[i - (n - k)]
        BY <1>1, <2>1, <3>2
      <4>. QED BY <1>3, <3>2, <4>1, <4>2
    <3>. QED BY <3>1, <3>2
  <2>. QED BY <2>1, <2>2
<1>. HIDE DEF way
<1>6. way[Len(way)] \in Names /\ Len(way) \in Nat \ {0}
  <2>1. /\ Len(way) \in 1..(n - k + m - k) /\ ~(Len(way) <= n - k)
        /\ Len(way) - n + 2 * k = m /\ Len(way) \in Nat \ {0}
    BY <1>1, <1>5
  <2>2. way[Len(way)] = target[m]
    BY <1>5, <2>1
  <2>. QED BY <2>1, <2>2, TargetParts
<1>7. /\ parts \in Seq(Parts) /\ Len(parts) = L
      /\ \A i \in 1..L : parts[i] = IF i <= n THEN dir[i]
                                    ELSE IF i <= 2 * n - k THEN ".." ELSE target[i - 2 * n + 2 * k]
  <2>1. /\ parts \in Seq(Parts) /\ Len(parts) = L
        /\ \A i \in 1..L : parts[i] = IF i <= n THEN dir[i] ELSE way[i - n]
    <3>1. n + Len(way) = L
      BY <1>1, <1>5
    <3>2. /\ parts \in Seq(Parts) /\ Len(parts) = n + Len(way)
          /\ \A i \in 1..(n + Len(way)) : parts[i] = IF i <= n THEN dir[i] ELSE way[i - n]
      BY <1>4, <1>5, ConcatProperties
    <3>. HIDE DEF parts, L
    <3>. QED BY <3>1, <3>2
  <2>. HIDE DEF parts
  <2>2. ASSUME NEW i \in 1..L, ~(i <= n)
        PROVE  way[i - n] = IF i <= 2 * n - k THEN ".." ELSE target[i - 2 * n + 2 * k]
    <3>1. /\ i - n \in 1..(n - k + m - k) /\ (i - n <= n - k <=> i <= 2 * n - k)
          /\ (i - n) - n + 2 * k = i - 2 * n + 2 * k
      BY <1>1, <2>2
    <3>. QED BY <1>5, <3>1
  <2>. QED BY <1>1, <2>1, <2>2
<1>. HIDE DEF parts
<1>. DEFINE walk == [i \in 0..L |-> IF i <= n THEN SubSeq(dir, 1, i)
                                    ELSE IF i <= 2 * n - k THEN SubSeq(dir, 1, 2 * n - i)
                                    ELSE SubSeq(target, 1, i - 2 * n + 2 * k)]
<1>8. L \in Nat /\ n <= 2 * n - k /\ 2 * n - k < L
  BY <1>1
<1>9. SubSeq(dir, 1, k) = SubSeq(target, 1, k)
  <2>1. k \in 0..n /\ k \in 0..m
    BY <1>1
  <2>2. /\ SubSeq(dir, 1, k) \in Seq(Names) /\ Len(SubSeq(dir, 1, k)) = k
        /\ \A j \in 1..k : SubSeq(dir, 1, k)[j] = dir[j]
    BY <2>1, FirstParts
  <2>3. /\ SubSeq(target, 1, k) \in Seq(Names) /\ Len(SubSeq(target, 1, k)) = k
        /\ \A j \in 1..k : SubSeq(target, 1, k)[j] = target[j]
    BY <1>1, <2>1, FirstParts
  <2>. QED BY <2>2, <2>3, SeqEqual
<1>10. \A i \in 0..L : walk[i] = IF i = 0 THEN Nowhere ELSE Climb(walk[i - 1], parts[i])
  <2>. SUFFICES ASSUME NEW i \in 0..L
       PROVE  walk[i] = IF i = 0 THEN Nowhere ELSE Climb(walk[i - 1], parts[i])
    OBVIOUS
  <2>1. CASE i = 0
    <3>1. walk[i] = SubSeq(dir, 1, 0)
      BY <1>1, <2>1
    <3>. QED BY <2>1, <3>1, SubSeqEmpty DEF Nowhere
  <2>2. CASE i \in 1..n
    <3>1. i # 0 /\ i - 1 \in 0..L /\ i \in 1..L /\ i <= n /\ i - 1 <= n
      BY <1>1, <1>8, <2>2
    <3>2. walk[i] = SubSeq(dir, 1, i) /\ walk[i - 1] = SubSeq(dir, 1, i - 1)
      BY <3>1
    <3>3. parts[i] = dir[i]
      BY <1>7, <3>1
    <3>4. Climb(SubSeq(dir, 1, i - 1), dir[i]) = SubSeq(dir, 1, i)
      BY <1>1, <2>2, ClimbDown
    <3>. QED BY <3>1, <3>2, <3>3, <3>4
  <2>3. CASE i \in (n + 1)..(2 * n - k)
    <3>. DEFINE j == 2 * n - (i - 1)
    <3>1. j \in 1..n /\ j - 1 = 2 * n - i /\ i # 0 /\ i - 1 \in 0..L /\ i \in 1..L /\ ~(i <= n) /\ i <= 2 * n - k
      <4>1. j \in 1..n /\ j - 1 = 2 * n - i
        BY <1>1, <2>3
      <4>. HIDE DEF j, L, walk
      <4>2. i # 0 /\ i - 1 \in 0..L /\ i \in 1..L /\ ~(i <= n) /\ i <= 2 * n - k
        BY <1>1, <1>8, <2>3
      <4>. QED BY <4>1, <4>2
    <3>2. walk[i] = SubSeq(dir, 1, 2 * n - i) /\ parts[i] = ".."
      BY <1>7, <3>1
    <3>3. walk[i - 1] = SubSeq(dir, 1, j)
      <4>1. CASE i - 1 <= n
        <5>1. i - 1 = n /\ j = n
          BY <1>1, <3>1, <4>1
        <5>. QED BY <3>1, <5>1
      <4>2. CASE ~(i - 1 <= n)
        <5>1. i - 1 <= 2 * n - k
          BY <1>1, <3>1
        <5>. QED BY <3>1, <4>2, <5>1
      <4>. QED BY <4>1, <4>2
    <3>4. Climb(SubSeq(dir, 1, j), "..") = SubSeq(dir, 1, j - 1)
      <4>. HIDE DEF j
      <4>. QED BY <1>1, <3>1, ClimbUp
    <3>. QED BY <3>1, <3>2, <3>3, <3>4
  <2>4. CASE i \in (2 * n - k + 1)..L
    <3>. DEFINE j == i - 2 * n + 2 * k
    <3>1. j \in 1..m /\ j - 1 = (i - 1) - 2 * n + 2 * k /\ i # 0 /\ i - 1 \in 0..L /\ i \in 1..L
          /\ ~(i <= n) /\ ~(i <= 2 * n - k)
      BY <1>1, <1>8, <2>4
    <3>2. walk[i] = SubSeq(target, 1, j) /\ parts[i] = target[j]
      BY <1>7, <3>1
    <3>3. walk[i - 1] = SubSeq(target, 1, j - 1)
      <4>1. CASE i - 1 <= 2 * n - k
        <5>1. i - 1 = 2 * n - k /\ j - 1 = k /\ 2 * n - (i - 1) = k
          BY <1>1, <3>1, <4>1
        <5>2. walk[i - 1] = SubSeq(dir, 1, k)
          <6>1. CASE i - 1 <= n
            <7>1. i - 1 = k
              BY <1>1, <5>1, <6>1
            <7>. QED BY <3>1, <6>1, <7>1
          <6>2. CASE ~(i - 1 <= n)
            BY <3>1, <4>1, <5>1, <6>2
          <6>. QED BY <6>1, <6>2
        <5>. QED BY <1>9, <5>1, <5>2
      <4>2. CASE ~(i - 1 <= 2 * n - k)
        <5>1. ~(i - 1 <= n)
          BY <1>1, <1>8, <3>1, <4>2
        <5>. QED BY <3>1, <4>2, <5>1
      <4>. QED BY <4>1, <4>2
    <3>4. Climb(SubSeq(target, 1, j - 1), target[j]) = SubSeq(target, 1, j)
      <4>. HIDE DEF j
      <4>. QED BY <1>1, <3>1, ClimbDown
    <3>. QED BY <3>1, <3>2, <3>3, <3>4
  <2>5. i = 0 \/ i \in 1..n \/ i \in (n + 1)..(2 * n - k) \/ i \in (2 * n - k + 1)..L
    BY <1>1, <1>8
  <2>. QED BY <2>1, <2>2, <2>3, <2>4, <2>5
<1>11. Climbing(parts, walk)
  <2>1. walk = [i \in 0..L |-> walk[i]]
    OBVIOUS
  <2>. HIDE DEF walk, L
  <2>. QED BY <1>7, <1>10, <2>1 DEF Climbing
<1>12. NormalizeResolvedPath(parts) = walk[L]
  <2>. HIDE DEF walk, L
  <2>. QED BY <1>7, <1>8, <1>11, NormalPath
<1>13. walk[L] = target
  <2>1. ~(L <= n) /\ ~(L <= 2 * n - k) /\ L - 2 * n + 2 * k = m /\ L \in 0..L
    BY <1>1, <1>8
  <2>2. walk[L] = SubSeq(target, 1, m)
    BY <2>1
  <2>. QED BY <1>1, <2>2, SubSeqFull
<1>. QED BY <1>5, <1>6, <1>12, <1>13 DEF way, parts, up, down

\* A reference that is replaced reaches the target from where it stands.
LEMMA ReplacedReaches ==
  ASSUME NEW ref \in Links, NEW source \in Targets, NEW target \in Targets,
         NEW anchor \in Headings \cup {NoAnchor},
         NEW new \in ReplaceInternalReference(ref, source, target, anchor)
  PROVE  /\ new \in Links /\ ParseReferenceTarget(new, source) = target
         /\ anchor # NoAnchor => new.anchor = anchor
<1>. DEFINE kept == [ref EXCEPT !.anchor = IF anchor = NoAnchor THEN ref.anchor ELSE anchor]
<1>1. /\ kept \in Links /\ kept.kind = ref.kind /\ kept.raw = ref.raw
      /\ anchor # NoAnchor => kept.anchor = anchor
  BY DEF Links
<1>2. ASSUME NEW raw \in Seq(Parts), Len(raw) \in Nat \ {0}, raw[Len(raw)] \in Names, new = [kept EXCEPT !.raw = raw]
      PROVE  /\ new \in Links /\ new.kind = ref.kind /\ new.raw = raw /\ raw # External
             /\ anchor # NoAnchor => new.anchor = anchor
  <2>1. raw # External
    <3>1. Len(External) = 1 /\ External[1] = "https:"
      BY DEF External
    <3>. QED BY <1>2, <3>1 DEF Names
  <2>. HIDE DEF kept
  <2>2. new \in Links /\ new.kind = kept.kind /\ new.raw = raw /\ new.anchor = kept.anchor
    BY <1>1, <1>2 DEF Links
  <2>. QED BY <1>1, <2>1, <2>2
<1>3. CASE ref.kind # "markdown" /\ new = [kept EXCEPT !.raw = target]
  <2>1. target \in Seq(Parts) /\ Len(target) \in Nat \ {0} /\ target[Len(target)] \in Names
    <3>1. Names \subseteq Parts
      BY DEF Parts
    <3>. QED BY <3>1, TargetParts, SeqMonotonic
  <2>2. /\ new \in Links /\ new.kind # "markdown" /\ new.raw = target /\ target # External
        /\ anchor # NoAnchor => new.anchor = anchor
    BY <1>2, <1>3, <2>1
  <2>3. NormalizeResolvedPath(target) = target
    BY TargetParts, PlainPath
  <2>. QED BY <2>2, <2>3 DEF ParseReferenceTarget
<1>4. CASE ref.kind = "markdown" /\ new = [kept EXCEPT !.raw = RelativeMarkdownPath(source, target)]
  <2>. DEFINE dir == Front(source)
              k == SharedFolders(dir, Front(target))
              raw == RelativeMarkdownPath(source, target)
  <2>1. dir \in Seq(Names) /\ Front(target) \in Seq(Names) /\ Len(Front(target)) = Len(target) - 1
        /\ Len(target) \in Nat \ {0} /\ \A j \in 1..(Len(target) - 1) : Front(target)[j] = target[j]
    BY TargetParts
  <2>2. k \in 0..Len(dir) /\ k <= Len(Front(target)) /\ \A j \in 1..k : dir[j] = Front(target)[j]
    BY <2>1, SharedPrefix
  <2>. HIDE DEF k
  <2>3. k < Len(target) /\ \A j \in 1..k : dir[j] = target[j]
    <3>1. k \in Nat /\ k <= Len(target) - 1 /\ \A j \in 1..k : j \in 1..(Len(target) - 1)
      BY <2>1, <2>2
    <3>2. k < Len(target)
      BY <2>1, <3>1
    <3>3. \A j \in 1..k : dir[j] = target[j]
      BY <2>1, <2>2, <3>1
    <3>. QED BY <3>2, <3>3
  <2>4. raw = [i \in 1..(Len(dir) - k) |-> ".."] \o SubSeq(target, k + 1, Len(target))
    BY DEF RelativeMarkdownPath, k
  <2>. HIDE DEF raw
  <2>5. /\ raw \in Seq(Parts) /\ raw[Len(raw)] \in Names /\ Len(raw) \in Nat \ {0}
        /\ NormalizeResolvedPath(dir \o raw) = target
    <3>. HIDE DEF dir
    <3>. QED BY <2>1, <2>2, <2>3, <2>4, WayThere
  <2>6. /\ new \in Links /\ new.kind = "markdown" /\ new.raw = raw /\ raw # External
        /\ anchor # NoAnchor => new.anchor = anchor
    <3>1. new = [kept EXCEPT !.raw = raw]
      BY <1>4 DEF raw
    <3>. HIDE DEF kept
    <3>. QED BY <1>2, <1>4, <2>5, <3>1
  <2>. QED BY <2>5, <2>6 DEF ParseReferenceTarget
<1>. QED
  <2>1. \/ ref.kind # "markdown" /\ new = [kept EXCEPT !.raw = target]
        \/ ref.kind = "markdown" /\ new = [kept EXCEPT !.raw = RelativeMarkdownPath(source, target)]
    BY DEF ReplaceInternalReference
  <2>. QED BY <1>3, <1>4, <2>1

-----------------------------------------------------------------------------
(* What a reference means.                                                 *)

\* There are finitely many paths, each of which is a target.
LEMMA PathsAreTargets == Paths \subseteq Targets /\ IsFiniteSet(Paths)
<1>1. PathOrder \in Seq(Targets)
  BY NotesAssumption
<1>2. Paths \subseteq Targets
  BY <1>1, RangeOfSeq DEF Paths
<1>3. Len(PathOrder) \in Nat /\ DOMAIN PathOrder = 1..Len(PathOrder)
  BY <1>1, LenProperties
<1>4. PathOrder \in Surjection(1..Len(PathOrder), Paths)
  <2>1. Paths = {PathOrder[i] : i \in 1..Len(PathOrder)}
    BY <1>1, RangeEquality DEF Paths
  <2>2. PathOrder = [i \in 1..Len(PathOrder) |-> PathOrder[i]]
    BY <1>1, LenProperties
  <2>3. PathOrder \in [1..Len(PathOrder) -> Paths]
    BY <2>1, <2>2
  <2>. QED BY <2>1, <2>3 DEF Surjection
<1>5. IsFiniteSet(Paths)
  BY <1>3, <1>4, FS_Interval, FS_Surjection
<1>. QED BY <1>2, <1>5

\* The notes a reference may mean.
Meant(notes, asked) ==
  LET named == {p \in Live(notes) : Last(p) = Last(asked)}
      aliased == {p \in Live(notes) : asked \in notes[p].aliases}
  IN  IF asked \in Live(notes) THEN {asked} ELSE IF named # {} THEN named ELSE aliased

\* A reference is resolved when it means exactly one note.
LEMMA Resolving ==
  ASSUME NEW notes, NEW ref, NEW source,
         NEW asked, asked = ParseReferenceTarget(ref, source),
         NEW to, to = ResolveInternalReference(notes, ref, source)
  PROVE  /\ to.asked = asked
         /\ to.status = "resolved" <=> asked \notin {Nowhere, Outside} /\ \E p : Meant(notes, asked) = {p}
         /\ to.status = "resolved" => Meant(notes, asked) = {to.path}
         /\ to.status # "resolved" => to.path = Nowhere
<1>. DEFINE found == Meant(notes, asked)
            result(status, p) ==
              [asked |-> asked, status |-> status, path |-> p,
               anchored |-> p # Nowhere /\ AnchorExists(notes[p], ref.anchor)]
<1>1. to = IF asked \in {Nowhere, Outside} THEN result("invalid", Nowhere)
           ELSE IF found = {} THEN result("missing", Nowhere)
           ELSE IF Cardinality(found) # 1 THEN result("ambiguous", Nowhere)
           ELSE result("resolved", CHOOSE p \in found : TRUE)
  BY DEF ResolveInternalReference, Meant
<1>2. found # {} /\ Cardinality(found) = 1 <=> \E p : found = {p}
  <2>1. Live(notes) \subseteq Paths
    BY DEF Live
  <2>2. found \subseteq Paths
    BY <2>1 DEF Meant
  <2>3. IsFiniteSet(found)
    <3>. HIDE DEF found
    <3>. QED BY <2>2, PathsAreTargets, FS_Subset
  <2>. HIDE DEF found
  <2>. QED BY <2>3, FS_Singleton
<1>3. \A p : found = {p} => (CHOOSE q \in found : TRUE) = p
  OBVIOUS
<1>4. \A status, p : /\ result(status, p).asked = asked /\ result(status, p).status = status
                    /\ result(status, p).path = p
  OBVIOUS
<1>. HIDE DEF found, result
<1>5. CASE asked \in {Nowhere, Outside}
  <2>1. to = result("invalid", Nowhere)
    BY <1>1, <1>5
  <2>. QED BY <1>4, <1>5, <2>1
<1>6. CASE asked \notin {Nowhere, Outside} /\ ~\E p : found = {p}
  <2>1. to = result("missing", Nowhere) \/ to = result("ambiguous", Nowhere)
    BY <1>1, <1>2, <1>6
  <2>2. to.asked = asked /\ to.status # "resolved" /\ to.path = Nowhere
    BY <1>4, <2>1
  <2>. QED BY <1>6, <2>2 DEF found
<1>7. CASE asked \notin {Nowhere, Outside} /\ \E p : found = {p}
  <2>1. PICK p : found = {p}
    BY <1>7
  <2>2. to = result("resolved", p)
    BY <1>1, <1>2, <1>3, <1>7, <2>1
  <2>3. to.asked = asked /\ to.status = "resolved" /\ to.path = p
    BY <1>4, <2>2
  <2>. QED BY <1>7, <2>1, <2>3 DEF found
<1>. QED BY <1>5, <1>6, <1>7

\* What the resolution says of the anchor.
LEMMA Anchoring ==
  ASSUME NEW notes, NEW ref, NEW source,
         NEW to, to = ResolveInternalReference(notes, ref, source),
         to.path # Nowhere, AnchorExists(notes[to.path], ref.anchor)
  PROVE  to.anchored
BY DEF ResolveInternalReference

\* A reference that asks for a note reaches it.
LEMMA AskedIsReached ==
  ASSUME NEW notes, NEW ref, NEW source,
         NEW asked \in Live(notes), asked = ParseReferenceTarget(ref, source),
         NEW to, to = ResolveInternalReference(notes, ref, source)
  PROVE  /\ to.status = "resolved" /\ to.path = asked
         /\ AnchorExists(notes[asked], ref.anchor) => to.anchored
<1>1. asked \in Targets
  BY PathsAreTargets DEF Live
<1>2. asked \notin {Nowhere, Outside}
  <2>1. asked \in Seq(Names) /\ Len(asked) # 0 /\ asked[Len(asked)] \in Names
    BY <1>1, TargetParts
  <2>2. Len(Nowhere) = 0 /\ Len(Outside) = 1 /\ Outside[1] = ".."
    BY DEF Nowhere, Outside
  <2>. QED BY <2>1, <2>2 DEF Names
<1>3. Meant(notes, asked) = {asked}
  BY DEF Meant
<1>4. to.status = "resolved" /\ to.path = asked
  <2>. HIDE DEF Meant
  <2>. QED BY <1>2, <1>3, Resolving
<1>. QED BY <1>2, <1>4, Anchoring

-----------------------------------------------------------------------------
(* What the notes, the findings and the repairs hold.                      *)

VaultStates == [Paths -> Notes \cup {None}]
RepairTypes == {"broken-reference", "reference-normalization"}
Anchors == Headings \cup {NoAnchor}

\* What a finding, an intended repair and an operation hold.
FindingOK(f) == f.path \in Paths /\ (f.type \in RepairTypes => f.text \in Links)
IntentOK(i) == i.path \in Paths /\ i.text \in Links /\ i.target \in Targets /\ i.anchor \in Anchors
OperationOK(op) ==
  op.path \in Paths /\ IF op.slot = 0 THEN op.with \subseteq Seq(STRING) ELSE op.with \in Links

\* The type invariant: whatever is renamed, edited and repaired, the files stay
\* notes, and only findings that cite a reference become repairs.
ReferenceTypeOK ==
  /\ disk \in VaultStates /\ changes \in Nat
  /\ scan # None => DOMAIN scan = ScanFields /\ (scan.notes # None => scan.notes \in VaultStates)
  /\ snap # None => {snap.notes, snap.before} \subseteq VaultStates
  /\ findings # {} => snap # None
  /\ \A f \in findings : FindingOK(f)
  /\ intent # None => IntentOK(intent)
  /\ proposal # None => \A op \in proposal.ops : OperationOK(op)

\* The findings hold what the events of the snapshot's scan touched.
ImpactKept ==
  snap # None => BuildChangeAwareFindings(snap.events, snap.before, snap.notes) \subseteq findings

\* The operations of a reference repair replace the line they were found at
\* by what reaches the target.
RepairOperations ==
  (proposal # None /\ proposal.kind = "reference") =>
    /\ proposal.anchor \in Anchors
    /\ \A op \in proposal.ops :
         /\ op.slot \in DOMAIN op.rev.body
         /\ op.with \in ReplaceInternalReference(op.rev.body[op.slot], op.path, proposal.target, proposal.anchor)

\* A consolidation that was not cut holds all its operations.
ConsolidationOperations ==
  (proposal # None /\ proposal.kind # "reference") =>
    /\ proposal.seen \in VaultStates /\ proposal.target # proposal.duplicate
    /\ {proposal.target, proposal.duplicate} \subseteq Live(proposal.seen)
    /\ ~proposal.cut =>
         proposal.ops = ReferenceOperations(proposal.seen, proposal.target, proposal.duplicate)
                        \cup TransferExclusiveAliases(proposal.seen, proposal.target, proposal.duplicate)

RepairInvariant == ReferenceTypeOK /\ ImpactKept /\ RepairOperations /\ ConsolidationOperations

-----------------------------------------------------------------------------
(* The steps keep what they hold.                                          *)

\* A note is not the absence of one, and stays a note when it is edited.
LEMMA EditedNote ==
  ASSUME NEW n \in Notes
  PROVE  /\ n # None
         /\ \A id \in Nat : [n EXCEPT !.id = id] \in Notes
         /\ \A b \in Seq(Links) : [n EXCEPT !.body = b] \in Notes
         /\ [n EXCEPT !.superseded = TRUE, !.header = TRUE] \in Notes
<1>1. n # None
  BY DEF Notes, None
<1>. QED BY <1>1 DEF Notes

\* A slot is a line of a note, with the reference it holds.
LEMMA SlotOfNote ==
  ASSUME NEW notes \in VaultStates, NEW s \in Slots(notes)
  PROVE  /\ s = <<s[1], s[2]>> /\ s[1] \in Live(notes) /\ s[1] \in Paths /\ notes[s[1]] \in Notes
         /\ s[2] \in DOMAIN notes[s[1]].body /\ s[2] # 0
         /\ Ref(notes, s) \in Links
<1>1. PICK p \in Live(notes) : s \in {p} \X DOMAIN notes[p].body
  BY DEF Slots
<1>2. p \in Paths /\ notes[p] \in Notes
  BY DEF Live, VaultStates
<1>3. s = <<s[1], s[2]>> /\ s[1] = p /\ s[2] \in DOMAIN notes[p].body
  BY <1>1
<1>4. notes[p].body \in Seq(Links)
  BY <1>2 DEF Notes
<1>5. s[2] \in 1..Len(notes[p].body) /\ Len(notes[p].body) \in Nat
  BY <1>3, <1>4, LenProperties
<1>6. notes[p].body[s[2]] \in Links
  BY <1>4, <1>5, ElementOfSeq
<1>. QED BY <1>2, <1>3, <1>5, <1>6 DEF Ref

\* A finding that cites a slot is as it should be.
LEMMA FindingOfSlot ==
  ASSUME NEW notes \in VaultStates, NEW s \in Slots(notes), NEW type, NEW why
  PROVE  FindingOK(Finding(type, notes, s, why))
BY SlotOfNote DEF FindingOK, Finding

\* A finding about what depends on a path is no repair.
LEMMA FindingOfImpact ==
  ASSUME NEW notes \in VaultStates, NEW change, NEW target, NEW f \in ImpactFindings(change, target, notes)
  PROVE  FindingOK(f)
<1>. DEFINE impact == AnalyzeChangeImpact(target, notes)
<1>1. impact.inbound \subseteq Slots(notes)
      /\ impact.dependents \subseteq Live(notes) \X {"task", "decision", "policy"}
  BY DEF AnalyzeChangeImpact
<1>2. CASE f \in {Finding("staleness", notes, s, change) : s \in impact.inbound}
  BY <1>1, <1>2, FindingOfSlot
<1>3. CASE f \in {[type |-> "staleness", path |-> d[1], line |-> 0, text |-> d[2], why |-> change] :
                    d \in impact.dependents}
  <2>1. PICK d \in Live(notes) \X {"task", "decision", "policy"} :
          f = [type |-> "staleness", path |-> d[1], line |-> 0, text |-> d[2], why |-> change]
    BY <1>1, <1>3
  <2>2. d[1] \in Paths
    BY DEF Live
  <2>. QED BY <2>1, <2>2 DEF FindingOK, RepairTypes
<1>. QED BY <1>2, <1>3 DEF ImpactFindings

\* What a completed scan finds.
LEMMA FindingsOfScan ==
  ASSUME NEW notes \in VaultStates, NEW before \in VaultStates, NEW events,
         NEW f \in CheckReferenceIntegrity(notes)
                     \cup BuildContextualNormalizationFindings(notes, RecentRenames(events))
                     \cup BuildChangeAwareFindings(events, before, notes)
  PROVE  FindingOK(f)
<1>1. CASE f \in CheckReferenceIntegrity(notes)
  <2>1. \E s \in Slots(notes) : \E type, why : f = Finding(type, notes, s, why)
    BY <1>1, Zenon DEF CheckReferenceIntegrity
  <2>. QED BY <2>1, FindingOfSlot
<1>2. CASE f \in BuildContextualNormalizationFindings(notes, RecentRenames(events))
  <2>1. \E s \in Slots(notes) : \E type, why : f = Finding(type, notes, s, why)
    BY <1>2, Zenon DEF BuildContextualNormalizationFindings
  <2>. QED BY <2>1, FindingOfSlot
<1>3. CASE f \in BuildChangeAwareFindings(events, before, notes)
  <2>1. PICK e \in events :
          f \in CASE e.kind = "rename" -> ImpactFindings("renamed", e.old, before)
                  [] e.kind = "delete" -> ImpactFindings("deleted", e.path, before)
                  [] e.kind = "modify" -> SupersededDecisionFindings(e.path, before, notes)
                  [] OTHER -> {}
    BY <1>3 DEF BuildChangeAwareFindings
  <2>2. CASE \E change, target : f \in ImpactFindings(change, target, before)
    BY <2>2, FindingOfImpact
  <2>3. CASE f \in SupersededDecisionFindings(e.path, before, notes)
    <3>1. \E s \in Slots(notes) : f = Finding("staleness", notes, s, "superseded")
      BY <2>3 DEF SupersededDecisionFindings
    <3>. QED BY <3>1, FindingOfSlot
  <2>. QED BY <2>1, <2>2, <2>3
<1>. QED BY <1>1, <1>2, <1>3

\* A candidate is a note, with an anchor or none.
LEMMA CandidateOK ==
  ASSUME NEW notes \in VaultStates, NEW f, NEW renames,
         NEW c \in BuildReferenceRepairCandidates(f, notes, renames)
  PROVE  c.path \in Paths /\ c.anchor \in Anchors /\ f.type \in RepairTypes
<1>. DEFINE slot == <<f.path, f.line>>
            to == Resolve(notes, slot)
<1>1. /\ f.type \in RepairTypes
      /\ \/ to.status = "resolved" /\ c \in BuildAnchorCandidates(notes[to.path], to.path, f.text.anchor)
         \/ to.status = "resolved" /\ c = Candidate("canonical", to.path, NoAnchor, 0, 0)
         \/ c \in BuildPathCandidates(notes, f.path, to.asked, renames)
  BY DEF BuildReferenceRepairCandidates, Foremost, RepairTypes
<1>2. to.status = "resolved" => to.path \in Live(notes)
  <2>1. to.status = "resolved" => Meant(notes, ParseReferenceTarget(Ref(notes, slot), f.path)) = {to.path}
    BY Resolving DEF Resolve
  <2>2. Meant(notes, ParseReferenceTarget(Ref(notes, slot), f.path)) \subseteq Live(notes)
    BY DEF Meant
  <2>. QED BY <2>1, <2>2
<1>. HIDE DEF to
<1>3. NoAnchor \in Anchors /\ Live(notes) \subseteq Paths
  BY DEF Anchors, Live
<1>4. CASE to.status = "resolved" /\ c \in BuildAnchorCandidates(notes[to.path], to.path, f.text.anchor)
  <2>1. \E a \in Range(notes[to.path].anchors) : \E score : c = Candidate("anchor", to.path, a, 0, score)
    BY <1>4, Zenon DEF BuildAnchorCandidates
  <2>2. notes[to.path].anchors \in Seq(Headings)
    BY <1>2, <1>4 DEF Live, VaultStates, Notes
  <2>3. Range(notes[to.path].anchors) \subseteq Anchors
    BY <2>2, RangeOfSeq DEF Anchors
  <2>. QED BY <1>1, <1>2, <1>3, <1>4, <2>1, <2>3, CandidateFields
<1>5. CASE to.status = "resolved" /\ c = Candidate("canonical", to.path, NoAnchor, 0, 0)
  BY <1>1, <1>2, <1>3, <1>5, CandidateFields
<1>6. CASE c \in BuildPathCandidates(notes, f.path, to.asked, renames)
  <2>1. \E p \in Live(notes) : \E source, priority, score : c = Candidate(source, p, NoAnchor, priority, score)
    BY <1>6, Zenon DEF BuildPathCandidates
  <2>. QED BY <1>1, <1>3, <2>1, CandidateFields
<1>. QED BY <1>1, <1>4, <1>5, <1>6

\* What an operation writes is of the kind of what it replaces.
LEMMA AfterWritingOK ==
  ASSUME NEW ops, NEW p, NEW slot, NEW text, \A op \in ops : OperationOK(op),
         IF slot = 0 THEN text \subseteq Seq(STRING) ELSE text \in Links
  PROVE  IF slot = 0 THEN AfterWriting(ops, p, slot, text) \subseteq Seq(STRING)
         ELSE AfterWriting(ops, p, slot, text) \in Links
<1>1. CASE \E op \in ops : op.path = p /\ op.slot = slot
  <2>1. PICK op \in ops : op.path = p /\ op.slot = slot /\ AfterWriting(ops, p, slot, text) = op.with
    BY <1>1 DEF AfterWriting
  <2>. QED BY <2>1 DEF OperationOK
<1>2. CASE ~\E op \in ops : op.path = p /\ op.slot = slot
  BY <1>2 DEF AfterWriting
<1>. QED BY <1>1, <1>2

\* A note whose lines and aliases are replaced.
LEMMA WrittenNote ==
  ASSUME NEW notes \in VaultStates, NEW ops, \A op \in ops : OperationOK(op), NEW p \in Live(notes)
  PROVE  /\ p \in Paths /\ notes[p] \in Notes /\ Written(notes, ops)[p] \in Notes
         /\ Written(notes, ops)[p].anchors = notes[p].anchors
         /\ Written(notes, ops)[p].aliases = AfterWriting(ops, p, 0, notes[p].aliases)
         /\ DOMAIN Written(notes, ops)[p].body = DOMAIN notes[p].body
         /\ \A l \in DOMAIN notes[p].body :
              Written(notes, ops)[p].body[l] = AfterWriting(ops, p, l, notes[p].body[l])
<1>. DEFINE n == notes[p]
            aliases == AfterWriting(ops, p, 0, n.aliases)
            body == [l \in DOMAIN n.body |-> AfterWriting(ops, p, l, n.body[l])]
<1>1. p \in Paths /\ n \in Notes /\ n # None
  BY DEF Live, VaultStates
<1>2. Written(notes, ops)[p] = [n EXCEPT !.aliases = aliases, !.body = body]
  BY <1>1 DEF Written
<1>3. n.body \in Seq(Links) /\ n.aliases \subseteq Seq(STRING)
  BY <1>1 DEF Notes
<1>4. DOMAIN n.body = 1..Len(n.body) /\ Len(n.body) \in Nat /\ \A l \in DOMAIN n.body : n.body[l] \in Links
  BY <1>3, LenProperties, ElementOfSeq
<1>5. aliases \subseteq Seq(STRING)
  BY <1>3, AfterWritingOK
<1>6. body \in Seq(Links)
  <2>1. \A l \in DOMAIN n.body : body[l] \in Links
    BY <1>4, AfterWritingOK
  <2>2. body = [l \in 1..Len(n.body) |-> body[l]]
    BY <1>4
  <2>. HIDE DEF body
  <2>3. body \in [1..Len(n.body) -> Links]
    BY <1>4, <2>1, <2>2
  <2>. QED BY <1>4, <2>3, SeqDef
<1>7. \A l \in DOMAIN n.body : body[l] = AfterWriting(ops, p, l, n.body[l])
  OBVIOUS
<1>8. DOMAIN body = DOMAIN n.body
  OBVIOUS
<1>. HIDE DEF aliases, body
<1>9. [n EXCEPT !.aliases = aliases, !.body = body] \in Notes
  BY <1>1, <1>5, <1>6 DEF Notes
<1>10. /\ Written(notes, ops)[p].anchors = n.anchors /\ Written(notes, ops)[p].aliases = aliases
       /\ Written(notes, ops)[p].body = body
  BY <1>1, <1>2 DEF Notes
<1>. QED BY <1>1, <1>2, <1>7, <1>8, <1>9, <1>10 DEF aliases

\* Writing puts a note where one was and nowhere else.
LEMMA WrittenVault ==
  ASSUME NEW notes \in VaultStates, NEW ops, \A op \in ops : OperationOK(op)
  PROVE  Written(notes, ops) \in VaultStates /\ Live(Written(notes, ops)) = Live(notes)
<1>1. \A p \in Paths \ Live(notes) : Written(notes, ops)[p] = None
  BY DEF Written, Live
<1>2. \A p \in Live(notes) : Written(notes, ops)[p] \in Notes /\ Written(notes, ops)[p] # None
  BY WrittenNote, EditedNote
<1>3. \A p \in Paths : Written(notes, ops)[p] \in Notes \cup {None}
  BY <1>1, <1>2
<1>4. Written(notes, ops) = [p \in Paths |-> Written(notes, ops)[p]]
  BY DEF Written
<1>. QED BY <1>1, <1>2, <1>3, <1>4 DEF VaultStates, Live

\* What a repair writes.
LEMMA RepairOperation ==
  ASSUME NEW note \in Notes, NEW i, IntentOK(i), NEW op \in ProposeReferenceRepair(note, i)
  PROVE  /\ OperationOK(op)
         /\ op.slot \in DOMAIN op.rev.body
         /\ op.with \in ReplaceInternalReference(op.rev.body[op.slot], op.path, i.target, i.anchor)
<1>1. PICK s \in ExactEvidenceSlots(note, i.line, i.text) :
        \E new \in ReplaceInternalReference(i.text, i.path, i.target, i.anchor) :
          op = Operation(0, note, i.path, s, i.text, new)
  BY DEF ProposeReferenceRepair
<1>2. PICK new \in ReplaceInternalReference(i.text, i.path, i.target, i.anchor) :
        op = Operation(0, note, i.path, s, i.text, new)
  BY <1>1
<1>3. op.path = i.path /\ op.rev = Rev(note) /\ op.slot = s /\ op.with = new
  BY <1>2 DEF Operation
<1>4. s \in DOMAIN note.body /\ note.body[s] = i.text
  BY DEF ExactEvidenceSlots
<1>5. Rev(note).body = note.body
  BY DEF Rev, Notes
<1>6. note.body \in Seq(Links)
  BY DEF Notes
<1>7. s \in 1..Len(note.body) /\ Len(note.body) \in Nat
  BY <1>4, <1>6, LenProperties
<1>8. s # 0
  BY <1>7
<1>9. i.path \in Targets /\ i.target \in Targets /\ i.text \in Links /\ i.anchor \in Headings \cup {NoAnchor}
      /\ i.path \in Paths
  BY PathsAreTargets DEF IntentOK, Anchors
<1>10. new \in Links
  BY <1>9, ReplacedReaches
<1>. QED BY <1>3, <1>4, <1>5, <1>8, <1>9, <1>10 DEF OperationOK

\* What a consolidation does to the references of other notes.
LEMMA ReferenceOperation ==
  ASSUME NEW notes \in VaultStates, NEW c \in Live(notes), NEW d, NEW op \in ReferenceOperations(notes, c, d)
  PROVE  \E s \in Slots(notes) :
           /\ s[1] \notin {c, d} /\ Resolve(notes, s).path = d
           /\ op.path = s[1] /\ op.slot = s[2] /\ op.rev = Rev(notes[s[1]]) /\ op.slot # 0
           /\ op.with \in ReplaceInternalReference(Ref(notes, s), s[1], c, NoAnchor)
           /\ op.with \in Links /\ ParseReferenceTarget(op.with, s[1]) = c
<1>1. PICK s \in {t \in Slots(notes) : t[1] \notin {c, d} /\ Resolve(notes, t).path = d} :
        \E new \in ReplaceInternalReference(Ref(notes, s), s[1], c, NoAnchor) \ {Ref(notes, s)} :
          op = Operation(0, notes[s[1]], s[1], s[2], Ref(notes, s), new)
  BY DEF ReferenceOperations
<1>2. PICK new \in ReplaceInternalReference(Ref(notes, s), s[1], c, NoAnchor) :
        op = Operation(0, notes[s[1]], s[1], s[2], Ref(notes, s), new)
  BY <1>1
<1>3. op.path = s[1] /\ op.slot = s[2] /\ op.rev = Rev(notes[s[1]]) /\ op.with = new
  BY <1>2 DEF Operation
<1>4. s \in Slots(notes) /\ Ref(notes, s) \in Links /\ s[1] \in Targets /\ c \in Targets /\ s[2] # 0
  BY SlotOfNote, PathsAreTargets DEF Live
<1>5. new \in Links /\ ParseReferenceTarget(new, s[1]) = c
  BY <1>4, ReplacedReaches
<1>. QED BY <1>3, <1>4, <1>5

\* What a consolidation does to the aliases of the two notes.
LEMMA AliasesMoved ==
  ASSUME NEW notes, NEW c, NEW d, NEW op \in TransferExclusiveAliases(notes, c, d)
  PROVE  LET moved == notes[d].aliases \ UNION {notes[p].aliases : p \in Live(notes) \ {d}}
         IN  /\ op.slot = 0
             /\ \/ op.path = c /\ op.rev = Rev(notes[c]) /\ op.with = notes[c].aliases \cup moved
                \/ op.path = d /\ op.rev = Rev(notes[d]) /\ op.with = notes[d].aliases \ moved
BY DEF TransferExclusiveAliases, AliasOperation, Operation

\* Every operation of a consolidation is as it should be.
LEMMA ConsolidationOperation ==
  ASSUME NEW notes \in VaultStates, NEW c \in Live(notes), NEW d \in Live(notes),
         NEW op \in ReferenceOperations(notes, c, d) \cup TransferExclusiveAliases(notes, c, d)
  PROVE  OperationOK(op)
<1>1. CASE op \in ReferenceOperations(notes, c, d)
  <2>1. PICK s \in Slots(notes) : op.path = s[1] /\ op.slot # 0 /\ op.with \in Links
    BY <1>1, ReferenceOperation
  <2>. QED BY <2>1, SlotOfNote DEF OperationOK
<1>2. CASE op \in TransferExclusiveAliases(notes, c, d)
  <2>1. c \in Paths /\ d \in Paths /\ notes[c].aliases \subseteq Seq(STRING) /\ notes[d].aliases \subseteq Seq(STRING)
    BY DEF Live, VaultStates, Notes
  <2>. QED BY <1>2, <2>1, AliasesMoved DEF OperationOK
<1>. QED BY <1>1, <1>2

-----------------------------------------------------------------------------
(* The invariant of the repairs.                                           *)

\* Nothing is scanned or repaired at the start.
LEMMA InitRepairs == Init => RepairInvariant
<1>. SUFFICES ASSUME Init PROVE RepairInvariant
  OBVIOUS
<1>1. disk \in VaultStates
  BY NotesAssumption DEF Init, VaultStates
<1>2. changes = 0 /\ scan = None /\ snap = None /\ findings = {} /\ intent = None /\ proposal = None
  BY DEF Init
<1>3. ReferenceTypeOK
  BY <1>1, <1>2 DEF ReferenceTypeOK
<1>. QED BY <1>2, <1>3 DEF RepairInvariant, ImpactKept, RepairOperations, ConsolidationOperations

\* Whatever the user changes, the files stay notes.
LEMMA UserRepairs ==
  ASSUME RepairInvariant, NEW p \in Paths, NEW q \in Paths,
         Rename(p, q) \/ Delete(p) \/ Create(p) \/ Edit(p) \/ Supersede(p)
  PROVE  RepairInvariant'
<1>1. disk \in [Paths -> Notes \cup {None}] /\ changes \in Nat
  BY DEF RepairInvariant, ReferenceTypeOK, VaultStates
<1>2. disk[p] # None => disk[p] \in Notes
  BY <1>1
<1>3. ASSUME NEW new, NEW v, Changed(new, v)
      PROVE  disk' = new /\ changes' = changes + 1 /\ UNCHANGED <<scan, snap, findings, intent, proposal>>
  BY <1>3 DEF Changed
<1>4. \E new : /\ new \in VaultStates /\ disk' = new
               /\ changes' = changes + 1 /\ UNCHANGED <<scan, snap, findings, intent, proposal>>
  <2>1. CASE Rename(p, q)
    <3>1. [disk EXCEPT ![p] = None, ![q] = disk[p]] \in VaultStates
      BY <1>1 DEF VaultStates
    <3>. QED BY <1>3, <2>1, <3>1 DEF Rename
  <2>2. CASE Delete(p)
    <3>1. [disk EXCEPT ![p] = None] \in VaultStates
      BY <1>1 DEF VaultStates
    <3>. QED BY <1>3, <2>2, <3>1 DEF Delete
  <2>3. CASE Create(p)
    <3>1. PICK n \in NewNotes : Changed([disk EXCEPT ![p] = [n EXCEPT !.id = 100 + changes]],
                                        Event("create", p, Nowhere))
      BY <2>3 DEF Create
    <3>2. n \in Notes /\ 100 + changes \in Nat
      BY <1>1, NotesAssumption
    <3>3. [n EXCEPT !.id = 100 + changes] \in Notes
      BY <3>2, EditedNote
    <3>4. [disk EXCEPT ![p] = [n EXCEPT !.id = 100 + changes]] \in VaultStates
      BY <1>1, <3>3 DEF VaultStates
    <3>. QED BY <1>3, <3>1, <3>4
  <2>4. CASE Edit(p)
    <3>1. PICK b \in Bodies :
            disk[p] # None /\ Changed([disk EXCEPT ![p].body = b], Event("modify", p, Nowhere))
      BY <2>4 DEF Edit
    <3>2. [disk[p] EXCEPT !.body = b] \in Notes
      BY <1>2, <3>1, NotesAssumption, EditedNote
    <3>3. [disk EXCEPT ![p].body = b] \in VaultStates
      BY <1>1, <3>2 DEF VaultStates
    <3>. QED BY <1>3, <3>1, <3>3
  <2>5. CASE Supersede(p)
    <3>1. disk[p] # None /\ Changed([disk EXCEPT ![p].superseded = TRUE, ![p].header = TRUE],
                                    Event("modify", p, Nowhere))
      BY <2>5 DEF Supersede
    <3>2. [disk[p] EXCEPT !.superseded = TRUE, !.header = TRUE] \in Notes
      BY <1>2, <3>1, EditedNote
    <3>3. [disk EXCEPT ![p].superseded = TRUE, ![p].header = TRUE]
            = [disk EXCEPT ![p] = [disk[p] EXCEPT !.superseded = TRUE, !.header = TRUE]]
      BY <1>1
    <3>4. [disk EXCEPT ![p].superseded = TRUE, ![p].header = TRUE] \in VaultStates
      BY <1>1, <3>2, <3>3 DEF VaultStates
    <3>. QED BY <1>3, <3>1, <3>4
  <2>. QED BY <2>1, <2>2, <2>3, <2>4, <2>5
<1>5. disk' \in VaultStates /\ changes' \in Nat /\ UNCHANGED <<scan, snap, findings, intent, proposal>>
  BY <1>1, <1>4
<1>. QED BY <1>5 DEF RepairInvariant, ReferenceTypeOK, ImpactKept, RepairOperations, ConsolidationOperations

\* A scan lists notes, and what it finds is kept with the notes it was found in.
LEMMA ScanRepairs ==
  ASSUME RepairInvariant, StartScan \/ ListFiles \/ FailScan \/ CompleteScan
  PROVE  RepairInvariant'
<1>1. CASE UNCHANGED <<disk, changes, snap, findings, intent, proposal>>
           /\ (scan' # None => DOMAIN scan' = ScanFields /\ (scan'.notes # None => scan'.notes \in VaultStates))
  BY <1>1 DEF RepairInvariant, ReferenceTypeOK, ImpactKept, RepairOperations, ConsolidationOperations
<1>2. CASE StartScan
  BY <1>1, <1>2 DEF StartScan, ScanFields
<1>3. CASE ListFiles
  <2>1. /\ scan # None /\ UNCHANGED <<disk, changes, snap, findings, intent, proposal>>
        /\ scan' = [scan EXCEPT !.notes = disk, !.tenant = tenant, !.waiting = queue]
    BY <1>3 DEF ListFiles
  <2>2. disk \in VaultStates /\ DOMAIN scan = ScanFields
    BY <2>1 DEF RepairInvariant, ReferenceTypeOK
  <2>3. DOMAIN scan' = ScanFields /\ scan'.notes = disk
    BY <2>1, <2>2 DEF ScanFields
  <2>. QED BY <1>1, <2>1, <2>2, <2>3
<1>4. CASE FailScan
  BY <1>1, <1>4 DEF FailScan
<1>5. CASE CompleteScan
  <2>. DEFINE before == IF snap = None THEN [p \in Paths |-> None] ELSE snap.notes
  <2>1. /\ scan # None /\ scan.notes # None /\ scan' = None /\ UNCHANGED <<disk, changes, intent, proposal>>
        /\ snap' = [events |-> scan.events, notes |-> scan.notes, tenant |-> scan.tenant,
                    waiting |-> scan.waiting, before |-> before]
        /\ findings' = CheckReferenceIntegrity(scan.notes)
                         \cup BuildContextualNormalizationFindings(scan.notes, RecentRenames(scan.events))
                         \cup BuildChangeAwareFindings(scan.events, before, scan.notes)
    BY <1>5 DEF CompleteScan
  <2>2. scan.notes \in VaultStates /\ before \in VaultStates
    BY <2>1 DEF RepairInvariant, ReferenceTypeOK, VaultStates
  <2>3. snap'.events = scan.events /\ snap'.notes = scan.notes /\ snap'.before = before /\ snap' # None
    <3>1. "events" \in DOMAIN snap' /\ "events" \notin DOMAIN None
      BY <2>1 DEF None
    <3>. QED BY <2>1, <3>1
  <2>. HIDE DEF before
  <2>4. \A f \in findings' : FindingOK(f)
    BY <2>1, <2>2, FindingsOfScan
  <2>5. ReferenceTypeOK'
    BY <2>1, <2>2, <2>3, <2>4 DEF RepairInvariant, ReferenceTypeOK
  <2>6. ImpactKept'
    BY <2>1, <2>3 DEF ImpactKept
  <2>. QED BY <2>1, <2>5, <2>6 DEF RepairInvariant, RepairOperations, ConsolidationOperations
<1>. QED BY <1>2, <1>3, <1>4, <1>5

\* What is recommended or typed is a note or may become one.
LEMMA IntentRepairs ==
  ASSUME RepairInvariant, NEW f \in findings, Recommend(f) \/ ChooseTarget(f)
  PROVE  RepairInvariant'
<1>1. snap # None /\ snap.notes \in VaultStates /\ FindingOK(f)
  BY DEF RepairInvariant, ReferenceTypeOK
<1>2. ASSUME NEW target, NEW anchor, NEW provenance, Intend(f, target, anchor, provenance),
             f.type \in RepairTypes, target \in Paths \cup Typed, anchor \in Anchors
      PROVE  RepairInvariant'
  <2>1. /\ intent' = [path |-> f.path, line |-> f.line, text |-> f.text, target |-> target,
                      anchor |-> anchor, provenance |-> provenance]
        /\ UNCHANGED <<disk, changes, scan, snap, findings, proposal>>
    BY <1>2 DEF Intend
  <2>2. target \in Targets
    BY <1>2, PathsAreTargets, NotesAssumption
  <2>3. IntentOK(intent')
    BY <1>1, <1>2, <2>1, <2>2 DEF IntentOK, FindingOK
  <2>. QED BY <2>1, <2>3 DEF RepairInvariant, ReferenceTypeOK, ImpactKept, RepairOperations, ConsolidationOperations
<1>3. CASE Recommend(f)
  <2>. DEFINE all == BuildReferenceRepairCandidates(f, snap.notes, RecentRenames(snap.events))
  <2>1. PICK r \in RecommendReferenceRepair(all) : Intend(f, r[1].path, r[1].anchor, r[2])
    BY <1>3 DEF Recommend
  <2>. HIDE DEF all
  <2>2. r[1] \in all
    <3>1. \E c \in all : \E why : r = <<c, why>>
      BY Zenon DEF RecommendReferenceRepair
    <3>. QED BY <3>1
  <2>3. r[1].path \in Paths /\ r[1].anchor \in Anchors /\ f.type \in RepairTypes
    BY <1>1, <2>2, CandidateOK DEF all
  <2>. QED BY <1>2, <2>1, <2>3
<1>4. CASE ChooseTarget(f)
  BY <1>2, <1>4 DEF ChooseTarget, RepairTypes, Anchors
<1>. QED BY <1>3, <1>4

\* A repair is stored with the operations it stands for.
LEMMA ProposeRepairs == ASSUME RepairInvariant, Propose PROVE RepairInvariant'
<1>. DEFINE ops == IF disk[intent.path] = None THEN {} ELSE ProposeReferenceRepair(disk[intent.path], intent)
<1>1. /\ proposal' = IF ops = {} THEN proposal
                     ELSE [kind |-> "reference", ops |-> ops, target |-> intent.target,
                           anchor |-> intent.anchor, duplicate |-> Nowhere, cut |-> FALSE, seen |-> snap.notes]
      /\ intent # None /\ intent' = None /\ UNCHANGED <<disk, changes, scan, snap, findings>>
  BY DEF Propose
<1>2. IntentOK(intent) /\ disk \in VaultStates
  BY <1>1 DEF RepairInvariant, ReferenceTypeOK
<1>3. ASSUME NEW op \in ops
      PROVE  /\ OperationOK(op) /\ op.slot \in DOMAIN op.rev.body
             /\ op.with \in ReplaceInternalReference(op.rev.body[op.slot], op.path, intent.target, intent.anchor)
  <2>1. disk[intent.path] \in Notes /\ op \in ProposeReferenceRepair(disk[intent.path], intent)
    BY <1>2 DEF IntentOK, VaultStates
  <2>. QED BY <1>2, <2>1, RepairOperation
<1>. HIDE DEF ops
<1>4. CASE proposal' = proposal
  BY <1>1, <1>4 DEF RepairInvariant, ReferenceTypeOK, ImpactKept, RepairOperations, ConsolidationOperations
<1>5. CASE proposal' = [kind |-> "reference", ops |-> ops, target |-> intent.target,
                        anchor |-> intent.anchor, duplicate |-> Nowhere, cut |-> FALSE, seen |-> snap.notes]
  <2>1. proposal'.kind = "reference" /\ proposal'.ops = ops /\ proposal'.target = intent.target
        /\ proposal'.anchor = intent.anchor
    BY <1>5
  <2>2. ReferenceTypeOK'
    BY <1>1, <1>3, <2>1 DEF RepairInvariant, ReferenceTypeOK
  <2>3. RepairOperations'
    BY <1>1, <1>2, <1>3, <2>1 DEF RepairOperations, IntentOK
  <2>. QED BY <1>1, <2>1, <2>2, <2>3 DEF RepairInvariant, ImpactKept, ConsolidationOperations
<1>. QED BY <1>1, <1>4, <1>5

\* So is a consolidation, when it was not cut.
LEMMA ConsolidateRepairs ==
  ASSUME RepairInvariant, NEW c \in Paths, NEW d \in Paths, Consolidate(c, d)
  PROVE  RepairInvariant'
<1>. DEFINE all == ReferenceOperations(snap.notes, c, d) \cup TransferExclusiveAliases(snap.notes, c, d)
<1>1. /\ snap # None /\ c # d /\ {c, d} \subseteq Live(snap.notes)
      /\ proposal' = [kind |-> "entity", ops |-> Foremost(all, MaxOperations), target |-> c,
                      anchor |-> NoAnchor, duplicate |-> d,
                      cut |-> Foremost(all, MaxOperations) # all, seen |-> snap.notes]
      /\ UNCHANGED <<disk, changes, scan, snap, findings, intent>>
  BY DEF Consolidate
<1>2. snap.notes \in VaultStates
  BY <1>1 DEF RepairInvariant, ReferenceTypeOK
<1>3. \A op \in all : OperationOK(op)
  BY <1>1, <1>2, ConsolidationOperation
<1>. HIDE DEF all
<1>4. Foremost(all, MaxOperations) \subseteq all
  BY DEF Foremost
<1>5. /\ proposal'.kind = "entity" /\ proposal'.ops = Foremost(all, MaxOperations)
      /\ proposal'.target = c /\ proposal'.duplicate = d /\ proposal'.seen = snap.notes
      /\ ~proposal'.cut => proposal'.ops = all
  BY <1>1
<1>6. ReferenceTypeOK'
  BY <1>1, <1>3, <1>4, <1>5 DEF RepairInvariant, ReferenceTypeOK
<1>7. ConsolidationOperations'
  BY <1>1, <1>2, <1>5 DEF ConsolidationOperations, all
<1>. QED BY <1>1, <1>5, <1>6, <1>7 DEF RepairInvariant, ImpactKept, RepairOperations

\* What is applied leaves notes.
LEMMA ApplyRepairs == ASSUME RepairInvariant, Apply PROVE RepairInvariant'
<1>1. proposal # None /\ proposal' = None /\ UNCHANGED <<scan, snap, findings, intent, changes>>
      /\ (disk' = disk \/ disk' = Written(disk, proposal.ops))
  BY DEF Apply
<1>2. disk \in VaultStates /\ \A op \in proposal.ops : OperationOK(op)
  BY <1>1 DEF RepairInvariant, ReferenceTypeOK
<1>3. disk' \in VaultStates
  BY <1>1, <1>2, WrittenVault
<1>. QED BY <1>1, <1>3 DEF RepairInvariant, ReferenceTypeOK, ImpactKept, RepairOperations, ConsolidationOperations

\* Every step keeps the invariant.
LEMMA RepairStep == RepairInvariant /\ [Next]_vars => RepairInvariant'
<1>. SUFFICES ASSUME RepairInvariant, [Next]_vars PROVE RepairInvariant'
  OBVIOUS
<1>1. ASSUME NEW p \in Paths, Delete(p) \/ Create(p) \/ Edit(p) \/ Supersede(p) PROVE RepairInvariant'
  BY <1>1, UserRepairs
<1>2. ASSUME NEW p \in Paths, NEW q \in Paths, Rename(p, q) PROVE RepairInvariant'
  BY <1>2, UserRepairs
<1>3. ASSUME NEW p \in Paths, NEW q \in Paths, Consolidate(p, q) PROVE RepairInvariant'
  BY <1>3, ConsolidateRepairs
<1>4. CASE StartScan \/ ListFiles \/ FailScan \/ CompleteScan
  BY <1>4, ScanRepairs
<1>5. ASSUME NEW f \in findings, Recommend(f) \/ ChooseTarget(f) PROVE RepairInvariant'
  BY <1>5, IntentRepairs
<1>6. CASE Propose
  BY <1>6, ProposeRepairs
<1>7. CASE Apply
  BY <1>7, ApplyRepairs
<1>8. CASE UNCHANGED vars
  BY <1>8 DEF vars, RepairInvariant, ReferenceTypeOK, ImpactKept, RepairOperations, ConsolidationOperations
<1>. QED BY <1>1, <1>2, <1>3, <1>4, <1>5, <1>6, <1>7, <1>8 DEF Next

\* The type invariant, for any vaults, edits and names: whatever is renamed,
\* edited and repaired, every file stays a note, every finding that can be
\* repaired cites a reference, and what a repair writes is again a reference
\* or a set of aliases.
THEOREM ReferenceTypeCorrect == Spec => []ReferenceTypeOK
<1>1. RepairInvariant => ReferenceTypeOK
  BY DEF RepairInvariant
<1>. QED BY <1>1, InitRepairs, RepairStep, PTL DEF Spec

-----------------------------------------------------------------------------
(* What a rename or a deletion touches is reported.                        *)

\* A reference that asks for a path and does not climb by name is found by the
\* impact analysis of that path.
LEMMA ImpactReadsPaths ==
  ASSUME NEW ref \in Links, NEW source, ref.kind = "wiki" => ".." \notin Range(ref.raw),
         ParseReferenceTarget(ref, source) \notin {Nowhere, Outside}
  PROVE  ReferenceTargetForImpact(ref, source) = ParseReferenceTarget(ref, source)
<1>1. CASE ref.kind = "markdown"
  BY <1>1 DEF ReferenceTargetForImpact
<1>2. CASE ref.kind # "markdown"
  <2>1. ref.kind = "wiki" /\ ref.raw \in Seq(Parts)
    BY <1>2 DEF Links
  <2>2. ref.raw \in Seq(Range(ref.raw)) /\ ".." \notin Range(ref.raw)
    BY <2>1, SeqOfRange
  <2>3. NormalizeResolvedPath(ref.raw) = ref.raw
    BY <2>2, PlainPath
  <2>4. ref.raw # External
    BY DEF ParseReferenceTarget
  <2>. QED BY <1>2, <2>3, <2>4 DEF ParseReferenceTarget, ReferenceTargetForImpact
<1>. QED BY <1>1, <1>2

\* What is kept of the scan's findings tells every such reference.
LEMMA KeptImpact == RepairInvariant => ImpactMatchesResolver
<1>. SUFFICES ASSUME RepairInvariant, snap # None, NEW s \in Slots(snap.before), NEW e \in snap.events,
                     Resolve(snap.before, s).status = "resolved",
                     Resolve(snap.before, s).path = Resolve(snap.before, s).asked,
                     Ref(snap.before, s).kind = "wiki" => ".." \notin Range(Ref(snap.before, s).raw),
                     \/ e.kind = "rename" /\ e.old = Resolve(snap.before, s).path
                     \/ e.kind = "delete" /\ e.path = Resolve(snap.before, s).path
     PROVE  \E f \in findings : f.type = "staleness" /\ <<f.path, f.line>> = s
  BY DEF ImpactMatchesResolver
<1>. DEFINE asked == ParseReferenceTarget(Ref(snap.before, s), s[1])
            found(change) == Finding("staleness", snap.before, s, change)
<1>1. snap.before \in VaultStates /\ BuildChangeAwareFindings(snap.events, snap.before, snap.notes) \subseteq findings
  BY DEF RepairInvariant, ReferenceTypeOK, ImpactKept
<1>2. s = <<s[1], s[2]>> /\ Ref(snap.before, s) \in Links
  BY <1>1, SlotOfNote
<1>3. Resolve(snap.before, s).path = asked /\ asked \notin {Nowhere, Outside}
  BY Resolving DEF Resolve
<1>4. ReferenceTargetForImpact(Ref(snap.before, s), s[1]) = asked
  BY <1>2, <1>3, ImpactReadsPaths
<1>5. s \in AnalyzeChangeImpact(asked, snap.before).inbound
  BY <1>4 DEF AnalyzeChangeImpact
<1>6. \A change : found(change) \in ImpactFindings(change, asked, snap.before)
  BY <1>5 DEF ImpactFindings
<1>7. \E change : found(change) \in BuildChangeAwareFindings(snap.events, snap.before, snap.notes)
  <2>. HIDE DEF asked, found
  <2>1. CASE e.kind = "rename"
    <3>1. e.old = asked
      BY <1>3, <2>1
    <3>. QED BY <1>6, <2>1, <3>1 DEF BuildChangeAwareFindings
  <2>2. CASE e.kind = "delete"
    <3>1. e.path = asked
      BY <1>3, <2>2
    <3>. QED BY <1>6, <2>2, <3>1 DEF BuildChangeAwareFindings
  <2>. QED BY <2>1, <2>2
<1>8. \A change : found(change).type = "staleness" /\ <<found(change).path, found(change).line>> = s
  BY <1>2 DEF Finding
<1>. HIDE DEF found
<1>. QED BY <1>1, <1>7, <1>8

\* Every reference that named the full path of a note in the previous scan is
\* reported when that note was renamed or deleted since: what the impact
\* analysis reads of a path is what the resolver reads of it.
THEOREM ImpactMatches == Spec => []ImpactMatchesResolver
BY InitRepairs, RepairStep, KeptImpact, PTL DEF Spec

-----------------------------------------------------------------------------
(* A repair reaches what it was built for.                                 *)

\* What one operation writes is what it was to write.
LEMMA LineWritten ==
  ASSUME NEW notes \in VaultStates, NEW ops, \A op \in ops : OperationOK(op),
         NEW s, NEW op \in ops, s = <<op.path, op.slot>>,
         op.path \in Live(notes), op.slot \in DOMAIN notes[op.path].body
  PROVE  \E w \in ops : w.path = op.path /\ w.slot = op.slot /\ Ref(Written(notes, ops), s) = w.with
<1>1. PICK w \in ops : /\ w.path = op.path /\ w.slot = op.slot
                       /\ AfterWriting(ops, op.path, op.slot, notes[op.path].body[op.slot]) = w.with
  BY DEF AfterWriting
<1>2. Written(notes, ops)[op.path].body[op.slot] = w.with
  BY <1>1, WrittenNote
<1>. QED BY <1>1, <1>2 DEF Ref

\* Only applying the proposal writes the vault and takes the proposal away.
LEMMA AppliedWrites ==
  ASSUME [Next]_vars, proposal # None, proposal' = None, disk' # disk
  PROVE  /\ disk' = Written(disk, proposal.ops)
         /\ \A op \in proposal.ops : disk[op.path] # None /\ Rev(disk[op.path]) = op.rev
<1>1. ASSUME NEW new, NEW v, Changed(new, v) PROVE FALSE
  BY <1>1 DEF Changed
<1>2. ASSUME NEW p \in Paths, Delete(p) \/ Create(p) \/ Edit(p) \/ Supersede(p) PROVE FALSE
  BY <1>1, <1>2 DEF Delete, Create, Edit, Supersede
<1>3. ASSUME NEW p \in Paths, NEW q \in Paths, Rename(p, q) \/ Consolidate(p, q) PROVE FALSE
  BY <1>1, <1>3 DEF Rename, Consolidate
<1>4. ~(StartScan \/ ListFiles \/ FailScan \/ CompleteScan)
  BY DEF StartScan, ListFiles, FailScan, CompleteScan
<1>5. ASSUME NEW f \in findings, Recommend(f) \/ ChooseTarget(f) PROVE FALSE
  BY <1>5 DEF Recommend, ChooseTarget, Intend
<1>6. ~Propose /\ ~UNCHANGED vars
  BY DEF Propose, vars
<1>7. Apply
  BY <1>2, <1>3, <1>4, <1>5, <1>6 DEF Next
<1>. QED BY <1>7 DEF Apply

\* The note an operation was built for is the note it is applied to.
LEMMA SameRevision ==
  ASSUME NEW n \in Notes, NEW rev, Rev(n) = rev
  PROVE  rev.body = n.body /\ rev.aliases = n.aliases
BY DEF Rev, Notes

\* Applying a reference repair.
LEMMA RepairApplied ==
  ASSUME RepairInvariant, [Next]_vars, Applied("reference"), proposal.target \in Live(disk),
         NEW op \in proposal.ops,
         NEW s, s = <<op.path, op.slot>>, NEW to, to = Resolve(disk', s)
  PROVE  /\ to.status = "resolved" /\ to.path = proposal.target
         /\ proposal.anchor \in Range(disk[proposal.target].anchors) =>
              Ref(disk', s).anchor = proposal.anchor /\ to.anchored
<1>. DEFINE target == proposal.target
<1>1. disk \in VaultStates /\ \A o \in proposal.ops : OperationOK(o)
  BY DEF RepairInvariant, ReferenceTypeOK, Applied
<1>2. /\ proposal.anchor \in Anchors
      /\ \A o \in proposal.ops :
           /\ o.slot \in DOMAIN o.rev.body
           /\ o.with \in ReplaceInternalReference(o.rev.body[o.slot], o.path, target, proposal.anchor)
  BY DEF RepairInvariant, RepairOperations, Applied
<1>3. /\ disk' = Written(disk, proposal.ops)
      /\ \A o \in proposal.ops : disk[o.path] # None /\ Rev(disk[o.path]) = o.rev
  BY AppliedWrites DEF Applied
<1>4. ASSUME NEW o \in proposal.ops
      PROVE  /\ o.path \in Live(disk) /\ o.path \in Targets /\ o.slot \in DOMAIN disk[o.path].body
             /\ disk[o.path].body[o.slot] \in Links
             /\ o.with \in ReplaceInternalReference(disk[o.path].body[o.slot], o.path, target, proposal.anchor)
  <2>1. o.path \in Paths /\ disk[o.path] \in Notes /\ Rev(disk[o.path]) = o.rev /\ o.path \in Live(disk)
    BY <1>1, <1>3 DEF OperationOK, VaultStates, Live
  <2>2. o.rev.body = disk[o.path].body
    BY <2>1, SameRevision
  <2>3. disk[o.path].body \in Seq(Links)
    BY <2>1 DEF Notes
  <2>4. o.slot \in DOMAIN disk[o.path].body
    BY <1>2, <2>2
  <2>5. disk[o.path].body[o.slot] \in Links
    BY <2>3, <2>4, LenProperties, ElementOfSeq
  <2>. QED BY <1>2, <2>1, <2>2, <2>4, <2>5, PathsAreTargets
<1>5. PICK w \in proposal.ops : w.path = op.path /\ w.slot = op.slot /\ Ref(disk', s) = w.with
  BY <1>1, <1>3, <1>4, LineWritten
<1>6. target \in Targets /\ target \in Live(disk')
  BY <1>1, <1>3, PathsAreTargets, WrittenVault DEF Live
<1>7. /\ ParseReferenceTarget(w.with, w.path) = target
      /\ proposal.anchor # NoAnchor => w.with.anchor = proposal.anchor
  BY <1>2, <1>4, <1>6, ReplacedReaches DEF Anchors
<1>8. s[1] = w.path
  BY <1>5
<1>9. ParseReferenceTarget(Ref(disk', s), s[1]) = target
  BY <1>5, <1>7, <1>8
<1>10. to = ResolveInternalReference(disk', Ref(disk', s), s[1])
  BY DEF Resolve
<1>11. /\ to.status = "resolved" /\ to.path = target
       /\ AnchorExists(disk'[target], Ref(disk', s).anchor) => to.anchored
  BY <1>6, <1>9, <1>10, AskedIsReached
<1>12. ASSUME proposal.anchor \in Range(disk[target].anchors)
       PROVE  Ref(disk', s).anchor = proposal.anchor /\ AnchorExists(disk'[target], Ref(disk', s).anchor)
  <2>1. disk[target].anchors \in Seq(Headings) /\ disk'[target].anchors = disk[target].anchors
    <3>1. target \in Live(disk)
      OBVIOUS
    <3>. QED BY <1>1, <1>3, <3>1, WrittenNote DEF Notes
  <2>2. proposal.anchor \in Headings
    BY <1>12, <2>1, RangeOfSeq
  <2>3. Ref(disk', s).anchor = proposal.anchor
    BY <1>5, <1>7, <2>2 DEF Headings
  <2>. QED BY <1>12, <2>1, <2>3 DEF AnchorExists
<1>. QED BY <1>11, <1>12

\* A reference repair that is written makes the reference reach the target it
\* was built for, with the anchor chosen: replaceInternalReference writes what
\* resolveInternalReference reads, wherever the two notes stand.
THEOREM RepairReaches == Spec => RepairReachesTarget
<1>1. RepairInvariant /\ [Next]_vars =>
        [(Applied("reference") /\ proposal.target \in Live(disk)) =>
           \A op \in proposal.ops :
             LET s == <<op.path, op.slot>>
                 to == Resolve(disk', s)
             IN  /\ to.status = "resolved" /\ to.path = proposal.target
                 /\ proposal.anchor \in Range(disk[proposal.target].anchors) =>
                      Ref(disk', s).anchor = proposal.anchor /\ to.anchored]_vars
  BY RepairApplied
<1>. QED BY <1>1, InitRepairs, RepairStep, PTL DEF Spec, RepairReachesTarget

-----------------------------------------------------------------------------
(* A consolidation keeps the links.                                        *)

\* The operations of a consolidation, over the notes they are applied to.
Consolidated(notes, seen, ops, c, d) ==
  /\ notes \in VaultStates /\ seen \in VaultStates
  /\ c \in Live(seen) /\ d \in Live(seen) /\ c # d /\ c \in Live(notes)
  /\ ops = ReferenceOperations(seen, c, d) \cup TransferExclusiveAliases(seen, c, d)
  /\ \A op \in ops : OperationOK(op) /\ op.path \in Live(notes) /\ Rev(notes[op.path]) = op.rev

Unique(seen, d) == seen[d].aliases \ UNION {seen[p].aliases : p \in Live(seen) \ {d}}
Aliased(notes, asked) == {p \in Live(notes) : asked \in notes[p].aliases}

\* A reference an operation replaces reaches the canonical note.
LEMMA SlotRewritten ==
  ASSUME NEW notes, NEW seen, NEW ops, NEW c, NEW d, Consolidated(notes, seen, ops, c, d),
         NEW s \in Slots(notes), NEW op \in ops, op.path = s[1], op.slot = s[2],
         NEW to, to = Resolve(Written(notes, ops), s)
  PROVE  to.status = "resolved" /\ to.path = c
<1>1. notes \in VaultStates /\ seen \in VaultStates /\ c \in Live(seen) /\ c \in Live(notes)
      /\ \A o \in ops : OperationOK(o)
      /\ ops = ReferenceOperations(seen, c, d) \cup TransferExclusiveAliases(seen, c, d)
  BY DEF Consolidated
<1>2. s = <<s[1], s[2]>> /\ s[1] \in Live(notes) /\ s[2] \in DOMAIN notes[s[1]].body /\ s[2] # 0
  BY <1>1, SlotOfNote
<1>3. PICK w \in ops : w.path = s[1] /\ w.slot = s[2] /\ Ref(Written(notes, ops), s) = w.with
  <2>1. s = <<op.path, op.slot>>
    BY <1>2
  <2>. QED BY <1>1, <1>2, <2>1, LineWritten
<1>4. w \in ReferenceOperations(seen, c, d)
  <2>1. w \in TransferExclusiveAliases(seen, c, d) => w.slot = 0
    BY AliasesMoved
  <2>. QED BY <1>1, <1>2, <1>3, <2>1
<1>5. ParseReferenceTarget(w.with, s[1]) = c
  BY <1>1, <1>3, <1>4, ReferenceOperation
<1>6. c \in Live(Written(notes, ops))
  BY <1>1, WrittenVault
<1>. QED BY <1>3, <1>5, <1>6, AskedIsReached DEF Resolve

\* Any other reference stays what it is.
LEMMA SlotKept ==
  ASSUME NEW notes \in VaultStates, NEW ops, \A op \in ops : OperationOK(op), NEW s \in Slots(notes),
         \A op \in ops : ~(op.path = s[1] /\ op.slot = s[2])
  PROVE  Ref(Written(notes, ops), s) = Ref(notes, s)
<1>1. s[1] \in Live(notes) /\ s[2] \in DOMAIN notes[s[1]].body
  BY SlotOfNote
<1>2. Written(notes, ops)[s[1]].body[s[2]] = AfterWriting(ops, s[1], s[2], notes[s[1]].body[s[2]])
  BY <1>1, WrittenNote
<1>3. AfterWriting(ops, s[1], s[2], notes[s[1]].body[s[2]]) = notes[s[1]].body[s[2]]
  BY DEF AfterWriting
<1>. QED BY <1>2, <1>3 DEF Ref

\* Writing keeps the lines of every note.
LEMMA SlotsKept ==
  ASSUME NEW notes \in VaultStates, NEW ops, \A op \in ops : OperationOK(op)
  PROVE  Slots(Written(notes, ops)) = Slots(notes)
<1>1. Live(Written(notes, ops)) = Live(notes)
  BY WrittenVault
<1>2. \A p \in Live(notes) : DOMAIN Written(notes, ops)[p].body = DOMAIN notes[p].body
  BY WrittenNote
<1>. QED BY <1>1, <1>2 DEF Slots

\* What the operations make of the aliases: nothing, or the canonical note gets
\* those that only the duplicate had.
LEMMA AliasesWritten ==
  ASSUME NEW notes, NEW seen, NEW ops, NEW c, NEW d, Consolidated(notes, seen, ops, c, d)
  PROVE  \/ \A p \in Live(notes) : Written(notes, ops)[p].aliases = notes[p].aliases
         \/ /\ d \in Live(notes) /\ notes[d].aliases = seen[d].aliases
            /\ Written(notes, ops)[c].aliases = notes[c].aliases \cup Unique(seen, d)
            /\ Written(notes, ops)[d].aliases = notes[d].aliases \ Unique(seen, d)
            /\ \A p \in Live(notes) \ {c, d} : Written(notes, ops)[p].aliases = notes[p].aliases
<1>. DEFINE refs == ReferenceOperations(seen, c, d)
            transfer == TransferExclusiveAliases(seen, c, d)
            moved == Unique(seen, d)
<1>1. /\ notes \in VaultStates /\ seen \in VaultStates /\ c \in Live(seen) /\ d \in Live(seen) /\ c # d
      /\ c \in Live(notes) /\ ops = refs \cup transfer
      /\ \A op \in ops : OperationOK(op) /\ op.path \in Live(notes) /\ Rev(notes[op.path]) = op.rev
  BY DEF Consolidated
<1>2. \A op \in refs : op.slot # 0
  BY <1>1, ReferenceOperation
<1>3. ASSUME NEW op \in transfer
      PROVE  /\ op.slot = 0
             /\ \/ op.path = c /\ op.rev = Rev(seen[c]) /\ op.with = seen[c].aliases \cup moved
                \/ op.path = d /\ op.rev = Rev(seen[d]) /\ op.with = seen[d].aliases \ moved
  BY AliasesMoved DEF Unique
<1>4. \A p \in Live(notes) : Written(notes, ops)[p].aliases = AfterWriting(ops, p, 0, notes[p].aliases)
  BY <1>1, WrittenNote
<1>. HIDE DEF refs, transfer, moved
<1>5. ASSUME NEW p \in Live(notes), \A op \in transfer : op.path # p
      PROVE  Written(notes, ops)[p].aliases = notes[p].aliases
  <2>1. ~\E op \in ops : op.path = p /\ op.slot = 0
    BY <1>1, <1>2, <1>5
  <2>. QED BY <1>4, <2>1 DEF AfterWriting
<1>6. ASSUME NEW p \in {c, d}, NEW op \in transfer, op.path = p
      PROVE  /\ p \in Live(notes) /\ notes[p].aliases = seen[p].aliases
             /\ Written(notes, ops)[p].aliases
                  = IF p = c THEN seen[c].aliases \cup moved ELSE seen[d].aliases \ moved
  <2>1. PICK w \in ops : /\ w.path = p /\ w.slot = 0
                         /\ AfterWriting(ops, p, 0, notes[p].aliases) = w.with
    <3>1. op \in ops /\ op.slot = 0
      BY <1>1, <1>3
    <3>. QED BY <1>6, <3>1 DEF AfterWriting
  <2>2. w \in transfer
    BY <1>1, <1>2, <2>1
  <2>3. /\ p \in Live(notes) /\ Rev(notes[p]) = Rev(seen[p])
        /\ w.with = IF p = c THEN seen[c].aliases \cup moved ELSE seen[d].aliases \ moved
    BY <1>1, <1>3, <2>1, <2>2
  <2>4. notes[p] \in Notes /\ seen[p] \in Notes
    BY <1>1, <2>3 DEF Live, VaultStates
  <2>5. notes[p].aliases = seen[p].aliases
    BY <2>3, <2>4 DEF Rev, Notes
  <2>. QED BY <1>4, <2>1, <2>3, <2>5
<1>7. CASE transfer = {}
  BY <1>5, <1>7
<1>8. CASE transfer # {}
  <2>1. (\E op \in transfer : op.path = c) /\ (\E op \in transfer : op.path = d)
    BY <1>8 DEF transfer, TransferExclusiveAliases, AliasOperation, Operation
  <2>2. /\ notes[c].aliases = seen[c].aliases
        /\ Written(notes, ops)[c].aliases = notes[c].aliases \cup moved
    BY <1>6, <2>1
  <2>3. /\ d \in Live(notes) /\ notes[d].aliases = seen[d].aliases
        /\ Written(notes, ops)[d].aliases = notes[d].aliases \ moved
    BY <1>1, <1>6, <2>1
  <2>4. \A p \in Live(notes) \ {c, d} : Written(notes, ops)[p].aliases = notes[p].aliases
    BY <1>3, <1>5
  <2>. QED BY <2>2, <2>3, <2>4 DEF moved
<1>. QED BY <1>7, <1>8

\* The notes of an alias stay, or the canonical note takes the duplicate's
\* place.
LEMMA AliasedWritten ==
  ASSUME NEW notes, NEW seen, NEW ops, NEW c, NEW d, Consolidated(notes, seen, ops, c, d), NEW asked
  PROVE  \/ Aliased(Written(notes, ops), asked) = Aliased(notes, asked)
         \/ /\ d \in Aliased(notes, asked) /\ d \notin Aliased(Written(notes, ops), asked)
            /\ c \in Aliased(Written(notes, ops), asked)
            /\ \A p \in Live(notes) \ {c, d} :
                 p \in Aliased(Written(notes, ops), asked) <=> p \in Aliased(notes, asked)
<1>1. Live(Written(notes, ops)) = Live(notes) /\ c \in Live(notes) /\ c # d
  BY WrittenVault DEF Consolidated
<1>2. CASE \A p \in Live(notes) : Written(notes, ops)[p].aliases = notes[p].aliases
  BY <1>1, <1>2 DEF Aliased
<1>3. CASE /\ d \in Live(notes) /\ notes[d].aliases = seen[d].aliases
           /\ Written(notes, ops)[c].aliases = notes[c].aliases \cup Unique(seen, d)
           /\ Written(notes, ops)[d].aliases = notes[d].aliases \ Unique(seen, d)
           /\ \A p \in Live(notes) \ {c, d} : Written(notes, ops)[p].aliases = notes[p].aliases
  <2>1. CASE asked \in Unique(seen, d)
    <3>1. asked \in notes[d].aliases
      BY <1>3, <2>1 DEF Unique
    <3>. QED BY <1>1, <1>3, <2>1, <3>1 DEF Aliased
  <2>2. CASE asked \notin Unique(seen, d)
    <3>1. \A p \in Live(notes) : asked \in Written(notes, ops)[p].aliases <=> asked \in notes[p].aliases
      BY <1>3, <2>2
    <3>. QED BY <1>1, <3>1 DEF Aliased
  <2>. QED BY <2>1, <2>2
<1>. QED BY <1>2, <1>3, AliasesWritten

\* What a reference that is kept means before and after.
LEMMA MeantWritten ==
  ASSUME NEW notes, NEW seen, NEW ops, NEW c, NEW d, Consolidated(notes, seen, ops, c, d), NEW asked
  PROVE  /\ \A p : Meant(notes, asked) = {p} => Meant(Written(notes, ops), asked) \in {{p}, {c}}
         /\ Meant(Written(notes, ops), asked) = {d} => Meant(notes, asked) = {d}
<1>. DEFINE after == Written(notes, ops)
            named == {p \in Live(notes) : Last(p) = Last(asked)}
<1>1. Live(after) = Live(notes) /\ c \in Live(notes) /\ c # d
  BY WrittenVault DEF Consolidated
<1>2. /\ Meant(notes, asked) = IF asked \in Live(notes) THEN {asked}
                               ELSE IF named # {} THEN named ELSE Aliased(notes, asked)
      /\ Meant(after, asked) = IF asked \in Live(notes) THEN {asked}
                               ELSE IF named # {} THEN named ELSE Aliased(after, asked)
  BY <1>1 DEF Meant, Aliased
<1>. HIDE DEF after, named
<1>3. CASE Aliased(after, asked) = Aliased(notes, asked)
  BY <1>2, <1>3 DEF after
<1>4. CASE /\ d \in Aliased(notes, asked) /\ d \notin Aliased(after, asked) /\ c \in Aliased(after, asked)
           /\ \A p \in Live(notes) \ {c, d} : p \in Aliased(after, asked) <=> p \in Aliased(notes, asked)
  <2>1. Aliased(after, asked) \subseteq Live(notes) /\ Aliased(after, asked) # {d}
    BY <1>1, <1>4 DEF Aliased
  <2>2. ASSUME NEW p, Aliased(notes, asked) = {p} PROVE Aliased(after, asked) = {c}
    <3>1. p = d
      BY <1>4, <2>2
    <3>2. \A q \in Aliased(after, asked) : q = c
      BY <1>4, <2>1, <2>2, <3>1
    <3>. QED BY <1>4, <3>2
  <2>. QED BY <1>2, <2>1, <2>2 DEF after
<1>. QED BY <1>3, <1>4, AliasedWritten DEF after

\* What reached a note reaches one.
LEMMA LinkKept ==
  ASSUME NEW notes, NEW seen, NEW ops, NEW c, NEW d, Consolidated(notes, seen, ops, c, d),
         NEW s \in Slots(notes), Resolve(notes, s).status = "resolved"
  PROVE  Resolve(Written(notes, ops), s).status = "resolved"
<1>1. CASE \E op \in ops : op.path = s[1] /\ op.slot = s[2]
  BY <1>1, SlotRewritten
<1>2. CASE ~\E op \in ops : op.path = s[1] /\ op.slot = s[2]
  <2>. DEFINE asked == ParseReferenceTarget(Ref(notes, s), s[1])
  <2>1. Ref(Written(notes, ops), s) = Ref(notes, s)
    BY <1>2, SlotKept DEF Consolidated
  <2>2. asked \notin {Nowhere, Outside} /\ Meant(notes, asked) = {Resolve(notes, s).path}
    BY Resolving DEF Resolve
  <2>3. \E p : Meant(Written(notes, ops), asked) = {p}
    <3>. HIDE DEF asked
    <3>1. \A p : Meant(notes, asked) = {p} => Meant(Written(notes, ops), asked) \in {{p}, {c}}
      BY MeantWritten
    <3>2. Meant(Written(notes, ops), asked) \in {{Resolve(notes, s).path}, {c}}
      BY <2>2, <3>1, Zenon
    <3>. QED BY <3>2
  <2>4. asked = ParseReferenceTarget(Ref(Written(notes, ops), s), s[1])
    BY <2>1
  <2>. HIDE DEF asked
  <2>. QED BY <2>2, <2>3, <2>4, Resolving DEF Resolve
<1>. QED BY <1>1, <1>2

\* Applied to the notes it was built from, a consolidation leaves no reference
\* of another note to the duplicate.
LEMMA DuplicateLeft ==
  ASSUME NEW notes, NEW ops, NEW c, NEW d, Consolidated(notes, notes, ops, c, d),
         NEW s \in Slots(notes), s[1] \notin {c, d}
  PROVE  Resolve(Written(notes, ops), s).path # d
<1>. DEFINE to == Resolve(Written(notes, ops), s)
            link == Ref(notes, s)
            asked == ParseReferenceTarget(link, s[1])
<1>0. /\ notes \in VaultStates /\ c \in Live(notes) /\ d \in Live(notes) /\ c # d
      /\ ops = ReferenceOperations(notes, c, d) \cup TransferExclusiveAliases(notes, c, d)
  BY DEF Consolidated
<1>1. s[1] \in Targets /\ s[1] \in Live(notes) /\ c \in Targets /\ d # Nowhere /\ link \in Links
  BY <1>0, SlotOfNote, PathsAreTargets DEF Live, Targets
<1>2. CASE \E op \in ops : op.path = s[1] /\ op.slot = s[2]
  BY <1>0, <1>2, SlotRewritten
<1>3. CASE ~\E op \in ops : op.path = s[1] /\ op.slot = s[2]
  <2>. SUFFICES ASSUME to.path = d PROVE FALSE
    OBVIOUS
  <2>1. asked = ParseReferenceTarget(Ref(Written(notes, ops), s), s[1])
    BY <1>3, SlotKept DEF Consolidated
  <2>2. asked \notin {Nowhere, Outside} /\ Meant(Written(notes, ops), asked) = {d}
    <3>. HIDE DEF asked
    <3>. QED BY <1>1, <2>1, Resolving DEF Resolve
  <2>3. Meant(notes, asked) = {d}
    BY <2>2, MeantWritten
  <2>4. Resolve(notes, s).path = d
    <3>. HIDE DEF asked
    <3>1. Resolve(notes, s).status = "resolved" /\ Meant(notes, asked) = {Resolve(notes, s).path}
      BY <2>2, <2>3, Resolving DEF Resolve, asked
    <3>. QED BY <2>3, <3>1
  <2>5. ReplaceInternalReference(link, s[1], c, NoAnchor) \subseteq {link}
    <3>. SUFFICES ASSUME NEW new \in ReplaceInternalReference(link, s[1], c, NoAnchor) \ {link} PROVE FALSE
      OBVIOUS
    <3>. DEFINE op == Operation(0, notes[s[1]], s[1], s[2], link, new)
    <3>1. op \in ReferenceOperations(notes, c, d)
      BY <2>4 DEF ReferenceOperations
    <3>2. op.path = s[1] /\ op.slot = s[2]
      BY DEF Operation
    <3>. HIDE DEF op
    <3>. QED BY <1>0, <1>3, <3>1, <3>2
  <2>6. link \notin ReplaceInternalReference(link, s[1], c, NoAnchor)
    <3>. SUFFICES ASSUME link \in ReplaceInternalReference(link, s[1], c, NoAnchor) PROVE FALSE
      OBVIOUS
    <3>1. asked = c
      BY <1>1, ReplacedReaches
    <3>2. Resolve(notes, s).path = c
      BY <1>0, <3>1, AskedIsReached DEF Resolve
    <3>. QED BY <1>0, <2>4, <3>2
  <2>7. ReplaceInternalReference(link, s[1], c, NoAnchor) = {}
    BY <2>5, <2>6
  <2>8. asked = Outside
    BY <2>7 DEF ReplaceInternalReference
  <2>. QED BY <2>2, <2>8
<1>. QED BY <1>2, <1>3

\* Applying a consolidation that was not cut.
LEMMA ConsolidationApplied ==
  ASSUME RepairInvariant, [Next]_vars, Applied("entity"), ~proposal.cut, proposal.target \in Live(disk)
  PROVE  /\ disk' = Written(disk, proposal.ops)
         /\ Consolidated(disk, proposal.seen, proposal.ops, proposal.target, proposal.duplicate)
<1>1. proposal # None /\ proposal.kind # "reference"
  BY DEF Applied
<1>2. /\ disk' = Written(disk, proposal.ops)
      /\ \A op \in proposal.ops : disk[op.path] # None /\ Rev(disk[op.path]) = op.rev
  BY AppliedWrites DEF Applied
<1>3. disk \in VaultStates /\ \A op \in proposal.ops : OperationOK(op)
  BY <1>1 DEF RepairInvariant, ReferenceTypeOK
<1>4. \A op \in proposal.ops : op.path \in Live(disk)
  BY <1>2, <1>3 DEF OperationOK, Live
<1>. QED BY <1>1, <1>2, <1>3, <1>4 DEF RepairInvariant, ConsolidationOperations, Consolidated

\* A consolidation that was not cut breaks no reference of the vault, whatever
\* was renamed or edited since; over the notes it was built from it leaves no
\* reference of another note to the duplicate.
THEOREM ConsolidationKeeps == Spec => ConsolidationKeepsLinks
<1>1. RepairInvariant /\ [Next]_vars =>
        [(Applied("entity") /\ ~proposal.cut /\ proposal.target \in Live(disk)) =>
           /\ \A s \in Slots(disk) :
                Resolve(disk, s).status = "resolved" => Resolve(disk', s).status = "resolved"
           /\ disk = proposal.seen =>
                \A s \in Slots(disk') : s[1] \in {proposal.target, proposal.duplicate}
                                          \/ Resolve(disk', s).path # proposal.duplicate]_vars
  <2>. SUFFICES ASSUME RepairInvariant, [Next]_vars, Applied("entity"), ~proposal.cut,
                       proposal.target \in Live(disk)
       PROVE  /\ \A s \in Slots(disk) :
                   Resolve(disk, s).status = "resolved" => Resolve(disk', s).status = "resolved"
              /\ disk = proposal.seen =>
                   \A s \in Slots(disk') : s[1] \in {proposal.target, proposal.duplicate}
                                             \/ Resolve(disk', s).path # proposal.duplicate
    OBVIOUS
  <2>1. /\ disk' = Written(disk, proposal.ops)
        /\ Consolidated(disk, proposal.seen, proposal.ops, proposal.target, proposal.duplicate)
    BY ConsolidationApplied
  <2>2. Slots(disk') = Slots(disk)
    BY <2>1, SlotsKept DEF Consolidated
  <2>3. \A s \in Slots(disk) : Resolve(disk, s).status = "resolved" => Resolve(disk', s).status = "resolved"
    BY <2>1, LinkKept
  <2>4. ASSUME disk = proposal.seen, NEW s \in Slots(disk), s[1] \notin {proposal.target, proposal.duplicate}
        PROVE  Resolve(disk', s).path # proposal.duplicate
    BY <2>1, <2>4, DuplicateLeft
  <2>. QED BY <2>2, <2>3, <2>4
<1>. QED BY <1>1, InitRepairs, RepairStep, PTL DEF Spec, ConsolidationKeepsLinks
=============================================================================
