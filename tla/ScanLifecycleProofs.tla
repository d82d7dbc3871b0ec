------------------------- MODULE ScanLifecycleProofs -------------------------
(***************************************************************************)
(* Theorems of ScanLifecycle, for any notes and paths and any number of    *)
(* changes and failures.                                                   *)
(***************************************************************************)
EXTENDS ScanLifecycle, TLAPS

\* A rename event names the path the note has left.
RenamesNamed == \A e \in events \cup taken : e.kind = "rename" => e.oldPath # None

\* While a listing runs and no event has come: each note is still to be read,
\* being read, or read as it is; nothing else has been read.
ListingSound ==
  /\ pc = "listing" /\ events = {} =>
       \A f \in Present :
         \/ f \in handles
         \/ current = [file |-> f, path |-> path[f]]
         \/ Entry(f) \in listed
  /\ pc = "listing" /\ events = {} /\ current # None =>
       path[current.file] = current.path
  /\ pc \in {"listing", "checking", "flushing"} /\ events = {} => listed \subseteq Vault
  /\ pc \in {"checking", "flushing"} /\ events = {} => Vault \subseteq listed

\* An index no event has made old is the vault; a running scan has to reach it
\* first.
IndexSound ==
  /\ pc \in {"listing", "checking"} => ~indexed
  /\ pc \in {"idle", "flushing"} /\ events = {} /\ indexed => index = Vault

\* Paths that have been read are read no more.
ListedUnambiguous ==
  /\ \A d, e \in listed : d.path = e.path => d = e
  /\ current # None => \A e \in listed : e.path # current.path

\* The repair's own scan reports to it.
CallerKnown ==
  /\ caller = "repair" <=> repair = "reindexing"
  /\ pc = "idle" <=> caller = "none"

\* The versions of a note only grow, and a note that is gone stays away.
Later(w) == w.version <= version[w.file] /\ 0 < w.version

SeenIn(w, S) == \E e \in S : e.file = w.file /\ e.version >= w.version

\* A scan that began after a repair has what the repair wrote ahead of it or
\* has read it.
RepairSeen ==
  /\ repair = "none" => written = {}
  /\ \A w \in written : w \in [file : Files, version : Nat] /\ Later(w)
  /\ repair \in {"reindexing", "reindexed"} => \A w \in written :
       \/ path[w.file] = None
       \/ /\ pc = "listing" =>
               \/ w.file \in handles
               \/ current # None /\ current.file = w.file
               \/ SeenIn(w, listed)
          /\ pc \in {"checking", "flushing"} => SeenIn(w, listed)
          /\ pc = "flushing" => SeenIn(w, index)
  /\ repair = "reindexed" => \A w \in written : path[w.file] = None \/ SeenIn(w, index)

ScanInv ==
  /\ ScanTypeOK
  /\ RenamesNamed
  /\ ListingSound
  /\ IndexSound
  /\ ListedUnambiguous
  /\ PathsUnambiguous
  /\ CallerKnown
  /\ RepairSeen

-----------------------------------------------------------------------------
(* Types.                                                                  *)

\* The plugin starts with an empty index, no event and no scan.
LEMMA ScanInit == Init => ScanInv
<1>. SUFFICES ASSUME Init PROVE ScanInv
  OBVIOUS
<1>1. ScanTypeOK
  <2>1. version \in [Files -> Nat]
    BY DEF Init
  <2>2. path \in [Files -> Paths \cup {None}] /\ pendingEvent \in BOOLEAN
        /\ ranOnce \in BOOLEAN /\ indexed \in BOOLEAN
    BY Zenon DEF Init
  <2>. QED BY <2>1, <2>2 DEF Init, ScanTypeOK
<1>2. RenamesNamed /\ ListingSound /\ IndexSound
  BY DEF Init, RenamesNamed, ListingSound, IndexSound
<1>3. ListedUnambiguous /\ PathsUnambiguous /\ CallerKnown /\ RepairSeen
  BY DEF Init, ListedUnambiguous, PathsUnambiguous, CallerKnown, RepairSeen
<1>. QED BY <1>1, <1>2, <1>3 DEF ScanInv

\* Every variable stays in its domain.
LEMMA ScanTypeStep == ScanTypeOK /\ RenamesNamed /\ [Next]_vars => ScanTypeOK'
<1>. SUFFICES ASSUME ScanTypeOK, RenamesNamed, [Next]_vars PROVE ScanTypeOK'
  OBVIOUS
<1>. USE DEF ScanTypeOK, Kinds, Notes
<1>1. ASSUME NEW f \in Files, Modify(f) PROVE ScanTypeOK'
  BY <1>1 DEF Modify, Notify, Changes, Present, scanVars, resultVars, repairVars
<1>2. ASSUME NEW f \in Files, Delete(f) PROVE ScanTypeOK'
  BY <1>2 DEF Delete, Notify, Changes, Present, scanVars, resultVars, repairVars
<1>3. ASSUME NEW f \in Files, RepairWrites(f) PROVE ScanTypeOK'
  BY <1>3 DEF RepairWrites, Notify, Changes, Present, scanVars, resultVars
<1>4. ASSUME NEW f \in Files, NEW p \in Paths, Create(f, p) PROVE ScanTypeOK'
  BY <1>4 DEF Create, Notify, Changes, scanVars, resultVars, repairVars
<1>5. ASSUME NEW f \in Files, NEW p \in Paths, Rename(f, p) PROVE ScanTypeOK'
  BY <1>5 DEF Rename, Notify, Changes, Present, scanVars, resultVars, repairVars
<1>6. ASSUME NEW who \in {"user", "tick", "repair"}, Begin(who),
             UNCHANGED failures \/ failures' \in Nat,
             pendingEvent' \in BOOLEAN, ranOnce' \in BOOLEAN,
             repair' \in {"none", "written", "reindexing", "reindexed", "not-reindexed"}
      PROVE ScanTypeOK'
  BY <1>6 DEF Begin, Present, vaultVars
<1>7. CASE UserScan
  BY <1>7, <1>6 DEF UserScan, scheduleVars
<1>8. CASE Tick
  <2>1. pendingEvent' = FALSE /\ ranOnce' = TRUE /\ repair' = repair
    BY <1>8, Zenon DEF Tick
  <2>2. CASE Begin("tick") /\ UNCHANGED failures
    BY <1>6, <2>1, <2>2
  <2>3. CASE Refused /\ UNCHANGED <<vaultVars, events, scanVars, resultVars, written, changes>>
    <3>1. failures' \in Nat
      BY <2>3 DEF Refused
    <3>2. pendingEvent' \in BOOLEAN /\ ranOnce' \in BOOLEAN /\ indexed' \in BOOLEAN
      BY <2>1, <2>3, Zenon DEF resultVars
    <3>. HIDE DEF Refused
    <3>. QED BY <2>1, <2>3, <3>1, <3>2 DEF vaultVars, scanVars, resultVars
  <2>. QED BY <1>8, <2>2, <2>3, Zenon DEF Tick
<1>9. CASE Reindex
  BY <1>9, <1>6 DEF Reindex, vaultVars, scanVars, resultVars, scheduleVars
<1>10. CASE ReindexRefused
  BY <1>10 DEF ReindexRefused, Refused, vaultVars, scanVars, resultVars, scheduleVars
<1>11. CASE NextHandle
  BY <1>11 DEF NextHandle, vaultVars, resultVars, scheduleVars, repairVars
<1>12. CASE ReadNote
  BY <1>12 DEF ReadNote, vaultVars, resultVars, scheduleVars, repairVars
<1>13. CASE Listed
  BY <1>13 DEF Listed, vaultVars, resultVars, scheduleVars, repairVars
<1>14. ASSUME ReplaceIndex
       PROVE index' \subseteq Notes /\ renames' \subseteq [oldPath : Paths, path : Paths]
             /\ indexed' \in BOOLEAN
  BY <1>14 DEF ReplaceIndex, RenamesNamed
<1>15. CASE Save
  BY <1>15, <1>14 DEF Save, vaultVars, scheduleVars, repairVars
<1>16. ASSUME NEW r \in {"reindexed", "not-reindexed"}, Answer(r)
       PROVE repair' \in {"none", "written", "reindexing", "reindexed", "not-reindexed"}
  BY <1>16 DEF Answer
<1>17. CASE Flushed
  BY <1>17, <1>16 DEF Flushed, EndScan, vaultVars, resultVars, scheduleVars
<1>18. CASE ListingFails
  BY <1>18, <1>16 DEF ListingFails, EndScan, vaultVars, resultVars, scheduleVars
<1>19. CASE SaveFails
  BY <1>19, <1>14, <1>16 DEF SaveFails, EndScan, vaultVars, scheduleVars
<1>20. CASE Fail
  BY <1>20, <1>16 DEF Fail, EndScan, vaultVars, resultVars, scheduleVars
<1>21. CASE UNCHANGED vars
  BY <1>21 DEF vars, vaultVars, scanVars, resultVars, scheduleVars, repairVars
<1>. QED
  BY <1>1, <1>2, <1>3, <1>4, <1>5, <1>7, <1>8, <1>9, <1>10, <1>11, <1>12, <1>13, <1>15,
     <1>17, <1>18, <1>19, <1>20, <1>21 DEF Next, ScanStep

-----------------------------------------------------------------------------
(* Nothing is missed.                                                      *)

\* A step that changes the vault queues an event and leaves the scan alone.
VaultStep ==
  \/ \E f \in Files : Modify(f) \/ Delete(f) \/ RepairWrites(f)
  \/ \E f \in Files, p \in Paths : Create(f, p) \/ Rename(f, p)

LEMMA VaultStepQueues ==
  VaultStep => /\ \E e : /\ events' = events \cup {e}
                         /\ e.kind = "rename" => e.oldPath # None
               /\ UNCHANGED <<scanVars, resultVars>>
<1>. SUFFICES ASSUME VaultStep
              PROVE  /\ \E e : /\ events' = events \cup {e}
                               /\ e.kind = "rename" => e.oldPath # None
                     /\ UNCHANGED <<scanVars, resultVars>>
  OBVIOUS
<1>1. UNCHANGED <<scanVars, resultVars>>
  BY Zenon DEF VaultStep, Modify, Delete, RepairWrites, Create, Rename, Changes
<1>2. ASSUME NEW k \in Kinds, NEW p, NEW o, Notify(k, p, o), k = "rename" => o # None
      PROVE  \E e : events' = events \cup {e} /\ (e.kind = "rename" => e.oldPath # None)
  <2>1. WITNESS [kind |-> k, path |-> p, oldPath |-> o]
  <2>. QED BY <1>2 DEF Notify
<1>. QED
  BY <1>1, <1>2 DEF VaultStep, Modify, Delete, RepairWrites, Create, Rename, Kinds, Present

\* A tick or a re-index that starts no scan leaves the scan alone.
RefusedStep ==
  /\ (Tick /\ ~Begin("tick")) \/ (Reindex /\ ~Begin("repair")) \/ ReindexRefused
  /\ UNCHANGED <<vaultVars, events, scanVars, resultVars, written, changes>>

\* The steps in which no scan makes progress, and those in which one does.
LEMMA StepKinds ==
  [Next]_vars <=> \/ VaultStep \/ UserScan \/ RefusedStep
                  \/ (Tick /\ Begin("tick")) \/ (Reindex /\ Begin("repair"))
                  \/ NextHandle \/ ReadNote \/ Listed \/ Save \/ Flushed \/ ListingFails
                  \/ SaveFails \/ Fail \/ UNCHANGED vars
<1>1. Tick => (Tick /\ Begin("tick")) \/ RefusedStep
  BY Zenon DEF Tick, RefusedStep
<1>2. Reindex => (Reindex /\ Begin("repair")) \/ RefusedStep
  BY Zenon DEF Reindex, RefusedStep
<1>3. ReindexRefused => RefusedStep
  BY Zenon DEF ReindexRefused, RefusedStep
<1>4. RefusedStep => Tick \/ Reindex \/ ReindexRefused
  BY Zenon DEF RefusedStep
<1>. QED BY <1>1, <1>2, <1>3, <1>4, Zenon DEF Next, ScanStep, VaultStep

\* A rename event names the path the note has left.
LEMMA NamedStep == RenamesNamed /\ [Next]_vars => RenamesNamed'
<1>. SUFFICES ASSUME RenamesNamed, [Next]_vars PROVE RenamesNamed'
  OBVIOUS
<1>1. CASE VaultStep
  BY <1>1, VaultStepQueues DEF RenamesNamed, scanVars
<1>2. ASSUME NEW who, Begin(who) PROVE RenamesNamed'
  BY <1>2 DEF Begin, RenamesNamed
<1>3. CASE RefusedStep \/ NextHandle \/ ReadNote \/ Listed \/ Save \/ UNCHANGED vars
  BY <1>3 DEF RefusedStep, NextHandle, ReadNote, Listed, Save, vars, scanVars, RenamesNamed
<1>4. CASE Flushed \/ ListingFails \/ SaveFails \/ Fail
  BY <1>4 DEF Flushed, ListingFails, SaveFails, Fail, EndScan, RenamesNamed
<1>. QED BY <1>1, <1>2, <1>3, <1>4, StepKinds DEF UserScan

\* A vault that is left alone has the same notes.
LEMMA VaultFrame ==
  UNCHANGED <<path, version>> =>
    Present' = Present /\ Vault' = Vault /\ \A f \in Files : Entry(f)' = Entry(f)
BY DEF Present, Vault, Entry

\* No note that is being read is None.
LEMMA CurrentType ==
  ASSUME ScanTypeOK
  PROVE  /\ Present \subseteq Files /\ \A f \in Present : path[f] \in Paths
         /\ \A f \in Present : [file |-> f, path |-> path[f]] # None
         /\ current # None => current.file \in Files /\ current.path \in Paths
BY ScanAssumption DEF ScanTypeOK, Present

\* A running listing keeps up with a vault that sends no event, and so does the
\* index it ends in.
LEMMA SoundStep ==
  ScanTypeOK /\ ListingSound /\ IndexSound /\ [Next]_vars => ListingSound' /\ IndexSound'
<1>. SUFFICES ASSUME ScanTypeOK, ListingSound, IndexSound, [Next]_vars
              PROVE  ListingSound' /\ IndexSound'
  OBVIOUS
<1>1. CASE VaultStep
  <2>1. events' # {}
    BY <1>1, VaultStepQueues
  <2>. QED BY <1>1, <2>1, VaultStepQueues DEF ListingSound, IndexSound, scanVars, resultVars
<1>2. ASSUME NEW who, Begin(who) PROVE ListingSound' /\ IndexSound'
  BY <1>2 DEF Begin, ListingSound, IndexSound, Present, vaultVars
<1>3. CASE RefusedStep \/ UNCHANGED vars
  BY <1>3 DEF RefusedStep, vars, vaultVars, scanVars, resultVars, ListingSound, IndexSound,
              Vault, Entry, Present
<1>4. CASE NextHandle
  <2>1. IndexSound'
    BY <1>4 DEF NextHandle, IndexSound, resultVars
  <2>2. UNCHANGED <<path, version, events, pc, listed>> /\ pc = "listing" /\ current = None
    BY <1>4 DEF NextHandle, vaultVars
  <2>3. PICK g \in handles : /\ current' = [file |-> g, path |-> path[g]]
                             /\ handles' = handles \ {g}
                             /\ path[g] # None
    BY <1>4 DEF NextHandle
  <2>4. current'.file = g /\ current'.path = path[g] /\ current' # None /\ g \in Present
    <3>1. g \in Present
      BY <2>3 DEF Present, ScanTypeOK
    <3>. QED BY <2>3, <3>1, CurrentType
  <2>5. ASSUME NEW f \in Present, events = {}
        PROVE  \/ f \in handles' \/ current' = [file |-> f, path |-> path[f]]
               \/ Entry(f) \in listed
    BY <2>2, <2>3, <2>5, CurrentType DEF ListingSound
  <2>6. ListingSound'
    BY <2>2, <2>3, <2>4, <2>5, VaultFrame, CurrentType DEF ListingSound
  <2>. QED BY <2>1, <2>6
<1>5. CASE ReadNote
  <2>1. IndexSound'
    BY <1>5 DEF ReadNote, IndexSound, resultVars, Vault, Entry, Present, vaultVars
  <2>2. /\ UNCHANGED <<path, version, events, pc, handles>>
        /\ current # None /\ current' = None /\ path[current.file] # None
        /\ listed' = listed \cup {[path |-> current.path, file |-> current.file,
                                   version |-> version[current.file]]}
        /\ pc = "listing" /\ current.file \in Files
    BY <1>5 DEF ReadNote, vaultVars, ScanTypeOK
  <2>3. events = {} => listed' = listed \cup {Entry(current.file)} /\ current.file \in Present
    BY <2>2 DEF ListingSound, Entry, Present
  <2>4. \A f \in Files : Entry(f)' = Entry(f) /\ Present' = Present
    BY <2>2 DEF Entry, Present
  <2>5. ASSUME events = {}, NEW f \in Present, current = [file |-> f, path |-> path[f]]
        PROVE  Entry(f) \in listed'
    BY <2>3, <2>5
  <2>. QED BY <2>1, <2>2, <2>3, <2>4, <2>5 DEF ListingSound, Vault, Present
<1>6. CASE Listed
  <2>1. /\ UNCHANGED <<path, version, events, handles, current, listed, indexed>>
        /\ pc = "listing" /\ pc' = "checking" /\ handles = {} /\ current = None
    BY <1>6 DEF Listed, vaultVars, resultVars
  <2>2. events = {} => Vault \subseteq listed /\ listed \subseteq Vault
    BY <2>1, CurrentType DEF ListingSound, Vault
  <2>. QED BY <2>1, <2>2, VaultFrame DEF ListingSound, IndexSound
<1>7. CASE Save \/ SaveFails
  <2>1. /\ UNCHANGED <<path, version, events>>
        /\ pc = "checking" /\ pc' \in {"flushing", "idle"} /\ index' = listed
        /\ pc' = "flushing" => listed' = listed
    BY <1>7 DEF Save, SaveFails, ReplaceIndex, EndScan, vaultVars
  <2>. QED BY <2>1, VaultFrame DEF ListingSound, IndexSound
<1>8. CASE Flushed \/ ListingFails \/ Fail
  <2>1. /\ UNCHANGED <<path, version, events, index, indexed>> /\ pc' = "idle"
        /\ pc \in {"listing", "checking", "flushing"}
    BY <1>8 DEF Flushed, ListingFails, Fail, EndScan, vaultVars, resultVars, ScanTypeOK
  <2>. QED BY <2>1, VaultFrame DEF ListingSound, IndexSound
<1>. QED
  BY <1>1, <1>2, <1>3, <1>4, <1>5, <1>6, <1>7, <1>8, StepKinds DEF UserScan

-----------------------------------------------------------------------------
(* Paths, callers and repairs.                                             *)

\* A listing reads no path twice, whatever is renamed under it.
LEMMA PathsStep ==
  ScanTypeOK /\ ListedUnambiguous /\ PathsUnambiguous /\ [Next]_vars =>
    ListedUnambiguous' /\ PathsUnambiguous'
<1>. SUFFICES ASSUME ScanTypeOK, ListedUnambiguous, PathsUnambiguous, [Next]_vars
              PROVE  ListedUnambiguous' /\ PathsUnambiguous'
  OBVIOUS
<1>1. CASE VaultStep \/ RefusedStep \/ UNCHANGED vars
  BY <1>1, VaultStepQueues DEF RefusedStep, vars, scanVars, resultVars, ListedUnambiguous,
                               PathsUnambiguous
<1>2. ASSUME NEW who, Begin(who) PROVE ListedUnambiguous' /\ PathsUnambiguous'
  BY <1>2 DEF Begin, ListedUnambiguous, PathsUnambiguous
<1>3. CASE NextHandle
  BY <1>3 DEF NextHandle, resultVars, ListedUnambiguous, PathsUnambiguous
<1>4. CASE ReadNote
  <2>1. PathsUnambiguous'
    BY <1>4 DEF ReadNote, resultVars, PathsUnambiguous
  <2>2. PICK n : n.path = current.path /\ listed' = listed \cup {n} /\ current' = None
    BY <1>4 DEF ReadNote
  <2>3. \A e \in listed : e.path # current.path
    BY <1>4 DEF ReadNote, ListedUnambiguous
  <2>. QED BY <2>1, <2>2, <2>3 DEF ListedUnambiguous
<1>5. CASE Listed
  BY <1>5 DEF Listed, resultVars, ListedUnambiguous, PathsUnambiguous
<1>6. CASE Save \/ SaveFails
  BY <1>6 DEF Save, SaveFails, ReplaceIndex, EndScan, ListedUnambiguous, PathsUnambiguous
<1>7. CASE Flushed \/ ListingFails \/ Fail
  BY <1>7 DEF Flushed, ListingFails, Fail, EndScan, resultVars, ListedUnambiguous,
              PathsUnambiguous
<1>. QED BY <1>1, <1>2, <1>3, <1>4, <1>5, <1>6, <1>7, StepKinds DEF UserScan

\* A repair waits for its own scan, and for no other.
LEMMA CallerStep == ScanTypeOK /\ CallerKnown /\ [Next]_vars => CallerKnown'
<1>. SUFFICES ASSUME ScanTypeOK, CallerKnown, [Next]_vars PROVE CallerKnown'
  OBVIOUS
<1>1. CASE VaultStep
  BY <1>1 DEF VaultStep, Modify, Delete, RepairWrites, Create, Rename, Changes, scanVars,
              repairVars, CallerKnown
<1>2. CASE UserScan \/ (Tick /\ Begin("tick"))
  BY <1>2 DEF UserScan, Tick, Begin, CallerKnown
<1>3. CASE Reindex \/ ReindexRefused
  BY <1>3 DEF Reindex, ReindexRefused, Begin, scanVars, CallerKnown
<1>4. CASE RefusedStep /\ Tick
  BY <1>4 DEF RefusedStep, Tick, scanVars, CallerKnown
<1>5. CASE NextHandle \/ ReadNote \/ Listed \/ Save \/ UNCHANGED vars
  BY <1>5 DEF NextHandle, ReadNote, Listed, Save, vars, scanVars, repairVars, CallerKnown,
              ScanTypeOK
<1>6. CASE Flushed \/ ListingFails \/ SaveFails \/ Fail
  BY <1>6 DEF Flushed, ListingFails, SaveFails, Fail, EndScan, Answer, CallerKnown
<1>. QED BY <1>1, <1>2, <1>3, <1>4, <1>5, <1>6, StepKinds, Zenon DEF RefusedStep

\* Versions grow, and no note comes back.
LEMMA VaultGrows ==
  ASSUME ScanTypeOK, VaultStep, NEW f \in Files, NEW v \in Nat, 0 < v, v <= version[f]
  PROVE  v <= version'[f] /\ (path[f] = None => path'[f] = None)
<1>1. path \in [Files -> Paths \cup {None}] /\ version \in [Files -> Nat]
  BY DEF ScanTypeOK
<1>2. CASE \E g \in Files : Modify(g) \/ RepairWrites(g)
  BY <1>1, <1>2 DEF Modify, RepairWrites
<1>3. CASE \E g \in Files : Delete(g)
  BY <1>1, <1>3 DEF Delete
<1>4. CASE \E g \in Files, p \in Paths : Create(g, p)
  BY <1>1, <1>4 DEF Create
<1>5. CASE \E g \in Files, p \in Paths : Rename(g, p)
  BY <1>1, <1>5 DEF Rename, Present
<1>. QED BY <1>2, <1>3, <1>4, <1>5 DEF VaultStep

\* A scan that began after the repair has its notes ahead of it or has read
\* them.
LEMMA RepairStep ==
  ScanTypeOK /\ CallerKnown /\ RepairSeen /\ [Next]_vars => RepairSeen'
<1>. SUFFICES ASSUME ScanTypeOK, CallerKnown, RepairSeen, [Next]_vars PROVE RepairSeen'
  OBVIOUS
<1>0. \A w \in written : w.file \in Files /\ w.version \in Nat
  BY DEF ScanTypeOK
<1>1. CASE VaultStep /\ repairVars' = repairVars
  <2>1. UNCHANGED <<repair, written, pc, handles, current, listed, index>>
    BY <1>1, VaultStepQueues DEF repairVars, scanVars, resultVars
  <2>2. \A w \in written : Later(w)' /\ (path[w.file] = None => path'[w.file] = None)
    BY <1>0, <1>1, VaultGrows DEF RepairSeen, Later
  <2>. QED BY <2>1, <2>2 DEF RepairSeen, SeenIn
<1>2. ASSUME NEW f \in Files, RepairWrites(f) PROVE RepairSeen'
  <2>1. version'[f] \in Nat /\ 0 < version'[f]
    BY <1>2 DEF RepairWrites, ScanTypeOK
  <2>2. written' = {[file |-> f, version |-> version'[f]]} /\ repair' = "written"
    BY <1>2 DEF RepairWrites
  <2>. QED BY <2>1, <2>2 DEF RepairSeen, Later
<1>3. ASSUME NEW who, Begin(who), repair' \in {repair, "reindexing"},
             repair' = "none" => repair = "none"
      PROVE  RepairSeen'
  <2>1. /\ UNCHANGED <<path, version, written, index>>
        /\ pc' = "listing" /\ handles' = {f \in Files : path[f] # None}
    BY <1>3 DEF Begin, Present, vaultVars
  <2>2. \A w \in written : path'[w.file] = None \/ w.file \in handles'
    BY <1>0, <2>1
  <2>3. repair' = "reindexed" => repair = "reindexed"
    BY <1>3
  <2>. QED BY <1>3, <2>1, <2>2, <2>3 DEF RepairSeen, Later, SeenIn
<1>4. CASE RefusedStep
  <2>1. repair' \in {repair, "not-reindexed"}
    BY <1>4, Zenon DEF RefusedStep, Tick, Reindex, ReindexRefused
  <2>2. UNCHANGED <<path, version, written, pc, handles, current, listed, index>>
    BY <1>4 DEF RefusedStep, vaultVars, scanVars, resultVars
  <2>. QED BY <2>1, <2>2 DEF RepairSeen, Later, SeenIn
<1>5. CASE NextHandle
  <2>1. /\ UNCHANGED <<path, version, written, repair, pc, listed, index>>
        /\ pc = "listing" /\ current = None
    BY <1>5 DEF NextHandle, vaultVars, resultVars, repairVars
  <2>2. PICK g \in handles : /\ current' = [file |-> g, path |-> path[g]] /\ path[g] # None
                             /\ handles' = handles \ {g}
    BY <1>5 DEF NextHandle
  <2>3. current'.file = g /\ current' # None
    <3>1. g \in Present
      BY <2>2 DEF Present, ScanTypeOK
    <3>. QED BY <2>2, <3>1, CurrentType
  <2>. QED BY <2>1, <2>2, <2>3 DEF RepairSeen, Later, SeenIn
<1>6. CASE ReadNote
  <2>1. /\ UNCHANGED <<path, version, written, repair, pc, handles, index>> /\ pc = "listing"
    BY <1>6 DEF ReadNote, vaultVars, resultVars, repairVars, ScanTypeOK
  <2>2. PICK n : n.file = current.file /\ n.version = version[current.file]
                 /\ listed' = listed \cup {n}
    BY <1>6 DEF ReadNote
  <2>3. \A w \in written : current.file = w.file => SeenIn(w, listed')
    BY <1>0, <2>2 DEF RepairSeen, Later, SeenIn, ScanTypeOK
  <2>. QED BY <2>1, <2>2, <2>3 DEF RepairSeen, Later, SeenIn
<1>7. CASE Listed
  BY <1>7 DEF Listed, vaultVars, resultVars, repairVars, RepairSeen, Later, SeenIn
<1>8. CASE Save
  BY <1>8 DEF Save, ReplaceIndex, vaultVars, repairVars, RepairSeen, Later, SeenIn
<1>9. CASE SaveFails
  BY <1>9 DEF SaveFails, ReplaceIndex, EndScan, Answer, vaultVars, RepairSeen, Later, SeenIn
<1>10. CASE Flushed
  BY <1>10 DEF Flushed, EndScan, Answer, vaultVars, resultVars, CallerKnown, RepairSeen,
              Later, SeenIn
<1>11. CASE ListingFails \/ Fail
  BY <1>11 DEF ListingFails, Fail, EndScan, Answer, vaultVars, resultVars, RepairSeen, Later, SeenIn
<1>12. CASE UNCHANGED vars
  BY <1>12 DEF vars, vaultVars, scanVars, resultVars, repairVars, RepairSeen, Later, SeenIn
<1>13. VaultStep => repairVars' = repairVars \/ \E f \in Files : RepairWrites(f)
  BY Zenon DEF VaultStep, Modify, Delete, Create, Rename
<1>14. UserScan => RepairSeen'
  BY <1>3 DEF UserScan
<1>15. Tick /\ Begin("tick") => RepairSeen'
  BY <1>3 DEF Tick
<1>16. Reindex /\ Begin("repair") => RepairSeen'
  BY <1>3 DEF Reindex, Begin
<1>. QED
  BY <1>1, <1>2, <1>4, <1>5, <1>6, <1>7, <1>8, <1>9, <1>10, <1>11, <1>12, <1>13, <1>14, <1>15,
     <1>16, StepKinds

-----------------------------------------------------------------------------
(* Theorems.                                                               *)

LEMMA ScanInvariant == Spec => []ScanInv
<1>1. ScanInv /\ [Next]_vars => ScanInv'
  BY ScanTypeStep, NamedStep, SoundStep, PathsStep, CallerStep, RepairStep DEF ScanInv
<1>. QED BY <1>1, ScanInit, PTL DEF Spec

\* Nothing is missed: an index that is up to date with all events is the vault,
\* whatever changed while notes were being read (listFiles and the event queue).
THEOREM NothingMissedSafe == Spec => [](ScanTypeOK /\ NothingMissed)
<1>1. ScanInv => ScanTypeOK /\ NothingMissed
  BY DEF ScanInv, IndexSound, NothingMissed
<1>. QED BY <1>1, ScanInvariant, PTL

\* The vault, its event queue, the reader and the callers of scanVault stay
\* what they are declared to be.
THEOREM ScanTypes == Spec => []ScanTypeOK
<1>1. ScanInv => ScanTypeOK
  BY DEF ScanInv
<1>. QED BY <1>1, ScanInvariant, PTL

\* Renames under a running listing never bring two notes of one path into the
\* index (listFiles' set of paths).
THEOREM PathsUnambiguousSafe == Spec => []PathsUnambiguous
<1>1. ScanInv => PathsUnambiguous
  BY DEF ScanInv
<1>. QED BY <1>1, ScanInvariant, PTL

\* A repair that reports its re-index is in the index, or was overwritten later
\* (approveAndApplyBatch and scanVault's refusal of a second scan).
THEOREM ReindexedIsFreshSafe == Spec => []ReindexedIsFresh
<1>1. ScanInv => ReindexedIsFresh
  BY DEF ScanInv, RepairSeen, SeenIn, ReindexedIsFresh
<1>. QED BY <1>1, ScanInvariant, PTL
==============================================================================
