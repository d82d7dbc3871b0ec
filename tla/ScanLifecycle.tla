---------------------------- MODULE ScanLifecycle ----------------------------
(***************************************************************************)
(* The scans of the plugin (src/main.ts) over the vault reader's event     *)
(* queue (src/vault-adapter/obsidian-reader.ts), with the re-index after a *)
(* repair and the maintenance tick as callers.                             *)
(*                                                                         *)
(* A scan takes the queued vault events, reads one note after the other,   *)
(* checks what it has read, and replaces the index the plugin holds in     *)
(* memory (parsedNotes, activeSnapshot) before it saves the scan and       *)
(* flushes the database.  The vault changes at any moment between.         *)
(*                                                                         *)
(* Abstractions.  A note's content is its file and a version; Obsidian's   *)
(* file handles follow renames.  The order of the reads is left open.  The *)
(* maintenance schedule is enabled and listens to events; its clock and    *)
(* its budget (MaintenanceScheduler) only delay a tick.                    *)
(*                                                                         *)
(* Definitions commented "Faulty:" are mistakes the code does not make;    *)
(* each breaks a property when it replaces the definition it stands before.*)
(***************************************************************************)
EXTENDS Naturals, FiniteSets

CONSTANTS
  Files,        \* notes, as Obsidian's TFile objects
  Paths,        \* vault paths
  None,         \* no path, no file being read
  MaxChanges,   \* bound on the changes of the vault
  MaxFailures   \* bound on the failures of scans

ASSUME ScanAssumption ==
  /\ None \notin Paths
  /\ None \notin [file : Files, path : Paths]
  /\ MaxChanges \in Nat
  /\ MaxFailures \in Nat

VARIABLES
  path,      \* the path of each note, None for one that does not exist
  version,   \* the version of its content
  events,    \* invalidatedEvents, without repetitions
  pc,        \* where the scan is, "idle" when activeScan is false
  caller,    \* who called scanVault
  handles,   \* notes the scan still has to read
  current,   \* the note it is reading, under the path it had when its turn came
  listed,    \* what the scan has read
  taken,     \* the events the scan has taken
  index,     \* parsedNotes, and the notes of activeSnapshot
  renames,   \* recentRenames
  view,      \* the inputs of the latest completed scan in the database
  pendingEvent, \* the schedule's pendingEventAt is defined
  ranOnce,      \* its lastRunAt is defined
  repair,    \* the applied repair whose re-index is asked for
  written,   \* history: what that repair wrote
  indexed,   \* history: the last scan that took events has reached the index
  changes,
  failures

vaultVars    == <<path, version>>
scanVars     == <<pc, caller, handles, current, listed, taken>>
resultVars   == <<index, renames, view, indexed>>
scheduleVars == <<pendingEvent, ranOnce>>
repairVars   == <<repair, written>>
vars == <<vaultVars, events, scanVars, resultVars, scheduleVars, repairVars,
          changes, failures>>

Present == {f \in Files : path[f] # None}
Entry(f) == [path |-> path[f], file |-> f, version |-> version[f]]
Vault == {Entry(f) : f \in Present}

-----------------------------------------------------------------------------
Init ==
  /\ path \in [Files -> Paths \cup {None}]
  /\ \A f, g \in Present : f # g => path[f] # path[g]
  /\ version = [f \in Files |-> 0]
  /\ events = {}
  /\ pc = "idle"
  /\ caller = "none"
  /\ handles = {}
  /\ current = None
  /\ listed = {}
  /\ taken = {}
  /\ index = {}
  /\ renames = {}
  /\ view = {}
  /\ pendingEvent = FALSE
  /\ ranOnce = FALSE
  /\ repair = "none"
  /\ written = {}
  /\ indexed = FALSE
  /\ changes = 0
  /\ failures = 0

\* The two listeners of a vault event: invalidateFile and recordMaintenanceEvent.
Notify(kind, p, old) ==
  /\ events' = events \cup {[kind |-> kind, path |-> p, oldPath |-> old]}
  /\ pendingEvent' = TRUE

Changes(n) ==
  /\ changes + n <= MaxChanges
  /\ changes' = changes + n
  /\ UNCHANGED <<scanVars, resultVars, ranOnce, failures>>

Free(p) == \A f \in Files : path[f] # p

Create(f, p) ==
  /\ path[f] = None
  /\ version[f] = 0
  /\ Free(p)
  /\ path' = [path EXCEPT ![f] = p]
  /\ version' = [version EXCEPT ![f] = 1]
  /\ Notify("create", p, None)
  /\ Changes(1)
  /\ UNCHANGED repairVars

Modify(f) ==
  /\ f \in Present
  /\ version' = [version EXCEPT ![f] = @ + 1]
  /\ Notify("modify", path[f], None)
  /\ Changes(1)
  /\ UNCHANGED <<path, repairVars>>

\* A note that is gone does not come back: another takes its path.
Delete(f) ==
  /\ f \in Present
  /\ path' = [path EXCEPT ![f] = None]
  /\ version' = [version EXCEPT ![f] = @ + 1]
  /\ Notify("delete", path[f], None)
  /\ Changes(1)
  /\ UNCHANGED repairVars

Rename(f, p) ==
  /\ f \in Present
  /\ Free(p)
  /\ path' = [path EXCEPT ![f] = p]
  /\ Notify("rename", p, path[f])
  /\ Changes(1)
  /\ UNCHANGED <<version, repairVars>>

-----------------------------------------------------------------------------
(* Scans.                                                                  *)

\* scanVault up to its first await: with no scan running, the events are taken
\* and the handles of the notes listed in one step.
Begin(who) ==
  /\ pc = "idle"
  /\ pc' = "listing"
  /\ caller' = who
  /\ taken' = events
  /\ events' = {}
  /\ handles' = Present
  /\ listed' = {}
  /\ current' = None
  /\ indexed' = FALSE
  /\ UNCHANGED <<vaultVars, index, renames, view, written, changes>>

\* Without a usable provider or a database nothing is taken.
Refused == failures < MaxFailures /\ failures' = failures + 1

UserScan ==
  /\ Begin("user")
  /\ UNCHANGED <<scheduleVars, repair, failures>>

\* Faulty: the schedule does not remember that it ran.
TickUntimed ==
  /\ pc = "idle"
  /\ pendingEvent \/ ranOnce
  /\ pendingEvent' = FALSE
  /\ \/ Begin("tick") /\ UNCHANGED failures
     \/ Refused /\ UNCHANGED <<vaultVars, events, scanVars, resultVars, written, changes>>
  /\ UNCHANGED <<ranOnce, repair>>

\* runMaintenanceTick, when the debounce or the interval is over.
Tick ==
  /\ pc = "idle"
  /\ pendingEvent \/ ranOnce
  /\ pendingEvent' = FALSE
  /\ ranOnce' = TRUE
  /\ \/ Begin("tick") /\ UNCHANGED failures
     \/ Refused /\ UNCHANGED <<vaultVars, events, scanVars, resultVars, written, changes>>
  /\ UNCHANGED repair

\* Faulty: a path that has been read before is not noticed.
NextHandleAnyPath ==
  /\ pc = "listing"
  /\ current = None
  /\ \E f \in handles :
       /\ path[f] # None
       /\ current' = [file |-> f, path |-> path[f]]
       /\ handles' = handles \ {f}
  /\ UNCHANGED <<vaultVars, events, pc, caller, listed, taken, resultVars,
                 scheduleVars, repairVars, changes, failures>>

\* The path of the next handle is looked up when its turn comes, and must not
\* be one that has been read before.
NextHandle ==
  /\ pc = "listing"
  /\ current = None
  /\ \E f \in handles :
       /\ path[f] # None
       /\ \A e \in listed : e.path # path[f]
       /\ current' = [file |-> f, path |-> path[f]]
       /\ handles' = handles \ {f}
  /\ UNCHANGED <<vaultVars, events, pc, caller, listed, taken, resultVars,
                 scheduleVars, repairVars, changes, failures>>

\* vault.read answers with the content of the note by then.
ReadNote ==
  /\ current # None
  /\ path[current.file] # None
  /\ listed' = listed \cup
       {[path |-> current.path, file |-> current.file, version |-> version[current.file]]}
  /\ current' = None
  /\ UNCHANGED <<vaultVars, events, pc, caller, handles, taken, resultVars,
                 scheduleVars, repairVars, changes, failures>>

\* Faulty: the events that came during the reads are taken as seen.
ListedAnew ==
  /\ pc = "listing"
  /\ handles = {}
  /\ current = None
  /\ pc' = "checking"
  /\ taken' = taken \cup events
  /\ events' = {}
  /\ UNCHANGED <<vaultVars, caller, handles, current, listed, resultVars,
                 scheduleVars, repairVars, changes, failures>>

\* All notes are read; they are parsed, and checked under the policy.
Listed ==
  /\ pc = "listing"
  /\ handles = {}
  /\ current = None
  /\ pc' = "checking"
  /\ UNCHANGED <<vaultVars, events, caller, handles, current, listed, taken, resultVars,
                 scheduleVars, repairVars, changes, failures>>

\* Faulty: what an interrupted listing has read is kept.
EndScanUntidily ==
  /\ pc' = "idle"
  /\ caller' = "none"
  /\ UNCHANGED <<handles, current, listed, taken>>

EndScan ==
  /\ pc' = "idle"
  /\ caller' = "none"
  /\ handles' = {}
  /\ current' = None
  /\ listed' = {}
  /\ taken' = {}

\* approveAndApplyBatch reports whether its re-index ended well.
Answer(result) ==
  repair' = IF caller = "repair" THEN result ELSE repair

ReplaceIndex ==
  /\ index' = listed
  /\ renames' = {[oldPath |-> e.oldPath, path |-> e.path] :
                   e \in {x \in taken : x.kind = "rename"}}
  /\ indexed' = TRUE

\* The session is done: the index is replaced and the scan saved as completed.
Save ==
  /\ pc = "checking"
  /\ ReplaceIndex
  /\ view' = listed
  /\ pc' = "flushing"
  /\ UNCHANGED <<vaultVars, events, caller, handles, current, listed, taken,
                 scheduleVars, repairVars, changes, failures>>

\* saveCompletedScan throws: the saved scan is marked failed.
SaveFails ==
  /\ pc = "checking"
  /\ failures < MaxFailures
  /\ failures' = failures + 1
  /\ ReplaceIndex
  /\ EndScan
  /\ Answer("not-reindexed")
  /\ UNCHANGED <<vaultVars, events, view, scheduleVars, written, changes>>

Flushed ==
  /\ pc = "flushing"
  /\ EndScan
  /\ Answer("reindexed")
  /\ UNCHANGED <<vaultVars, events, resultVars, scheduleVars, written, changes, failures>>

\* A read, the parser, the policy, a provider or the flush fails: scanVault
\* rejects, and the events it has taken are gone.
Fail ==
  /\ pc # "idle"
  /\ failures < MaxFailures
  /\ failures' = failures + 1
  /\ EndScan
  /\ Answer("not-reindexed")
  /\ UNCHANGED <<vaultVars, events, resultVars, scheduleVars, written, changes>>

\* A listing that cannot go on: a note is gone before its turn or while it is
\* read, or two notes were met at one path.
ListingFails ==
  /\ pc = "listing"
  /\ IF current # None
     THEN path[current.file] = None
     ELSE \E f \in handles : path[f] = None \/ \E e \in listed : e.path = path[f]
  /\ EndScan
  /\ Answer("not-reindexed")
  /\ UNCHANGED <<vaultVars, events, resultVars, scheduleVars, written, changes, failures>>

-----------------------------------------------------------------------------
(* The re-index of an applied repair.                                      *)

RepairWrites(f) ==
  /\ repair = "none"
  /\ f \in Present
  /\ version' = [version EXCEPT ![f] = @ + 1]
  /\ written' = {[file |-> f, version |-> version'[f]]}
  /\ repair' = "written"
  /\ Notify("modify", path[f], None)
  /\ Changes(1)
  /\ UNCHANGED path

\* Faulty: a scan that is running already stands in for the re-index.
ReindexByRunningScan ==
  /\ repair = "written"
  /\ IF pc = "idle"
     THEN Begin("repair")
     ELSE /\ caller' = "repair"
          /\ UNCHANGED <<vaultVars, events, pc, handles, current, listed, taken,
                         resultVars, written, changes>>
  /\ repair' = "reindexing"
  /\ UNCHANGED <<scheduleVars, failures>>

\* onReindex: scanVault rejects at once while another scan is running.
Reindex ==
  /\ repair = "written"
  /\ IF pc = "idle"
     THEN Begin("repair") /\ repair' = "reindexing"
     ELSE /\ repair' = "not-reindexed"
          /\ UNCHANGED <<vaultVars, events, scanVars, resultVars, written, changes>>
  /\ UNCHANGED <<scheduleVars, failures>>

ReindexRefused ==
  /\ repair = "written"
  /\ pc = "idle"
  /\ Refused
  /\ repair' = "not-reindexed"
  /\ UNCHANGED <<vaultVars, events, scanVars, resultVars, scheduleVars, written, changes>>

-----------------------------------------------------------------------------
ScanStep == NextHandle \/ ReadNote \/ Listed \/ Save \/ Flushed \/ ListingFails

Next ==
  \/ \E f \in Files : Modify(f) \/ Delete(f) \/ RepairWrites(f)
  \/ \E f \in Files, p \in Paths : Create(f, p) \/ Rename(f, p)
  \/ UserScan \/ Tick \/ ScanStep \/ SaveFails \/ Fail
  \/ Reindex \/ ReindexRefused

Spec == Init /\ [][Next]_vars

\* The awaits of a scan settle, the timer ticks, and an applied repair asks
\* for its re-index.
Fairness == WF_vars(ScanStep) /\ WF_vars(Tick) /\ WF_vars(Reindex)
FairSpec == Spec /\ Fairness

-----------------------------------------------------------------------------
(* Properties.                                                             *)

Kinds == {"create", "modify", "delete", "rename"}
Notes == [path : Paths, file : Files, version : Nat]

\* Every variable stays in its domain, and nothing of a scan outlives it.
ScanTypeOK ==
  /\ path \in [Files -> Paths \cup {None}]
  /\ version \in [Files -> Nat]
  /\ events \subseteq [kind : Kinds, path : Paths, oldPath : Paths \cup {None}]
  /\ pc \in {"idle", "listing", "checking", "flushing"}
  /\ caller \in {"none", "user", "tick", "repair"}
  /\ handles \subseteq Files
  /\ current \in [file : Files, path : Paths] \cup {None}
  /\ listed \subseteq Notes
  /\ taken \subseteq [kind : Kinds, path : Paths, oldPath : Paths \cup {None}]
  /\ index \subseteq Notes
  /\ view \subseteq Notes
  /\ renames \subseteq [oldPath : Paths, path : Paths]
  /\ pendingEvent \in BOOLEAN /\ ranOnce \in BOOLEAN /\ indexed \in BOOLEAN
  /\ repair \in {"none", "written", "reindexing", "reindexed", "not-reindexed"}
  /\ written \subseteq [file : Files, version : Nat]
  /\ changes \in Nat /\ failures \in Nat
  /\ pc = "idle" => caller = "none" /\ listed = {} /\ taken = {}
  /\ pc # "listing" => handles = {} /\ current = None

\* Nothing is missed: when no scan is running, no event is queued and the last
\* scan has reached the index, the index is the vault, whatever was changed,
\* created, renamed or deleted while notes were being read.
NothingMissed ==
  pc = "idle" /\ events = {} /\ indexed => index = Vault

\* The index never holds two notes at one path, although notes may be renamed
\* under a running scan.
PathsUnambiguous ==
  \A d, e \in index : d.path = e.path => d = e

\* A batch that reports it was re-indexed has been: the index holds what the
\* repair wrote, or what became of it later.
ReindexedIsFresh ==
  repair = "reindexed" =>
    \A w \in written :
      \/ \E e \in index : e.file = w.file /\ e.version >= w.version
      \/ path[w.file] = None

\* Externally visible results are tied to a completed scan: a failed scan does
\* not replace the notes the plugin reviews impact and duplicates on.
ResultsOfCompletedScan == index = view

\* The index catches up: once the schedule has met an event or has run, and
\* when the vault has changed for the last time, the index becomes the vault
\* for good, although scans may fail and lose the events they took.
CatchesUp == pendingEvent \/ ranOnce ~> [](index = Vault)
==============================================================================
