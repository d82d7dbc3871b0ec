-------------------------- MODULE RepairPersistence --------------------------
(***************************************************************************)
(* The review workflow over its database file.                             *)
(*                                                                         *)
(* The plugin keeps its SQLite database in memory; the file changes only   *)
(* when flush() writes the whole image of it.  A flush takes the image at  *)
(* once and hands it to the vault adapter, which writes one image after    *)
(* the other, in the order in which they were handed over.  The process    *)
(* may crash, and the plugin may be unloaded and loaded again while calls  *)
(* of the old instance are still running: neither takes back what has      *)
(* already been written into notes.                                        *)
(*                                                                         *)
(* The tables are those of ReviewWorkflow: here they are the ones in       *)
(* memory.  The prepared batch is the one way of the user interface to     *)
(* write.  A batch is prepared from the scan the plugin holds in memory,   *)
(* and scan, finding and proposal ids are new with every scan: a loaded    *)
(* plugin neither prepares nor applies a proposal of an earlier instance.  *)
(***************************************************************************)
EXTENDS ReviewWorkflow, SequencesExt

CONSTANTS
  Stops,     \* how the plugin may stop: "crash", "reload"
  MaxStops,  \* bound on the number of stops
  MaxWrites  \* bound on the images being written at once

ASSUME StopsAssumption ==
  Stops \subseteq {"crash", "reload"} /\ MaxStops \in Nat /\ MaxWrites \in Nat

VARIABLES
  up,      \* the plugin is loaded
  born,    \* the instance that prepared each proposal, 0 for none yet
  disk,    \* the image in the database file
  writes,  \* the images on their way to the file
  owed,    \* calls that have returned and whose flush has not begun
  orphans, \* calls of an instance that has been unloaded
  stops    \* number of stops so far

diskVars == <<up, born, disk, writes, owed, orphans, stops>>
allVars  == <<vars, diskVars>>

Image == [status |-> status, trail |-> trail]

\* Two operations edit the same characters of a note.
Overlap(a, b) == a.path = b.path /\ a.start < b.end /\ b.start < a.end

Instance == stops + 1

Running(c) == pc[c] \in Active \cup {"reindexing"}

\* Faulty: one of the tables is exported.
FlushProposals == Len(writes) < MaxWrites /\ writes' = Append(writes, [status |-> status'])

\* flush(): the database is exported at once and written later.  Last in an
\* action: the image is that of the tables after it.
Flush == Len(writes) < MaxWrites /\ writes' = Append(writes, Image')

-----------------------------------------------------------------------------
PersistInit ==
  /\ Init
  /\ up = TRUE
  /\ born = [p \in Proposals |-> 0]
  /\ disk = Image
  /\ writes = <<>>
  /\ owed = {}
  /\ orphans = {}
  /\ stops = 0

\* The rows of a prepared repair are flushed later, at the end of the
\* preparation.  A repair is prepared for defects the notes still have.
Prepare(p) ==
  /\ up
  /\ born[p] = 0
  /\ \A o \in OpsOf({p}) : \A a \in note[o.path].ops : ~Overlap(a, o)
  /\ SaveProposal(p)
  /\ born' = [born EXCEPT ![p] = Instance]
  /\ UNCHANGED <<up, disk, writes, owed, orphans, stops>>

\* A call that returns leaves its caller a flush to begin.
OweFlush(c) ==
  owed' = IF pc'[c] = "done" THEN owed \cup {c} ELSE owed

\* A batch is offered once the flush that ends its preparation is in the file.
Request(c) ==
  /\ up
  /\ \E b \in Batches :
       /\ \A p \in Range(b) : born[p] = Instance /\ disk.status[p] # "absent"
       /\ RefuseBatch(c, b) \/ StartBatch(c, b)
  /\ OweFlush(c)
  /\ UNCHANGED <<up, born, disk, writes, orphans, stops>>

Proceed(c) ==
  /\ up
  /\ c \notin orphans
  /\ CallStep(c)
  /\ OweFlush(c)
  /\ UNCHANGED <<up, born, disk, writes, orphans, stops>>

\* Faulty: the result of a call stays in memory.
FlushNothing(c) ==
  /\ up
  /\ c \in owed
  /\ owed' = owed \ {c}
  /\ UNCHANGED <<vars, up, born, disk, writes, orphans, stops>>

FlushResult(c) ==
  /\ up
  /\ c \in owed
  /\ owed' = owed \ {c}
  /\ UNCHANGED <<vars, up, born, disk, orphans, stops>>
  /\ Flush

\* The flush of another operation: a preparation, a scan, feedback.
FlushOther ==
  /\ up
  /\ UNCHANGED <<vars, up, born, disk, owed, orphans, stops>>
  /\ Flush

\* The adapter finishes the oldest of its writes.
Land ==
  /\ writes # <<>>
  /\ disk' = Head(writes)
  /\ writes' = Tail(writes)
  /\ UNCHANGED <<vars, up, born, owed, orphans, stops>>

-----------------------------------------------------------------------------
\* The process dies with everything in its memory.
Crash ==
  /\ "crash" \in Stops
  /\ stops < MaxStops
  /\ up
  /\ up' = FALSE
  /\ stops' = stops + 1
  /\ writes' = <<>>
  /\ owed' = {}
  /\ orphans' = {}
  /\ pc' = [c \in Calls |-> IF Running(c) THEN "done" ELSE pc[c]]
  /\ UNCHANGED <<proposalVars, note, kind, batch, got, done, stuck, aborted,
                 outcome, userVars, born, disk>>

\* onunload begins a flush it does not wait for; the promises of running
\* calls go on, but their flushes find no database.
Unload ==
  /\ "reload" \in Stops
  /\ stops < MaxStops
  /\ up
  /\ up' = FALSE
  /\ stops' = stops + 1
  /\ owed' = {}
  /\ orphans' = orphans \cup {c \in Calls : Running(c)}
  /\ UNCHANGED <<vars, born, disk>>
  /\ Flush

\* onload reads the file, recovers interrupted scans (no proposal changes),
\* and writes what it has read.
Load ==
  /\ ~up
  /\ up' = TRUE
  /\ status' = disk.status
  /\ trail' = disk.trail
  /\ UNCHANGED <<source, note, callVars, userVars, born, disk, owed, orphans, stops>>
  /\ Flush

\* A call of an unloaded instance writes on into the vault.  Its own tables
\* are on no way to the file any more; whether they can still be updated
\* depends on when the old database is closed.
OrphanWrites(c) ==
  /\ c \in orphans
  /\ \/ WriteFails(c)
     \/ \E n \in Notes :
          Read(c, n) \/ Write(c, n) \/ Rollback(c, n) \/ RollbackFails(c, n)
  /\ UNCHANGED diskVars

OrphanPasses(c) ==
  /\ c \in orphans
  /\ pc[c] = "reading"
  /\ AllRead(c)
  /\ AllCurrent(c)
  /\ pc' = [pc EXCEPT ![c] = "writing"]
  /\ UNCHANGED <<proposalVars, note, kind, batch, got, done, stuck, aborted,
                 outcome, userVars, diskVars>>

OrphanEnds(c) ==
  /\ c \in orphans
  /\ \/ pc[c] \in {"reading", "reindexing"}
     \/ pc[c] = "writing" /\ PathsOf(batch[c]) \subseteq done[c]
     \/ pc[c] = "rolling" /\ done[c] = {}
  /\ pc' = [pc EXCEPT ![c] = "done"]
  /\ orphans' = orphans \ {c}
  /\ UNCHANGED <<proposalVars, note, kind, batch, got, done, stuck, aborted,
                 outcome, userVars, up, born, disk, writes, owed, stops>>

Edit ==
  /\ \E n \in Notes, t \in Texts : \E kept \in SUBSET note[n].ops : UserEdit(n, t, kept)
  /\ UNCHANGED diskVars

-----------------------------------------------------------------------------
PersistNext ==
  \/ \E p \in Proposals : Prepare(p)
  \/ \E c \in Calls : Request(c) \/ Proceed(c) \/ FlushResult(c)
  \/ FlushOther \/ Land \/ Crash \/ Unload \/ Load
  \/ \E c \in Calls : OrphanWrites(c) \/ OrphanPasses(c) \/ OrphanEnds(c)
  \/ Edit

PersistSpec == PersistInit /\ [][PersistNext]_allVars

-----------------------------------------------------------------------------
(* Properties.                                                             *)

\* Every variable stays in its domain.
PersistTypeOK ==
  /\ TypeOK
  /\ up \in BOOLEAN
  /\ born \in [Proposals -> 0..(MaxStops + 1)]
  /\ disk \in [status : [Proposals -> Status], trail : [Proposals -> Seq(Actions)]]
  /\ writes \in Seq([status : [Proposals -> Status], trail : [Proposals -> Seq(Actions)]])
  /\ owed \subseteq Calls
  /\ orphans \subseteq Calls
  /\ stops \in 0..MaxStops

\* No defect is repaired twice over: a note never holds two repairs of the
\* same characters, although a repair a crash or a reload cut off is prepared
\* anew for what the notes still need, and a call of the old instance may
\* still be writing.
NoDoubleRepair ==
  \A n \in Notes : \A a, b \in note[n].ops : a # b => ~Overlap(a, b)

\* When no call is running and every flush has reached the file, the file
\* holds each decision and each result: nothing is left to lose.
AtRestRecorded ==
  up /\ writes = <<>> /\ owed = {} /\ (\A c \in Calls : ~Running(c)) =>
    \A p \in Proposals :
      status[p] \notin {"absent", "pending"} =>
        disk.status[p] = status[p] /\ disk.trail[p] = trail[p]

\* The file never says "applied" of a repair the notes do not hold whole,
\* but for what the user took out: a crash loses results, it invents none.
DiskAppliedIsWhole ==
  \A p \in Proposals :
    disk.status[p] = "applied" => \A o \in OpsOf({p}) : InVault(o) \/ o \in reverted

\* Approval actions are append-only records: an approval row that has reached
\* the file stays there.  Of every instance but one that is loaded while an
\* image of the unloaded one is still on its way: it may have read the file
\* before that image landed, and writes what it has read behind it.
ApprovalsAppendOnly ==
  [][\A p \in Proposals : IsPrefix(disk.trail[p], disk'.trail[p])]_allVars

\* An interrupted apply requires explicit recovery: a repair that is in the
\* notes and that no call is working on is applied or asks for recovery.
InterruptedNeedsRecovery ==
  up => \A p \in Proposals :
    Landed(p) # {} /\ (\A c \in Calls : Running(c) => p \notin batch[c]) =>
      status[p] \in {"applied", "recovery-required"}
=============================================================================
