---------------------------- MODULE ArtifactStore ----------------------------
(***************************************************************************)
(* ArtifactStore: the files of a run's artifacts folder and the ledger     *)
(* that records their digests and locks.  Every operation runs under an    *)
(* advisory file lock and an owner directory; a write keeps copies of what *)
(* it replaces in a transaction directory, from which the next operation   *)
(* of any process takes an interrupted one back.                           *)
(*                                                                         *)
(* A digest is the content it is of.  A step is one replacement, link or   *)
(* unlink of a file; it may raise with its effect done or undone.          *)
(***************************************************************************)
EXTENDS Naturals

CONSTANTS
    Procs,      \* the threads that use the store, each with an instance of its own
    Paths,      \* artifact paths
    Contents,   \* what a file may hold
    Faults,     \* kinds of fault that may happen
    MaxFaults,  \* bound: faults in one behaviour
    MaxEdits,   \* bound: edits of others in one behaviour
    None

FaultKinds == {"kill", "interrupt", "disk"}

ASSUME ArtifactStoreAssumption ==
    /\ Faults \subseteq FaultKinds
    /\ MaxFaults \in Nat
    /\ MaxEdits \in Nat
    /\ None \notin Contents

VARIABLES
    artifact,   \* per path: the file's content, or None
    ledger,     \* artifact-ledger.json, or None
    tx,         \* .artifact-ledger.transaction, or None
    flock,      \* who holds .artifact-ledger.advisory.lock
    lockDir,    \* .artifact-ledger.lock: its owner and reclaim claim, or None
    pc,         \* per process: where it stands
    request,    \* per process: the call it is in, or None
    local,      \* per process: the variables of that call
    answer,     \* per process: what it is about to answer
    count       \* faults and edits so far

disk == <<artifact, ledger, tx>>
locks == <<flock, lockDir>>
vars == <<disk, locks, pc, request, local, answer, count>>

-----------------------------------------------------------------------------
Record == [sha256 : Contents, locked : BOOLEAN]
Ledger == [Paths -> Record \cup {None}]
EmptyLedger == [path \in Paths |-> None]

\* pending.json, artifact.before and ledger.before; None: not there.
Marker == [path : Paths, had : BOOLEAN]
Transaction == [marker : Marker \cup {None}, before : Contents \cup {None}, ledger : Ledger \cup {None}]
EmptyTransaction == [marker |-> None, before |-> None, ledger |-> None]

\* The pid in an owner file: a live process, a dead one, or no owner file yet.
Owner == Procs \cup {"dead", "nobody"}
Live(owner) == owner \in Procs
LockDirectory == [owner : Owner, claim : Owner \cup {None}]

ASSUME OwnerAssumption ==
    /\ Procs \cap {"dead", "nobody"} = {}
    /\ None \notin Procs
    /\ None \notin LockDirectory

Request ==
    [op : {"open", "verify"}]
        \cup [op : {"write"}, path : Paths, content : Contents, lock : BOOLEAN]

\* None is none of the values it stands in for.
ASSUME NoneAssumption ==
    /\ None \notin Ledger
    /\ None \notin Transaction
    /\ None \notin Marker
    /\ None \notin Request
    /\ None \notin {"ok", "error"}

\* stage: recovering what another call left, writing, or rolling back.
Local == [stage : {"before", "write", "rollback"}, had : BOOLEAN, records : Ledger \cup {None}]
NoLocal == [stage |-> "before", had |-> FALSE, records |-> None]

Outside == {"down", "idle"}
Locking == {"flock", "mkdir", "owner", "claim", "claimOwner", "quarantine"}
Critical == {"recover", "restore", "restoreLedger", "sweep", "create", "verify", "begin",
             "backupLedger", "backupArtifact", "mark", "install", "record", "commit"}
PCs == Outside \cup Locking \cup Critical \cup {"unlock"}

TypeOK ==
    /\ artifact \in [Paths -> Contents \cup {None}]
    /\ ledger \in Ledger \cup {None}
    /\ tx \in Transaction \cup {None}
    /\ flock \in Procs \cup {None}
    /\ lockDir \in LockDirectory \cup {None}
    /\ pc \in [Procs -> PCs]
    /\ request \in [Procs -> Request \cup {None}]
    /\ local \in [Procs -> Local]
    /\ answer \in [Procs -> {"ok", "error", None}]
    /\ count \in [faults : 0 .. MaxFaults, edits : 0 .. MaxEdits]

Init ==
    /\ artifact = [path \in Paths |-> None]
    /\ ledger = None
    /\ tx = None
    /\ flock = None
    /\ lockDir = None
    /\ pc = [p \in Procs |-> "down"]
    /\ request = [p \in Procs |-> None]
    /\ local = [p \in Procs |-> NoLocal]
    /\ answer = [p \in Procs |-> None]
    /\ count = [faults |-> 0, edits |-> 0]

-----------------------------------------------------------------------------
At(p, step) == pc[p] = step
Goto(p, step) == pc' = [pc EXCEPT ![p] = step]
Answer(p, a) == answer' = [answer EXCEPT ![p] = a]
Fault(kind) ==
    /\ kind \in Faults
    /\ count.faults < MaxFaults
    /\ count' = [count EXCEPT !.faults = @ + 1]

\* An exception that leaves the body: the lock is released on the way out.
Fail(p) ==
    /\ Goto(p, "unlock")
    /\ Answer(p, "error")
    /\ UNCHANGED local

\* _write's except clause takes the transaction back before it raises again.
Raise(p) ==
    IF local[p].stage = "write"
    THEN /\ Goto(p, "recover")
         /\ local' = [local EXCEPT ![p].stage = "rollback"]
         /\ UNCHANGED answer
    ELSE Fail(p)

\* After a step on the disk: on to the next, or an exception although the
\* effect is there (the fsync or the check behind the replacement raised).
Then(p, next) ==
    \/ Goto(p, next) /\ UNCHANGED <<local, answer, count>>
    \/ Fault("disk") /\ Raise(p)

Finish(p, a) ==
    /\ Goto(p, "unlock")
    /\ Answer(p, a)
    /\ UNCHANGED <<local, count>>

\* The call ends; a constructor that raised leaves no store.
Return(p, a) ==
    /\ Goto(p, IF a = "error" /\ request[p].op = "open" THEN "down" ELSE "idle")
    /\ request' = [request EXCEPT ![p] = None]
    /\ answer' = [answer EXCEPT ![p] = None]
    /\ local' = [local EXCEPT ![p] = NoLocal]

-----------------------------------------------------------------------------
\* ArtifactStore(root), then write_json, write_text and verify_locked of it.
Call(p) ==
    /\ \/ At(p, "down") /\ request' = [request EXCEPT ![p] = [op |-> "open"]]
       \/ /\ At(p, "idle")
          /\ \/ request' = [request EXCEPT ![p] = [op |-> "verify"]]
             \/ \E path \in Paths, c \in Contents, l \in BOOLEAN :
                   request' = [request EXCEPT ![p] =
                                  [op |-> "write", path |-> path, content |-> c, lock |-> l]]
    /\ Goto(p, "flock")
    /\ UNCHANGED <<disk, locks, local, answer, count>>

\* _advisory_transaction_lock: the lock at once, or an error after 30 seconds.
Flock(p) ==
    /\ At(p, "flock")
    /\ flock = None
    /\ flock' = p
    /\ Goto(p, "mkdir")
    /\ UNCHANGED <<disk, lockDir, request, local, answer, count>>

FlockTimesOut(p) ==
    /\ At(p, "flock")
    /\ flock # None
    /\ Return(p, "error")
    /\ UNCHANGED <<disk, locks, count>>

\* The body is left before it began: the advisory lock goes, the directory stays.
GiveUp(p, dir) ==
    /\ flock' = None
    /\ lockDir' = dir
    /\ Return(p, "error")
    /\ UNCHANGED disk

\* An owner directory of a live process is waited for, in vain if nobody else
\* may enter; a dead owner's, or one that stays without owner, is reclaimed.

\* Mutant: an abandoned directory is entered as if it were one's own.
Mkdir_Enter(p) ==
    /\ At(p, "mkdir")
    /\ \/ /\ lockDir = None
          /\ lockDir' = [owner |-> "nobody", claim |-> None]
          /\ Goto(p, "owner")
          /\ UNCHANGED <<disk, flock, request, local, answer>>
       \/ /\ lockDir # None
          /\ IF Live(lockDir.owner)
             THEN GiveUp(p, lockDir)
             ELSE Goto(p, "recover") /\ UNCHANGED <<disk, locks, request, local, answer>>
    /\ UNCHANGED count
Mkdir(p) ==
    /\ At(p, "mkdir")
    /\ \/ /\ lockDir = None
          /\ lockDir' = [owner |-> "nobody", claim |-> None]
          /\ Goto(p, "owner")
          /\ UNCHANGED <<disk, flock, request, local, answer>>
       \/ /\ lockDir # None
          /\ IF Live(lockDir.owner)
             THEN GiveUp(p, lockDir)
             ELSE Goto(p, "claim") /\ UNCHANGED <<disk, locks, request, local, answer>>
    /\ UNCHANGED count

\* Making the lock directory, or a claim, raises.
LockFails(p) ==
    /\ pc[p] \in {"mkdir", "claim"}
    /\ Fault("disk")
    /\ GiveUp(p, lockDir)

\* A failed owner file takes its directory along.
WriteOwner(p) ==
    /\ At(p, "owner")
    /\ \/ /\ lockDir' = [lockDir EXCEPT !.owner = p]
          /\ Goto(p, "recover")
          /\ UNCHANGED <<disk, flock, request, local, answer, count>>
       \/ Fault("disk") /\ GiveUp(p, None)

\* _reclaim_abandoned_lock: one reclaimer at a time; the claim of a dead one is
\* moved out of the way first (_reclaim_abandoned_claim).
Claim(p) ==
    /\ At(p, "claim")
    /\ IF lockDir.claim # None /\ Live(lockDir.claim)
       THEN GiveUp(p, lockDir)
       ELSE /\ lockDir' = [lockDir EXCEPT !.claim = IF @ = None THEN "nobody" ELSE None]
            /\ Goto(p, IF lockDir.claim = None THEN "claimOwner" ELSE "claim")
            /\ UNCHANGED <<disk, flock, request, local, answer>>
    /\ UNCHANGED count

ClaimOwner(p) ==
    /\ At(p, "claimOwner")
    /\ \/ /\ lockDir' = [lockDir EXCEPT !.claim = p]
          /\ Goto(p, "quarantine")
          /\ UNCHANGED <<disk, flock, request, local, answer, count>>
       \/ Fault("disk") /\ GiveUp(p, [lockDir EXCEPT !.claim = None])

\* The directory is renamed away; one that cannot be is tried again.

\* Mutant: a failed reclaimer leaves its claim behind.
Quarantine_KeepClaim(p) ==
    /\ At(p, "quarantine")
    /\ \/ lockDir' = None /\ UNCHANGED count
       \/ Fault("disk") /\ UNCHANGED lockDir
    /\ Goto(p, "mkdir")
    /\ UNCHANGED <<disk, flock, request, local, answer>>
Quarantine(p) ==
    /\ At(p, "quarantine")
    /\ \/ lockDir' = None /\ UNCHANGED count
       \/ Fault("disk") /\ lockDir' = [lockDir EXCEPT !.claim = None]
    /\ Goto(p, "mkdir")
    /\ UNCHANGED <<disk, flock, request, local, answer>>

-----------------------------------------------------------------------------
\* What the caller of the recovery does next.
Operation(p) ==
    CASE request[p].op = "open" -> "create"
      [] request[p].op = "verify" -> "verify"
      [] OTHER -> "begin"

\* The recovery, or the write's own cleanup, is through.
Resolved(p) ==
    CASE local[p].stage = "before" -> Goto(p, Operation(p)) /\ UNCHANGED <<local, answer, count>>
      [] local[p].stage = "write" -> Finish(p, "ok")
      [] OTHER -> Fail(p) /\ UNCHANGED count

\* _recover_transaction: no marker, nothing was replaced.
Recover(p) ==
    /\ At(p, "recover")
    /\ IF tx = None THEN Resolved(p)
       ELSE /\ Goto(p, IF tx.marker = None THEN "sweep" ELSE "restore")
            /\ UNCHANGED <<local, answer, count>>
    /\ UNCHANGED <<disk, locks, request>>

\* A backup the marker promises and nobody finds is an error that stays.
BackupMissing(p) ==
    /\ \/ At(p, "restore") /\ tx.marker.had /\ tx.before = None
       \/ At(p, "restoreLedger") /\ tx.ledger = None
    /\ Fail(p)
    /\ UNCHANGED <<disk, locks, request, count>>


\* Mutant: an artifact that is new is not removed again.
Restore_Keep(p) ==
    /\ At(p, "restore")
    /\ tx.marker.had => tx.before # None
    /\ artifact' = [artifact EXCEPT ![tx.marker.path] = IF tx.marker.had THEN tx.before ELSE @]
    /\ Goto(p, "restoreLedger")
    /\ UNCHANGED <<ledger, tx, locks, request, local, answer, count>>

\* The artifact as the marker says it was.
Restore(p) ==
    /\ At(p, "restore")
    /\ tx.marker.had => tx.before # None
    /\ artifact' = [artifact EXCEPT ![tx.marker.path] = IF tx.marker.had THEN tx.before ELSE None]
    /\ \/ Goto(p, "restoreLedger") /\ UNCHANGED <<local, answer, count>>
       \/ Fault("disk") /\ Fail(p)
    /\ UNCHANGED <<ledger, tx, locks, request>>

RestoreLedger(p) ==
    /\ At(p, "restoreLedger")
    /\ tx.ledger # None
    /\ ledger' = tx.ledger
    /\ \/ Goto(p, "sweep") /\ UNCHANGED <<local, answer, count>>
       \/ Fault("disk") /\ Fail(p)
    /\ UNCHANGED <<artifact, tx, locks, request>>

\* _remove_transaction_directory: the files in whatever order the directory
\* lists them, then the directory.
Sweep(p) ==
    /\ At(p, "sweep")
    /\ IF tx = EmptyTransaction
       THEN /\ tx' = None
            /\ \/ Resolved(p)
               \/ Fault("disk") /\ Raise(p)
       ELSE /\ \E file \in DOMAIN tx :
                  tx[file] # None /\ tx' = [tx EXCEPT ![file] = None]
            /\ Goto(p, "sweep")
            /\ UNCHANGED <<local, answer, count>>
    /\ UNCHANGED <<artifact, ledger, locks, request>>

-----------------------------------------------------------------------------
\* The constructor creates the ledger the first time.
Create(p) ==
    /\ At(p, "create")
    /\ ledger' = IF ledger = None THEN EmptyLedger ELSE ledger
    /\ \/ Finish(p, "ok")
       \/ Fault("disk") /\ Fail(p)
    /\ UNCHANGED <<artifact, tx, locks, request>>

\* verify_locked: no locked artifact has changed.
LockedUntouched ==
    \A path \in Paths :
        ledger[path] # None /\ ledger[path].locked => artifact[path] = ledger[path].sha256

VerifyLocked(p) ==
    /\ At(p, "verify")
    /\ Finish(p, IF LockedUntouched THEN "ok" ELSE "error")
    /\ UNCHANGED <<disk, locks, request>>

Overwritable(path) == ledger[path] = None \/ ~ledger[path].locked

\* The directory is made outside the try: no rollback if that raises.
Begin(p) ==
    /\ At(p, "begin")
    /\ IF ~Overwritable(request[p].path)
       THEN Finish(p, "error") /\ UNCHANGED tx
       ELSE /\ tx' = EmptyTransaction
            /\ \/ /\ Goto(p, "backupLedger")
                  /\ local' = [local EXCEPT ![p].stage = "write", ![p].records = ledger]
                  /\ UNCHANGED <<answer, count>>
               \/ Fault("disk") /\ Fail(p)
    /\ UNCHANGED <<artifact, ledger, locks, request>>

BackupLedger(p) ==
    /\ At(p, "backupLedger")
    /\ tx' = [tx EXCEPT !.ledger = ledger]
    /\ Then(p, "backupArtifact")
    /\ UNCHANGED <<artifact, ledger, locks, request>>

BackupArtifact(p) ==
    /\ At(p, "backupArtifact")
    /\ tx' = [tx EXCEPT !.before = artifact[request[p].path]]
    /\ \/ /\ Goto(p, "mark")
          /\ local' = [local EXCEPT ![p].had = artifact[request[p].path] # None]
          /\ UNCHANGED <<answer, count>>
       \/ Fault("disk") /\ Raise(p)
    /\ UNCHANGED <<artifact, ledger, locks, request>>

\* The new content is staged outside the store, then pending.json written.

\* Mutant: pending.json does not say whether there was an artifact.
Mark_PathOnly(p) ==
    /\ At(p, "mark")
    /\ tx' = [tx EXCEPT !.marker = [path |-> request[p].path]]
    /\ Then(p, "install")
    /\ UNCHANGED <<artifact, ledger, locks, request>>
Mark(p) ==
    /\ At(p, "mark")
    /\ tx' = [tx EXCEPT !.marker = [path |-> request[p].path, had |-> local[p].had]]
    /\ Then(p, "install")
    /\ UNCHANGED <<artifact, ledger, locks, request>>

Install(p) ==
    /\ At(p, "install")
    /\ artifact' = [artifact EXCEPT ![request[p].path] = request[p].content]
    /\ Then(p, "record")
    /\ UNCHANGED <<ledger, tx, locks, request>>

RecordArtifact(p) ==
    /\ At(p, "record")
    /\ ledger' = [local[p].records EXCEPT ![request[p].path] =
                     [sha256 |-> request[p].content, locked |-> request[p].lock]]
    /\ Then(p, "commit")
    /\ UNCHANGED <<artifact, tx, locks, request>>

\* Unlinking pending.json commits the write.
Commit(p) ==
    /\ At(p, "commit")
    /\ tx' = [tx EXCEPT !.marker = None]
    /\ Then(p, "sweep")
    /\ UNCHANGED <<artifact, ledger, locks, request>>

\* A step raises before it has done anything.
StepFails(p) ==
    /\ pc[p] \in Critical
    /\ Fault("disk")
    /\ Raise(p)
    /\ UNCHANGED <<disk, locks, request>>

\* The owner directory is removed if it is still this call's, file first; what
\* cannot be removed stays, and the call raises.
Unlock(p) ==
    /\ At(p, "unlock")
    /\ \/ /\ lockDir' = IF lockDir # None /\ lockDir.owner = p THEN None ELSE lockDir
          /\ Return(p, answer[p])
          /\ UNCHANGED count
       \/ /\ Fault("disk")
          /\ lockDir # None
          /\ lockDir' \in {lockDir, [lockDir EXCEPT !.owner = "nobody"]}
          /\ Return(p, "error")
    /\ flock' = IF flock = p THEN None ELSE flock
    /\ UNCHANGED disk

-----------------------------------------------------------------------------
\* A KeyboardInterrupt passes the except clause by: the lock is released, the
\* transaction stays; while locking or unlocking, the owner directory may too.
Interrupt(p) ==
    /\ Fault("interrupt")
    /\ \/ At(p, "flock") /\ Return(p, "error") /\ UNCHANGED <<disk, locks>>
       \/ /\ pc[p] \in Locking \ {"flock"}
          /\ GiveUp(p, IF pc[p] \in {"claimOwner", "quarantine"}
                       THEN [lockDir EXCEPT !.claim = None] ELSE lockDir)
       \/ pc[p] \in Critical /\ Fail(p) /\ UNCHANGED <<disk, locks, request>>
       \/ /\ At(p, "unlock")
          /\ lockDir # None
          /\ \E owner \in {lockDir.owner, "nobody"} : GiveUp(p, [lockDir EXCEPT !.owner = owner])

\* The system drops a dead process's file lock; its directory and claim stay.
Kill(p) ==
    /\ ~At(p, "down")
    /\ Fault("kill")
    /\ Goto(p, "down")
    /\ flock' = IF flock = p THEN None ELSE flock
    /\ IF lockDir = None THEN UNCHANGED lockDir
       ELSE \E owner \in IF lockDir.owner # p THEN {lockDir.owner}
                         ELSE IF At(p, "unlock") THEN {"dead", "nobody"} ELSE {"dead"} :
               lockDir' = [owner |-> owner, claim |-> IF lockDir.claim = p THEN "dead" ELSE lockDir.claim]
    /\ request' = [request EXCEPT ![p] = None]
    /\ answer' = [answer EXCEPT ![p] = None]
    /\ local' = [local EXCEPT ![p] = NoLocal]
    /\ UNCHANGED disk

\* Somebody edits or removes an artifact while no write is under way.
Edit(path) ==
    /\ count.edits < MaxEdits
    /\ count' = [count EXCEPT !.edits = @ + 1]
    /\ tx = None
    /\ \E c \in Contents \cup {None} : c # artifact[path] /\ artifact' = [artifact EXCEPT ![path] = c]
    /\ UNCHANGED <<ledger, tx, locks, pc, request, local, answer>>

-----------------------------------------------------------------------------
LockStep(p) ==
    \/ Flock(p) \/ FlockTimesOut(p) \/ Mkdir(p) \/ WriteOwner(p)
    \/ Claim(p) \/ ClaimOwner(p) \/ Quarantine(p) \/ LockFails(p) \/ Unlock(p)

StoreStep(p) ==
    \/ Recover(p) \/ BackupMissing(p) \/ Restore(p) \/ RestoreLedger(p) \/ Sweep(p)
    \/ Create(p) \/ VerifyLocked(p) \/ Begin(p) \/ BackupLedger(p) \/ BackupArtifact(p)
    \/ Mark(p) \/ Install(p) \/ RecordArtifact(p) \/ Commit(p) \/ StepFails(p)

Next ==
    \/ \E p \in Procs : Call(p) \/ LockStep(p) \/ StoreStep(p) \/ Interrupt(p) \/ Kill(p)
    \/ \E path \in Paths : Edit(path)

Spec == Init /\ [][Next]_vars
-----------------------------------------------------------------------------
\* One process at a time works on the store, and the owner directory says who:
\* whatever is reclaimed, interrupted, killed or left behind meanwhile
\* (_transaction_lock, _reclaim_abandoned_lock, _reclaim_abandoned_claim).
OneTransaction ==
    \A p \in Procs : pc[p] \in Critical =>
        /\ lockDir # None /\ lockDir.owner = p
        /\ \A q \in Procs \ {p} : pc[q] \notin Critical

\* The store is atomic through every fault: an artifact under an open marker
\* counts as the one the recovery restores, and so does the ledger; a write
\* has been done once its marker is gone.
Marked == tx # None /\ tx.marker # None
RestoredArtifact(path) ==
    IF Marked /\ tx.marker.path = path /\ tx.marker.had /\ tx.before # None THEN tx.before
    ELSE IF Marked /\ tx.marker.path = path /\ ~tx.marker.had THEN None
    ELSE artifact[path]
RestoredLedger ==
    IF Marked /\ tx.ledger # None THEN tx.ledger
    ELSE IF ledger = None THEN EmptyLedger ELSE ledger
SettledAnswer(p) ==
    IF local[p].stage = "rollback" THEN "error"
    ELSE IF At(p, "sweep") /\ local[p].stage = "write" THEN "ok"
    ELSE answer[p]
Atomic == INSTANCE AtomicArtifacts WITH
    content <- [path \in Paths |-> RestoredArtifact(path)],
    records <- RestoredLedger,
    edits <- count.edits,
    answer <- [p \in Procs |-> SettledAnswer(p)]
ImplementsAtomic == Atomic!Spec

\* Nobody waits in vain for a reclaimer: the claim of a live process is that of
\* one that is reclaiming, however earlier reclaimers failed or died; the
\* advisory lock of a live process is that of one in a call.
ClaimInUse ==
    /\ lockDir # None /\ lockDir.claim \in Procs => pc[lockDir.claim] = "quarantine"
    /\ flock # None => pc[flock] \notin Outside \cup {"flock"}

\* docs/ENFORCEMENT_MATRIX.md: an interrupted replacement is recoverable, from
\* the prior artifact and the prior ledger: they are there while the marker is.
RecoverableWhileMarked ==
    Marked => tx.ledger # None /\ (tx.marker.had => tx.before # None)
=============================================================================
