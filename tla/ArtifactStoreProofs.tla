------------------------- MODULE ArtifactStoreProofs -------------------------
(***************************************************************************)
(* That the artifact store has one transaction at a time, and that it is   *)
(* atomic: it implements AtomicArtifacts.  Proved for every number of      *)
(* processes, paths and faults.                                            *)
(*                                                                         *)
(* What a process may find in the lock directory depends on how far every  *)
(* other one got before it failed or died.  HolderInv says who is allowed  *)
(* to look: exactly the holder of the advisory lock is past it; DirInv what*)
(* the directory holds at each of its steps; ClaimInv that a claim nobody  *)
(* alive works on is never taken for a live one.                           *)
(***************************************************************************)
EXTENDS ArtifactStore, TLAPS

Past == (Locking \ {"flock"}) \cup Critical \cup {"unlock"}

\* Exactly the process that is past the advisory lock holds it.
HolderInv == \A p \in Procs : pc[p] \in Past <=> flock = p

\* The owner directory is there while it is made or reclaimed, and this
\* process's from the owner file on.
DirInv ==
    \A p \in Procs :
        /\ pc[p] \in {"owner", "claim", "claimOwner", "quarantine"} => lockDir # None
        /\ pc[p] \in Critical \cup {"unlock"} => lockDir # None /\ lockDir.owner = p

ClaimInv == lockDir # None /\ lockDir.claim \in Procs => pc[lockDir.claim] = "quarantine"

LockTypes ==
    /\ pc \in [Procs -> PCs]
    /\ flock \in Procs \cup {None}
    /\ lockDir \in LockDirectory \cup {None}

LockInv == LockTypes /\ HolderInv /\ DirInv /\ ClaimInv

\* The steps of the operations proper leave the locks alone and stay under them.
Works(p) ==
    /\ pc[p] \in Critical
    /\ \E step \in Critical \cup {"unlock"} : pc' = [pc EXCEPT ![p] = step]
    /\ UNCHANGED locks
-----------------------------------------------------------------------------
\* An exception leads to the rollback or out of the body.
LEMMA RaiseWorks ==
    ASSUME NEW p \in Procs, Raise(p)
    PROVE  \E step \in Critical \cup {"unlock"} : pc' = [pc EXCEPT ![p] = step]
BY DEF Raise, Fail, Goto, Critical

\* After the recovery comes the operation, or the end of the call.
LEMMA ResolvedWorks ==
    ASSUME NEW p \in Procs, Resolved(p)
    PROVE  \E step \in Critical \cup {"unlock"} : pc' = [pc EXCEPT ![p] = step]
<1>1. CASE local[p].stage = "before"
  <2>1. Operation(p) \in Critical
    BY DEF Operation, Critical
  <2> QED
    BY <1>1, <2>1 DEF Resolved, Goto
<1>2. CASE local[p].stage # "before"
  BY <1>2 DEF Resolved, Finish, Fail, Goto
<1> QED
  BY <1>1, <1>2

\* Every step of an operation is one under the locks.
LEMMA StoreStepWorks ==
    ASSUME NEW p \in Procs, StoreStep(p)
    PROVE  Works(p)
<1>1. CASE Recover(p)
  <2>1. pc[p] \in Critical /\ UNCHANGED locks
    BY <1>1 DEF Recover, At, Critical
  <2>2. CASE tx = None
    BY <1>1, <2>1, <2>2, ResolvedWorks DEF Recover, Works
  <2>3. CASE tx # None
    BY <1>1, <2>1, <2>3 DEF Recover, Works, Goto, Critical
  <2> QED
    BY <2>2, <2>3
<1>2. CASE BackupMissing(p)
  BY <1>2 DEF BackupMissing, Works, At, Fail, Goto, Critical
<1>3. CASE Restore(p)
  BY <1>3 DEF Restore, Works, At, Fail, Goto, Critical, locks
<1>4. CASE RestoreLedger(p)
  BY <1>4 DEF RestoreLedger, Works, At, Fail, Goto, Critical, locks
<1>5. CASE Sweep(p)
  <2>1. pc[p] \in Critical /\ UNCHANGED locks
    BY <1>5 DEF Sweep, At, Critical
  <2>2. CASE tx = EmptyTransaction
    BY <1>5, <2>1, <2>2, ResolvedWorks, RaiseWorks DEF Sweep, Works
  <2>3. CASE tx # EmptyTransaction
    BY <1>5, <2>1, <2>3 DEF Sweep, Works, Goto, Critical
  <2> QED
    BY <2>2, <2>3
<1>6. CASE Create(p)
  BY <1>6 DEF Create, Works, At, Finish, Fail, Goto, Critical, locks
<1>7. CASE VerifyLocked(p)
  BY <1>7 DEF VerifyLocked, Works, At, Finish, Goto, Critical, locks
<1>8. CASE Begin(p)
  BY <1>8 DEF Begin, Works, At, Finish, Fail, Goto, Critical, locks
<1>9. CASE BackupLedger(p) \/ BackupArtifact(p) \/ Mark(p) \/ Install(p) \/ RecordArtifact(p) \/ Commit(p)
  <2>1. pc[p] \in Critical /\ UNCHANGED locks
    BY <1>9 DEF BackupLedger, BackupArtifact, Mark, Install, RecordArtifact, Commit, At, Critical
  <2>2. \/ Raise(p)
        \/ \E step \in Critical : Goto(p, step)
    BY <1>9 DEF BackupLedger, BackupArtifact, Mark, Install, RecordArtifact, Commit, Then, Critical
  <2> QED
    BY <2>1, <2>2, RaiseWorks DEF Works, Goto
<1>10. CASE StepFails(p)
  BY <1>10, RaiseWorks DEF StepFails, Works
<1> QED
  BY <1>1, <1>2, <1>3, <1>4, <1>5, <1>6, <1>7, <1>8, <1>9, <1>10 DEF StoreStep
-----------------------------------------------------------------------------
\* The locks start free.
LEMMA LockInit == Init => LockInv
BY OwnerAssumption
   DEF Init, LockInv, LockTypes, HolderInv, DirInv, ClaimInv, PCs, Past, Outside, Locking, Critical

\* Whatever is done under the lock keeps the lock.
LEMMA WorksKeepsLocks ==
    ASSUME LockInv, NEW p \in Procs, Works(p)
    PROVE  LockInv'
<1> USE DEF LockInv, Works, locks
<1>1. PICK step \in Critical \cup {"unlock"} : pc' = [pc EXCEPT ![p] = step]
  BY DEF Works
<1>2. LockTypes'
  BY <1>1 DEF LockTypes, PCs
<1>3. HolderInv'
  BY <1>1 DEF HolderInv, Past, LockTypes
<1>4. DirInv'
  BY <1>1 DEF DirInv, LockTypes, Critical
<1>5. ClaimInv'
  BY <1>1 DEF ClaimInv, LockTypes, Critical
<1> QED
  BY <1>2, <1>3, <1>4, <1>5

\* A call that leaves the lock stage behind: the advisory lock is free again.
LEMMA GiveUpKeepsLocks ==
    ASSUME LockInv, NEW p \in Procs, flock = p,
           NEW dir \in LockDirectory \cup {None},
           dir # None /\ dir.claim \in Procs => pc[dir.claim] = "quarantine" /\ dir.claim # p,
           flock' = None, lockDir' = dir,
           \E step \in Outside : pc' = [pc EXCEPT ![p] = step]
    PROVE  LockInv'
<1> USE DEF LockInv
<1>1. PICK step \in Outside : pc' = [pc EXCEPT ![p] = step]
  OBVIOUS
<1>2. LockTypes'
  BY <1>1 DEF LockTypes, PCs
<1>3. \A q \in Procs : pc'[q] \notin Past
  BY <1>1 DEF LockTypes, HolderInv, Past, Outside, Locking, Critical
<1>4. HolderInv'
  BY <1>3, OwnerAssumption DEF HolderInv
<1>5. DirInv'
  BY <1>3 DEF DirInv, Past, Locking
<1>6. ClaimInv'
  BY <1>1 DEF ClaimInv, LockTypes
<1> QED
  BY <1>2, <1>4, <1>5, <1>6

\* Only the holder of the advisory lock is at any step past it.
LEMMA OthersOutside ==
    ASSUME LockInv, NEW p \in Procs, flock = p
    PROVE  \A q \in Procs \ {p} : pc[q] \notin Past
BY DEF LockInv, HolderInv

\* A claim of the process that holds the lock is being worked on by it.
LEMMA ClaimOfHolder ==
    ASSUME LockInv, NEW p \in Procs, flock = p, lockDir # None, lockDir.claim \in Procs
    PROVE  lockDir.claim = p /\ pc[p] = "quarantine"
BY OthersOutside DEF LockInv, ClaimInv, Past, Locking

\* Entering and leaving the lock, one step at a time.
LEMMA LockStepKeepsLocks ==
    ASSUME LockInv, NEW p \in Procs, LockStep(p)
    PROVE  LockInv'
<1> USE DEF LockInv
<1>a. ASSUME pc[p] \in Past PROVE flock = p
  BY <1>a DEF HolderInv
<1>b. ASSUME pc[p] \in Past PROVE \A q \in Procs \ {p} : pc[q] \notin Past
  BY <1>a, <1>b, OthersOutside
<1>c. Past = {"mkdir", "owner", "claim", "claimOwner", "quarantine", "unlock"} \cup Critical
  BY DEF Past, Locking
<1>1. CASE Flock(p)
  <2>1. pc' = [pc EXCEPT ![p] = "mkdir"] /\ flock' = p /\ lockDir' = lockDir /\ flock = None /\ pc[p] = "flock"
    BY <1>1 DEF Flock, At, Goto
  <2>2. LockTypes' /\ HolderInv'
    BY <2>1, OwnerAssumption DEF LockTypes, HolderInv, PCs, Past, Locking
  <2>3. DirInv' /\ ClaimInv'
    BY <2>1 DEF DirInv, ClaimInv, LockTypes, Critical
  <2> QED
    BY <2>2, <2>3
<1>2. CASE FlockTimesOut(p)
  <2>1. /\ \E step \in Outside : pc' = [pc EXCEPT ![p] = step]
        /\ flock' = flock /\ lockDir' = lockDir /\ pc[p] = "flock"
    BY <1>2 DEF FlockTimesOut, At, Return, Goto, Outside, locks
  <2>2. LockTypes' /\ HolderInv'
    BY <2>1 DEF LockTypes, HolderInv, PCs, Past, Locking, Outside, Critical
  <2>3. DirInv' /\ ClaimInv'
    BY <2>1 DEF DirInv, ClaimInv, LockTypes, Critical, Outside
  <2> QED
    BY <2>2, <2>3
<1>3. CASE Mkdir(p)
  <2>0. pc[p] = "mkdir" /\ flock = p
    BY <1>3, <1>a, <1>c DEF Mkdir, At
  <2>1. CASE lockDir = None
    <3>1. /\ lockDir' = [owner |-> "nobody", claim |-> None]
          /\ pc' = [pc EXCEPT ![p] = "owner"] /\ flock' = flock
      BY <1>3, <2>1 DEF Mkdir, Goto
    <3>2. lockDir' \in LockDirectory
      BY <3>1 DEF LockDirectory, Owner
    <3>3. LockTypes' /\ HolderInv'
      BY <3>1, <3>2, <2>0, <1>c DEF LockTypes, HolderInv, PCs, Locking
    <3>4. DirInv' /\ ClaimInv'
      BY <3>1, <3>2, <2>0, <1>b, <1>c, OwnerAssumption DEF DirInv, ClaimInv, LockTypes, Critical
    <3> QED
      BY <3>3, <3>4
  <2>2. CASE lockDir # None /\ Live(lockDir.owner)
    <3>1. GiveUp(p, lockDir)
      BY <1>3, <2>2 DEF Mkdir
    <3>2. lockDir.claim \in Procs => pc[lockDir.claim] = "quarantine" /\ lockDir.claim # p
      BY <2>0, <2>2, ClaimOfHolder
    <3> QED
      BY <3>1, <3>2, <2>0, <2>2, GiveUpKeepsLocks DEF GiveUp, Return, Goto, Outside, LockTypes
  <2>3. CASE lockDir # None /\ ~Live(lockDir.owner)
    <3>1. pc' = [pc EXCEPT ![p] = "claim"] /\ flock' = flock /\ lockDir' = lockDir
      BY <1>3, <2>3 DEF Mkdir, Goto, locks
    <3>2. LockTypes' /\ HolderInv'
      BY <3>1, <2>0, <1>c DEF LockTypes, HolderInv, PCs, Locking
    <3>3. DirInv' /\ ClaimInv'
      BY <3>1, <2>0, <2>3 DEF DirInv, ClaimInv, LockTypes, Critical
    <3> QED
      BY <3>2, <3>3
  <2> QED
    BY <2>1, <2>2, <2>3
<1>4. CASE LockFails(p)
  <2>0. pc[p] \in {"mkdir", "claim"} /\ flock = p /\ GiveUp(p, lockDir)
    BY <1>4, <1>a, <1>c DEF LockFails
  <2>1. lockDir # None /\ lockDir.claim \in Procs => pc[lockDir.claim] = "quarantine" /\ lockDir.claim # p
    BY <2>0, ClaimOfHolder
  <2> QED
    BY <2>0, <2>1, GiveUpKeepsLocks DEF GiveUp, Return, Goto, Outside, LockTypes
<1>5. CASE WriteOwner(p)
  <2>0. pc[p] = "owner" /\ flock = p /\ lockDir # None
    BY <1>5, <1>a, <1>c DEF WriteOwner, At, DirInv
  <2>1. CASE GiveUp(p, None)
    BY <2>0, <2>1, GiveUpKeepsLocks DEF GiveUp, Return, Goto, Outside
  <2>2. CASE ~GiveUp(p, None)
    <3>1. /\ lockDir' = [lockDir EXCEPT !.owner = p]
          /\ pc' = [pc EXCEPT ![p] = "recover"] /\ flock' = flock
      BY <1>5, <2>2 DEF WriteOwner, Goto
    <3>2. lockDir' \in LockDirectory /\ lockDir'.owner = p /\ lockDir'.claim = lockDir.claim
      BY <3>1, <2>0 DEF LockTypes, LockDirectory, Owner
    <3>3. LockTypes' /\ HolderInv'
      BY <3>1, <3>2, <2>0, <1>c DEF LockTypes, HolderInv, PCs, Critical
    <3>4. DirInv'
      BY <3>1, <3>2, <2>0, <1>b, <1>c, OwnerAssumption DEF DirInv, LockTypes, Critical
    <3>5. ClaimInv'
      BY <3>1, <3>2, <2>0, ClaimOfHolder DEF ClaimInv, LockTypes
    <3> QED
      BY <3>3, <3>4, <3>5
  <2> QED
    BY <2>1, <2>2
<1>6. CASE Claim(p)
  <2>0. pc[p] = "claim" /\ flock = p /\ lockDir # None
    BY <1>6, <1>a, <1>c DEF Claim, At, DirInv
  <2>1. ~(lockDir.claim # None /\ Live(lockDir.claim))
    BY <2>0, ClaimOfHolder DEF Live
  <2>2. /\ lockDir' = [lockDir EXCEPT !.claim = IF @ = None THEN "nobody" ELSE None]
        /\ pc' = [pc EXCEPT ![p] = IF lockDir.claim = None THEN "claimOwner" ELSE "claim"]
        /\ flock' = flock
    BY <1>6, <2>1 DEF Claim, Goto
  <2>3. lockDir' \in LockDirectory /\ lockDir'.claim \in {"nobody", None}
    BY <2>0, <2>2 DEF LockTypes, LockDirectory, Owner
  <2>4. LockTypes' /\ HolderInv'
    BY <2>0, <2>2, <2>3, <1>c DEF LockTypes, HolderInv, PCs, Locking
  <2>5. DirInv' /\ ClaimInv'
    BY <2>0, <2>2, <2>3, <1>b, <1>c, OwnerAssumption DEF DirInv, ClaimInv, LockTypes, Critical
  <2> QED
    BY <2>4, <2>5
<1>7. CASE ClaimOwner(p)
  <2>0. pc[p] = "claimOwner" /\ flock = p /\ lockDir # None
    BY <1>7, <1>a, <1>c DEF ClaimOwner, At, DirInv
  <2>1. CASE GiveUp(p, [lockDir EXCEPT !.claim = None])
    <3>1. [lockDir EXCEPT !.claim = None] \in LockDirectory
      BY <2>0 DEF LockTypes, LockDirectory
    <3>2. [lockDir EXCEPT !.claim = None].claim = None
      BY <2>0 DEF LockTypes, LockDirectory
    <3> QED
      BY <2>0, <2>1, <3>1, <3>2, GiveUpKeepsLocks, OwnerAssumption DEF GiveUp, Return, Goto, Outside
  <2>2. CASE ~GiveUp(p, [lockDir EXCEPT !.claim = None])
    <3>1. /\ lockDir' = [lockDir EXCEPT !.claim = p]
          /\ pc' = [pc EXCEPT ![p] = "quarantine"] /\ flock' = flock
      BY <1>7, <2>2 DEF ClaimOwner, Goto
    <3>2. lockDir' \in LockDirectory /\ lockDir'.claim = p
      BY <3>1, <2>0 DEF LockTypes, LockDirectory, Owner
    <3>3. LockTypes' /\ HolderInv'
      BY <3>1, <3>2, <2>0, <1>c DEF LockTypes, HolderInv, PCs, Locking
    <3>4. DirInv' /\ ClaimInv'
      BY <3>1, <3>2, <2>0, <1>b, <1>c, OwnerAssumption DEF DirInv, ClaimInv, LockTypes, Critical
    <3> QED
      BY <3>3, <3>4
  <2> QED
    BY <2>1, <2>2
<1>8. CASE Quarantine(p)
  <2>0. pc[p] = "quarantine" /\ flock = p /\ lockDir # None
    BY <1>8, <1>a, <1>c DEF Quarantine, At, DirInv
  <2>1. /\ lockDir' = None \/ lockDir' = [lockDir EXCEPT !.claim = None]
        /\ pc' = [pc EXCEPT ![p] = "mkdir"] /\ flock' = flock
    BY <1>8 DEF Quarantine, Goto
  <2>2. lockDir' = None \/ (lockDir' \in LockDirectory /\ lockDir'.claim = None)
    BY <2>0, <2>1 DEF LockTypes, LockDirectory
  <2>3. LockTypes' /\ HolderInv'
    BY <2>0, <2>1, <2>2, <1>c DEF LockTypes, HolderInv, PCs, Locking
  <2>4. DirInv' /\ ClaimInv'
    BY <2>0, <2>1, <2>2, <1>b, <1>c, OwnerAssumption DEF DirInv, ClaimInv, LockTypes, Critical
  <2> QED
    BY <2>3, <2>4
<1>9. CASE Unlock(p)
  <2>0. pc[p] = "unlock" /\ flock = p /\ lockDir # None /\ lockDir.owner = p
    BY <1>9, <1>a, <1>c DEF Unlock, At, DirInv
  <2>1. /\ lockDir' \in {None, lockDir, [lockDir EXCEPT !.owner = "nobody"]}
        /\ flock' = None
        /\ \E step \in Outside : pc' = [pc EXCEPT ![p] = step]
    BY <1>9, <2>0 DEF Unlock, Return, Goto, Outside
  <2>2. /\ lockDir' \in LockDirectory \cup {None}
        /\ lockDir' # None => lockDir'.claim = lockDir.claim
    BY <2>0, <2>1 DEF LockTypes, LockDirectory, Owner
  <2>3. lockDir.claim \notin Procs
    BY <2>0, ClaimOfHolder
  <2> QED
    BY <2>0, <2>1, <2>2, <2>3, GiveUpKeepsLocks
<1> QED
  BY <1>1, <1>2, <1>3, <1>4, <1>5, <1>6, <1>7, <1>8, <1>9 DEF LockStep

\* An interrupt lets go of the advisory lock, or keeps what release needs.
LEMMA InterruptKeepsLocks ==
    ASSUME LockInv, NEW p \in Procs, Interrupt(p)
    PROVE  LockInv'
<1> USE DEF LockInv
<1>1. CASE At(p, "flock")
  <2>1. /\ \E step \in Outside : pc' = [pc EXCEPT ![p] = step]
        /\ flock' = flock /\ lockDir' = lockDir /\ pc[p] = "flock"
    BY <1>1 DEF Interrupt, At, Return, Goto, Outside, locks, Locking, Critical
  <2>2. LockTypes' /\ HolderInv'
    BY <2>1 DEF LockTypes, HolderInv, PCs, Past, Locking, Outside, Critical
  <2>3. DirInv' /\ ClaimInv'
    BY <2>1 DEF DirInv, ClaimInv, LockTypes, Critical, Outside
  <2> QED
    BY <2>2, <2>3
<1>2. CASE pc[p] \in Locking \ {"flock"}
  <2>0. flock = p
    BY <1>2 DEF HolderInv, Past
  <2>1. GiveUp(p, IF pc[p] \in {"claimOwner", "quarantine"}
                  THEN [lockDir EXCEPT !.claim = None] ELSE lockDir)
    BY <1>2 DEF Interrupt, At, Locking, Critical
  <2>2. CASE pc[p] \in {"claimOwner", "quarantine"}
    <3>1. lockDir # None
      BY <2>2 DEF DirInv
    <3>2. [lockDir EXCEPT !.claim = None] \in LockDirectory
      BY <3>1 DEF LockTypes, LockDirectory
    <3>3. [lockDir EXCEPT !.claim = None].claim = None
      BY <3>1 DEF LockTypes, LockDirectory
    <3> QED
      BY <2>0, <2>1, <2>2, <3>2, <3>3, GiveUpKeepsLocks, OwnerAssumption DEF GiveUp, Return, Goto, Outside
  <2>3. CASE pc[p] \notin {"claimOwner", "quarantine"}
    <3>1. lockDir # None /\ lockDir.claim \in Procs => pc[lockDir.claim] = "quarantine" /\ lockDir.claim # p
      BY <2>0, <2>3, ClaimOfHolder
    <3> QED
      BY <2>0, <2>1, <2>3, <3>1, GiveUpKeepsLocks DEF GiveUp, Return, Goto, Outside, LockTypes
  <2> QED
    BY <2>2, <2>3
<1>3. CASE pc[p] \in Critical
  <2>1. Works(p)
    BY <1>3 DEF Interrupt, Works, At, Fail, Goto, Locking, Critical
  <2> QED
    BY <2>1, WorksKeepsLocks
<1>4. CASE At(p, "unlock")
  <2>0. pc[p] = "unlock" /\ flock = p /\ lockDir # None
    BY <1>4 DEF At, HolderInv, DirInv, Past
  <2>1. PICK owner \in {lockDir.owner, "nobody"} : GiveUp(p, [lockDir EXCEPT !.owner = owner])
    BY <2>0 DEF Interrupt, At, Locking, Critical
  <2>2. [lockDir EXCEPT !.owner = owner] \in LockDirectory
    BY <2>0 DEF LockTypes, LockDirectory, Owner
  <2>3. [lockDir EXCEPT !.owner = owner].claim = lockDir.claim
    BY <2>0 DEF LockTypes, LockDirectory
  <2>4. lockDir.claim \notin Procs
    BY <2>0, ClaimOfHolder
  <2> QED
    BY <2>0, <2>1, <2>2, <2>3, <2>4, GiveUpKeepsLocks DEF GiveUp, Return, Goto, Outside
<1> QED
  BY <1>1, <1>2, <1>3, <1>4 DEF Interrupt

\* A dead process holds nothing, and its owner file and claim are marked dead.
LEMMA KillKeepsLocks ==
    ASSUME LockInv, NEW p \in Procs, Kill(p)
    PROVE  LockInv'
<1> USE DEF LockInv
<1>1. pc' = [pc EXCEPT ![p] = "down"] /\ flock' = IF flock = p THEN None ELSE flock
  BY DEF Kill, Goto
<1>2. LockTypes' /\ \A q \in Procs : lockDir # None /\ lockDir.owner = q /\ q # p => lockDir'.owner = q
  <2>1. CASE lockDir = None
    BY <1>1, <2>1 DEF Kill, LockTypes, PCs, Outside
  <2>2. CASE lockDir # None
    <3>1. PICK owner \in IF lockDir.owner # p THEN {lockDir.owner}
                         ELSE IF At(p, "unlock") THEN {"dead", "nobody"} ELSE {"dead"} :
             lockDir' = [owner |-> owner, claim |-> IF lockDir.claim = p THEN "dead" ELSE lockDir.claim]
      BY <2>2 DEF Kill
    <3> QED
      BY <1>1, <2>2, <3>1 DEF LockTypes, LockDirectory, Owner, PCs, Outside
  <2> QED
    BY <2>1, <2>2
<1>3. /\ lockDir # None <=> lockDir' # None
      /\ lockDir' # None /\ lockDir'.claim \in Procs => lockDir'.claim = lockDir.claim /\ lockDir.claim # p
  <2>1. CASE lockDir = None
    BY <2>1 DEF Kill
  <2>2. CASE lockDir # None
    <3>1. PICK owner \in Owner :
             lockDir' = [owner |-> owner, claim |-> IF lockDir.claim = p THEN "dead" ELSE lockDir.claim]
      BY <2>2 DEF Kill, LockTypes, LockDirectory, Owner
    <3>2. lockDir' \in LockDirectory
      BY <3>1, <2>2 DEF LockTypes, LockDirectory, Owner
    <3> QED
      BY <2>2, <3>1, <3>2, OwnerAssumption
  <2> QED
    BY <2>1, <2>2
<1>4. HolderInv'
  BY <1>1, OwnerAssumption DEF LockTypes, HolderInv, Past, Locking, Critical
<1>5. DirInv'
  BY <1>1, <1>2, <1>3 DEF DirInv, LockTypes, Critical
<1>6. ClaimInv'
  BY <1>1, <1>3 DEF ClaimInv, LockTypes
<1> QED
  BY <1>2, <1>4, <1>5, <1>6

LEMMA LockStepNext == LockInv /\ [Next]_vars => LockInv'
<1> SUFFICES ASSUME LockInv, [Next]_vars PROVE LockInv'
  OBVIOUS
<1>1. CASE UNCHANGED vars
  BY <1>1 DEF vars, locks, LockInv, LockTypes, HolderInv, DirInv, ClaimInv
<1>2. ASSUME NEW p \in Procs, Call(p) PROVE LockInv'
  <2>1. /\ pc[p] \in Outside /\ pc' = [pc EXCEPT ![p] = "flock"]
        /\ flock' = flock /\ lockDir' = lockDir
    BY <1>2 DEF Call, At, Goto, Outside, locks
  <2>2. LockTypes' /\ HolderInv'
    BY <2>1 DEF LockInv, LockTypes, HolderInv, PCs, Past, Locking, Outside, Critical
  <2>3. DirInv' /\ ClaimInv'
    BY <2>1 DEF LockInv, DirInv, ClaimInv, LockTypes, Critical, Outside
  <2> QED
    BY <2>2, <2>3 DEF LockInv
<1>3. ASSUME NEW p \in Procs, LockStep(p) PROVE LockInv'
  BY <1>3, LockStepKeepsLocks
<1>4. ASSUME NEW p \in Procs, StoreStep(p) PROVE LockInv'
  BY <1>4, StoreStepWorks, WorksKeepsLocks
<1>5. ASSUME NEW p \in Procs, Interrupt(p) PROVE LockInv'
  BY <1>5, InterruptKeepsLocks
<1>6. ASSUME NEW p \in Procs, Kill(p) PROVE LockInv'
  BY <1>6, KillKeepsLocks
<1>7. ASSUME NEW path \in Paths, Edit(path) PROVE LockInv'
  BY <1>7 DEF Edit, locks, LockInv, LockTypes, HolderInv, DirInv, ClaimInv
<1> QED
  BY <1>1, <1>2, <1>3, <1>4, <1>5, <1>6, <1>7 DEF Next

\* The invariant of the locks, for every number of processes and of faults.
THEOREM LockInvariant == Spec => []LockInv
<1>1. LockInv /\ [Next]_vars => LockInv'
  BY LockStepNext
<1> QED
  BY LockInit, <1>1, PTL DEF Spec

\* One process at a time works on the store, under its own owner directory,
\* whatever is reclaimed, interrupted, killed or left behind meanwhile.
THEOREM OneTransactionHolds == Spec => []OneTransaction
<1>1. LockInv => OneTransaction
  BY DEF LockInv, DirInv, OneTransaction
<1> QED
  BY LockInvariant, <1>1, PTL

\* Nobody waits in vain for a claim, or for the advisory lock.
THEOREM ClaimInUseHolds == Spec => []ClaimInUse
<1>1. LockInv => ClaimInUse
  <2> SUFFICES ASSUME LockInv PROVE ClaimInUse
    OBVIOUS
  <2>1. flock # None => pc[flock] \in Past
    BY DEF LockInv, LockTypes, HolderInv
  <2> QED
    BY <2>1 DEF LockInv, ClaimInv, ClaimInUse, Past, Locking, Critical, Outside
<1> QED
  BY LockInvariant, <1>1, PTL

-----------------------------------------------------------------------------
(* The store implements AtomicArtifacts.  StepInv says what the transaction *)
(* directory, the artifact and the ledger hold at each step of the process  *)
(* that works on them, so that whatever an exception or a crash leaves is   *)
(* what the recovery takes it for.                                          *)

DiskTypes ==
    /\ artifact \in [Paths -> Contents \cup {None}]
    /\ ledger \in Ledger \cup {None}
    /\ tx \in Transaction \cup {None}

CountTypes == count \in [faults : 0 .. MaxFaults, edits : 0 .. MaxEdits]

CallTypes ==
    /\ request \in [Procs -> Request \cup {None}]
    /\ local \in [Procs -> Local]
    /\ answer \in [Procs -> {"ok", "error", None}]

\* A call that is under way has a request, and an answer once it is through.
CallOf(p) ==
    /\ pc[p] \in Outside <=> request[p] = None
    /\ pc[p] = "unlock" <=> answer[p] # None
    /\ pc[p] \in Outside \cup Locking => local[p].stage = "before"
    /\ local[p].stage # "before" => request[p] # None /\ request[p].op = "write"
CallInv == CallTypes /\ \A p \in Procs : CallOf(p)

\* Only a constructor meets a run without a ledger, and it leaves one.
LedgerInv ==
    ledger = None =>
        /\ tx = None
        /\ \A p \in Procs :
              /\ pc[p] # "idle"
              /\ request[p] # None => request[p].op = "open"
              /\ answer[p] # "ok"

\* What the recovery would make of the files is what they are.
RestoredArtifacts == \A path \in Paths : RestoredArtifact(path) = artifact[path]
Restored == RestoredArtifacts /\ (Marked /\ tx.ledger # None => ledger = tx.ledger)

Writing == {"backupLedger", "backupArtifact", "mark", "install", "record", "commit"}

\* Each step of a write: what it has copied, marked and replaced so far.
WriteOf(p) ==
    /\ tx # None
    /\ local[p].stage = "write"
    /\ local[p].records \in Ledger
    /\ local[p].records[request[p].path] = None \/ ~local[p].records[request[p].path].locked
    /\ ledger = IF pc[p] = "commit"
                THEN [local[p].records EXCEPT ![request[p].path] =
                         [sha256 |-> request[p].content, locked |-> request[p].lock]]
                ELSE local[p].records
    /\ pc[p] # "backupLedger" => tx.ledger = local[p].records
    /\ pc[p] \notin {"backupLedger", "backupArtifact"} => (local[p].had <=> tx.before # None)
    /\ pc[p] \in {"mark", "install"} => artifact[request[p].path] = tx.before
    /\ pc[p] \in {"record", "commit"} => artifact[request[p].path] = request[p].content
    /\ tx.marker = IF pc[p] \in {"install", "record", "commit"}
                   THEN [path |-> request[p].path, had |-> local[p].had]
                   ELSE None

StepOf(p) ==
    /\ pc[p] \in {"create", "verify", "begin"} =>
          /\ tx = None
          /\ local[p].stage = "before"
          /\ pc[p] = Operation(p)
    /\ pc[p] \in {"recover", "restore", "restoreLedger"} => local[p].stage # "write"
    /\ pc[p] \in {"restore", "restoreLedger"} => Marked
    /\ pc[p] = "restoreLedger" => RestoredArtifacts
    /\ pc[p] = "sweep" => tx # None /\ Restored
    /\ pc[p] \in Writing => WriteOf(p)
StepInv == \A p \in Procs : StepOf(p)

DataInv == LockInv /\ DiskTypes /\ CountTypes /\ CallInv /\ LedgerInv /\ StepInv
-----------------------------------------------------------------------------
\* The store starts in its invariant.
LEMMA DataInit == Init => DataInv
<1> SUFFICES ASSUME Init PROVE DataInv
  OBVIOUS
<1>1. LockInv
  BY LockInit
<1>2. DiskTypes /\ CountTypes
  BY ArtifactStoreAssumption DEF Init, DiskTypes, CountTypes
<1>3. CallInv
  BY NoneAssumption DEF Init, CallInv, CallTypes, CallOf, Local, NoLocal, Outside
<1>4. LedgerInv
  BY NoneAssumption DEF Init, LedgerInv
<1>5. StepInv
  BY DEF Init, StepInv, StepOf, Writing
<1> QED
  BY <1>1, <1>2, <1>3, <1>4, <1>5 DEF DataInv

\* What a write asks for.
LEMMA WriteRequest ==
    ASSUME CallTypes, NEW p \in Procs, request[p] # None, request[p].op = "write"
    PROVE  /\ request[p].path \in Paths
           /\ request[p].content \in Contents
           /\ request[p].lock \in BOOLEAN
BY DEF CallTypes, Request

\* A fault is counted within its bound and is not an edit.
LEMMA FaultCounted ==
    ASSUME CountTypes, NEW kind, Fault(kind)
    PROVE  CountTypes' /\ count'.edits = count.edits
BY ArtifactStoreAssumption DEF CountTypes, Fault

\* While one process works under the lock, StepInv is about that one alone.
LEMMA StepAlone ==
    ASSUME LockInv, NEW p \in Procs, pc[p] \in Past,
           NEW step \in PCs, pc' = [pc EXCEPT ![p] = step],
           StepOf(p)'
    PROVE  StepInv'
<1>1. flock = p
  BY DEF LockInv, HolderInv
<1>2. SUFFICES ASSUME NEW q \in Procs, q # p PROVE StepOf(q)'
  BY DEF StepInv
<1>3. pc'[q] \notin Past
  BY <1>1, <1>2, OthersOutside DEF LockInv, LockTypes
<1>4. Critical \subseteq Past
  BY DEF Past
<1> QED
  BY <1>3, <1>4 DEF StepOf, Writing, Critical
-----------------------------------------------------------------------------
\* The ways a step under the lock may end: in another step, ...
LEMMA GotoCall ==
    ASSUME LockInv, CallInv, NEW p \in Procs, pc[p] \in Critical,
           NEW step \in Critical, Goto(p, step),
           NEW l \in Local, local' = [local EXCEPT ![p] = l],
           l.stage # "before" => request[p].op = "write",
           UNCHANGED <<request, answer>>
    PROVE  CallInv'
<1>1. CallTypes'
  BY DEF CallInv, CallTypes
<1>2. ASSUME NEW q \in Procs PROVE CallOf(q)'
  BY <1>2, OwnerAssumption
     DEF CallInv, CallOf, CallTypes, Goto, LockInv, LockTypes, Outside, Locking, Critical
<1> QED
  BY <1>1, <1>2 DEF CallInv

\* ... with an answer, ...
LEMMA EndCall ==
    ASSUME LockInv, CallInv, NEW p \in Procs, pc[p] \in Critical,
           Goto(p, "unlock"), NEW a \in {"ok", "error"}, Answer(p, a),
           UNCHANGED <<request, local>>
    PROVE  CallInv'
<1>1. CallTypes'
  BY DEF CallInv, CallTypes, Answer
<1>2. ASSUME NEW q \in Procs PROVE CallOf(q)'
  BY <1>2, NoneAssumption
     DEF CallInv, CallOf, CallTypes, Goto, Answer, LockInv, LockTypes, Outside, Locking, Critical
<1> QED
  BY <1>1, <1>2 DEF CallInv

\* ... or with an exception, which leads out or to the write's own recovery.
LEMMA RaiseCall ==
    ASSUME LockInv, CallInv, NEW p \in Procs, pc[p] \in Critical,
           Raise(p), UNCHANGED request
    PROVE  /\ CallInv'
           /\ \E step \in {"recover", "unlock"} : pc' = [pc EXCEPT ![p] = step]
           /\ StepOf(p)'
           /\ answer'[p] # "ok"
           /\ \A q \in Procs \ {p} : answer'[q] = answer[q]
<1>1. CASE local[p].stage = "write"
  <2>1. /\ Goto(p, "recover")
        /\ local' = [local EXCEPT ![p] = [local[p] EXCEPT !.stage = "rollback"]]
        /\ answer' = answer
    BY <1>1 DEF Raise
  <2>2. [local[p] EXCEPT !.stage = "rollback"] \in Local
    BY DEF CallInv, CallTypes, Local
  <2>3. request[p].op = "write"
    BY <1>1 DEF CallInv, CallOf
  <2>4. CallInv'
    BY <2>1, <2>2, <2>3, GotoCall DEF Critical
  <2>5. pc'[p] = "recover" /\ local'[p].stage = "rollback"
    BY <2>1, <2>2 DEF Goto, LockInv, LockTypes, CallInv, CallTypes, Local
  <2>6. answer[p] = None
    BY DEF CallInv, CallOf, Critical
  <2> QED
    BY <2>1, <2>4, <2>5, <2>6, NoneAssumption DEF Goto, StepOf, Writing
<1>2. CASE local[p].stage # "write"
  <2>1. Goto(p, "unlock") /\ Answer(p, "error") /\ UNCHANGED local
    BY <1>2 DEF Raise, Fail
  <2>2. CallInv'
    BY <2>1, EndCall
  <2> QED
    BY <2>1, <2>2 DEF Goto, Answer, StepOf, Writing, LockInv, LockTypes, CallInv, CallTypes
<1> QED
  BY <1>1, <1>2

\* After the recovery.
LEMMA ResolvedCall ==
    ASSUME LockInv, CallInv, LedgerInv, NEW p \in Procs, pc[p] \in Critical,
           Resolved(p), UNCHANGED request, tx' = None
    PROVE  /\ CallInv'
           /\ StepOf(p)'
           /\ ledger = None => \A q \in Procs : answer'[q] = answer[q] \/ answer'[q] # "ok"
<1>1. CASE local[p].stage = "before"
  <2>1. Goto(p, Operation(p)) /\ UNCHANGED <<local, answer>>
    BY <1>1 DEF Resolved
  <2>2. Operation(p) \in {"create", "verify", "begin"}
    BY DEF Operation
  <2>3. CallInv'
    <3>1. local' = [local EXCEPT ![p] = local[p]] /\ local[p] \in Local
      BY <2>1 DEF CallInv, CallTypes
    <3> QED
      BY <1>1, <2>1, <2>2, <3>1, GotoCall DEF Critical
  <2>4. pc'[p] = Operation(p) /\ Operation(p)' = Operation(p)
    BY <2>1 DEF Goto, LockInv, LockTypes, Operation
  <2>5. StepOf(p)'
    BY <1>1, <2>1, <2>2, <2>4 DEF StepOf, Writing
  <2> QED
    BY <2>1, <2>3, <2>5
<1>2. CASE local[p].stage # "before"
  <2>1. PICK a \in {"ok", "error"} : Goto(p, "unlock") /\ Answer(p, a) /\ UNCHANGED local
    BY <1>2 DEF Resolved, Finish, Fail
  <2>2. CallInv'
    BY <2>1, EndCall
  <2>3. StepOf(p)'
    BY <2>1 DEF StepOf, Writing, Goto, LockInv, LockTypes
  <2>4. ledger # None
    BY <1>2 DEF CallInv, CallOf, LedgerInv
  <2> QED
    BY <2>2, <2>3, <2>4
<1> QED
  BY <1>1, <1>2

\* A step on the disk: to the next step or to an exception.
LEMMA ThenCall ==
    ASSUME LockInv, CallInv, CountTypes, NEW p \in Procs, pc[p] \in Critical,
           NEW next \in Critical, Then(p, next), UNCHANGED request
    PROVE  /\ CallInv' /\ CountTypes'
           /\ \A q \in Procs : answer'[q] = answer[q] \/ answer'[q] # "ok"
           /\ StepOf(p)' \/ (pc'[p] = next /\ UNCHANGED <<local, answer>>)
<1>1. CASE Goto(p, next) /\ UNCHANGED <<local, answer, count>>
  <2>1. local' = [local EXCEPT ![p] = local[p]] /\ local[p] \in Local
    BY <1>1 DEF CallInv, CallTypes
  <2>2. CallInv'
    BY <1>1, <2>1, GotoCall DEF CallInv, CallOf
  <2> QED
    BY <1>1, <2>2 DEF Goto, LockInv, LockTypes, CountTypes
<1>2. CASE Fault("disk") /\ Raise(p)
  BY <1>2, RaiseCall, FaultCounted
<1> QED
  BY <1>1, <1>2 DEF Then

\* Once there is a ledger there always is one.
LEMMA LedgerKept ==
    ASSUME LockInv, CallInv, LedgerInv, NEW p \in Procs, Works(p), UNCHANGED request,
           ledger' = None =>
               /\ ledger = None /\ tx' = None
               /\ \A q \in Procs : answer'[q] = answer[q] \/ answer'[q] # "ok"
    PROVE  LedgerInv'
BY DEF LedgerInv, Works, LockInv, LockTypes, Critical
-----------------------------------------------------------------------------
\* What each step of an operation has to keep.
Kept(p) == DiskTypes' /\ CountTypes' /\ CallInv' /\ LedgerInv' /\ StepOf(p)'

\* Each step of the recovery, ...
LEMMA RecoverKeeps ==
    ASSUME DataInv, NEW p \in Procs, Works(p), Recover(p)
    PROVE  Kept(p)
<1> USE DEF DataInv
<1>0. pc[p] = "recover" /\ pc[p] \in Critical /\ UNCHANGED <<disk, request>>
  BY DEF Recover, At, Critical
<1>1. DiskTypes'
  BY <1>0 DEF DiskTypes, disk
<1>2. CASE tx = None
  <2>1. Resolved(p)
    BY <1>2 DEF Recover
  <2>2. CountTypes'
    BY <2>1 DEF Resolved, Finish, CountTypes
  <2> QED
    BY <1>0, <1>1, <1>2, <2>1, <2>2, ResolvedCall, LedgerKept DEF Kept, disk
<1>3. CASE tx # None
  <2>1. /\ Goto(p, IF tx.marker = None THEN "sweep" ELSE "restore")
        /\ UNCHANGED <<local, answer, count>>
    BY <1>3 DEF Recover
  <2>2. CallInv'
    <3>1. local' = [local EXCEPT ![p] = local[p]] /\ local[p] \in Local
      BY <2>1 DEF CallInv, CallTypes
    <3> QED
      BY <1>0, <2>1, <3>1, GotoCall DEF Critical, CallInv, CallOf
  <2>3. LedgerInv' /\ CountTypes'
    BY <1>0, <2>1, LedgerKept DEF LedgerInv, disk, CountTypes
  <2>4. CASE tx.marker = None
    <3>1. pc'[p] = "sweep"
      BY <2>1, <2>4 DEF Goto, LockInv, LockTypes
    <3>2. ~Marked' /\ tx' # None /\ artifact' = artifact
      BY <1>0, <1>3, <2>4 DEF Marked, disk
    <3>3. Restored'
      BY <3>2 DEF Restored, RestoredArtifacts, RestoredArtifact
    <3> QED
      BY <1>1, <2>2, <2>3, <3>1, <3>2, <3>3 DEF Kept, StepOf, Writing
  <2>5. CASE tx.marker # None
    <3>1. pc'[p] = "restore" /\ Marked'
      BY <1>0, <1>3, <2>1, <2>5 DEF Goto, LockInv, LockTypes, Marked, disk
    <3>2. local'[p].stage # "write"
      BY <1>0, <2>1 DEF StepInv, StepOf
    <3> QED
      BY <1>1, <2>2, <2>3, <3>1, <3>2 DEF Kept, StepOf, Writing
  <2> QED
    BY <2>4, <2>5
<1> QED
  BY <1>2, <1>3

LEMMA BackupMissingKeeps ==
    ASSUME DataInv, NEW p \in Procs, Works(p), BackupMissing(p)
    PROVE  Kept(p)
<1> USE DEF DataInv
<1>1. /\ pc[p] \in Critical /\ UNCHANGED <<disk, request, count>>
      /\ Goto(p, "unlock") /\ Answer(p, "error") /\ UNCHANGED local
  BY DEF BackupMissing, Fail, At, Critical
<1>2. CallInv'
  BY <1>1, EndCall
<1>3. LedgerInv'
  BY <1>1, LedgerKept DEF disk, Answer, CallInv, CallTypes, LedgerInv
<1>4. StepOf(p)'
  BY <1>1 DEF StepOf, Writing, Goto, LockInv, LockTypes
<1> QED
  BY <1>1, <1>2, <1>3, <1>4 DEF Kept, DiskTypes, CountTypes, disk

LEMMA RestoreKeeps ==
    ASSUME DataInv, NEW p \in Procs, Works(p), Restore(p)
    PROVE  Kept(p)
<1> USE DEF DataInv
<1>0. /\ pc[p] = "restore" /\ pc[p] \in Critical /\ Marked /\ local[p].stage # "write"
      /\ UNCHANGED <<ledger, tx, request>>
      /\ tx.marker.had => tx.before # None
  BY DEF Restore, At, Critical, StepInv, StepOf
<1>1. /\ tx \in Transaction /\ tx.marker \in Marker
      /\ artifact' = [artifact EXCEPT ![tx.marker.path] = IF tx.marker.had THEN tx.before ELSE None]
  BY <1>0 DEF Restore, DiskTypes, Marked, Transaction
<1>2. DiskTypes'
  BY <1>0, <1>1 DEF DiskTypes, Transaction, Marker
<1>3. Marked' /\ RestoredArtifacts'
  BY <1>0, <1>1 DEF Marked, RestoredArtifacts, RestoredArtifact, DiskTypes, Marker
<1>4. CASE Goto(p, "restoreLedger") /\ UNCHANGED <<local, answer, count>>
  <2>1. CallInv'
    <3>1. local' = [local EXCEPT ![p] = local[p]] /\ local[p] \in Local
      BY <1>4 DEF CallInv, CallTypes
    <3> QED
      BY <1>0, <1>4, <3>1, GotoCall DEF Critical, CallInv, CallOf
  <2>2. LedgerInv' /\ CountTypes'
    BY <1>0, <1>4, LedgerKept DEF LedgerInv, CountTypes
  <2>3. pc'[p] = "restoreLedger"
    BY <1>4 DEF Goto, LockInv, LockTypes
  <2> QED
    BY <1>0, <1>2, <1>3, <1>4, <2>1, <2>2, <2>3 DEF Kept, StepOf, Writing
<1>5. CASE Fault("disk") /\ Fail(p)
  <2>1. CallInv'
    BY <1>0, <1>5, EndCall DEF Fail
  <2>2. LedgerInv' /\ CountTypes'
    BY <1>0, <1>5, LedgerKept, FaultCounted DEF LedgerInv, Fail, Answer, CallInv, CallTypes
  <2>3. StepOf(p)'
    BY <1>5 DEF Fail, Goto, StepOf, Writing, LockInv, LockTypes
  <2> QED
    BY <1>2, <2>1, <2>2, <2>3 DEF Kept
<1> QED
  BY <1>4, <1>5 DEF Restore

LEMMA RestoreLedgerKeeps ==
    ASSUME DataInv, NEW p \in Procs, Works(p), RestoreLedger(p)
    PROVE  Kept(p)
<1> USE DEF DataInv
<1>0. /\ pc[p] = "restoreLedger" /\ pc[p] \in Critical /\ Marked /\ RestoredArtifacts
      /\ UNCHANGED <<artifact, tx, request>>
      /\ tx.ledger # None /\ ledger' = tx.ledger
  BY DEF RestoreLedger, At, Critical, StepInv, StepOf
<1>1. tx \in Transaction /\ tx.ledger \in Ledger
  BY <1>0 DEF DiskTypes, Marked, Transaction
<1>2. DiskTypes'
  BY <1>0, <1>1 DEF DiskTypes
<1>3. Marked' /\ Restored'
  BY <1>0 DEF Marked, Restored, RestoredArtifacts, RestoredArtifact
<1>4. CASE Goto(p, "sweep") /\ UNCHANGED <<local, answer, count>>
  <2>1. CallInv'
    <3>1. local' = [local EXCEPT ![p] = local[p]] /\ local[p] \in Local
      BY <1>4 DEF CallInv, CallTypes
    <3> QED
      BY <1>0, <1>4, <3>1, GotoCall DEF Critical, CallInv, CallOf
  <2>2. LedgerInv' /\ CountTypes'
    BY <1>0, <1>4 DEF LedgerInv, CountTypes
  <2>3. pc'[p] = "sweep"
    BY <1>4 DEF Goto, LockInv, LockTypes
  <2> QED
    BY <1>2, <1>3, <1>4, <2>1, <2>2, <2>3 DEF Kept, StepOf, Writing, Marked
<1>5. CASE Fault("disk") /\ Fail(p)
  <2>1. CallInv'
    BY <1>0, <1>5, EndCall DEF Fail
  <2>2. LedgerInv' /\ CountTypes'
    BY <1>0, <1>5, FaultCounted DEF LedgerInv
  <2>3. StepOf(p)'
    BY <1>5 DEF Fail, Goto, StepOf, Writing, LockInv, LockTypes
  <2> QED
    BY <1>2, <2>1, <2>2, <2>3 DEF Kept
<1> QED
  BY <1>4, <1>5 DEF RestoreLedger

LEMMA SweepKeeps ==
    ASSUME DataInv, NEW p \in Procs, Works(p), Sweep(p)
    PROVE  Kept(p)
<1> USE DEF DataInv
<1>0. /\ pc[p] = "sweep" /\ pc[p] \in Critical
      /\ tx # None /\ tx \in Transaction /\ Restored /\ ledger # None
      /\ UNCHANGED <<artifact, ledger, request>>
  BY DEF Sweep, At, Critical, StepInv, StepOf, DiskTypes, LedgerInv
<1>1. LedgerInv'
  BY <1>0 DEF LedgerInv
<1>2. CASE tx = EmptyTransaction
  <2>1. tx' = None /\ (Resolved(p) \/ (Fault("disk") /\ Raise(p)))
    BY <1>2 DEF Sweep
  <2>2. DiskTypes'
    BY <1>0, <2>1 DEF DiskTypes
  <2>3. CASE Resolved(p)
    <3>1. CountTypes'
      BY <2>3 DEF Resolved, Finish, CountTypes
    <3> QED
      BY <1>0, <1>1, <2>1, <2>2, <2>3, <3>1, ResolvedCall DEF Kept
  <2>4. CASE Fault("disk") /\ Raise(p)
    BY <1>0, <1>1, <2>2, <2>4, RaiseCall, FaultCounted DEF Kept
  <2> QED
    BY <2>1, <2>3, <2>4
<1>3. CASE tx # EmptyTransaction
  <2>1. /\ \E file \in DOMAIN tx : tx[file] # None /\ tx' = [tx EXCEPT ![file] = None]
        /\ Goto(p, "sweep") /\ UNCHANGED <<local, answer, count>>
    BY <1>3 DEF Sweep
  <2>2. PICK file \in {"marker", "before", "ledger"} : tx' = [tx EXCEPT ![file] = None]
    BY <1>0, <2>1 DEF Transaction
  <2>3. /\ tx' \in Transaction
        /\ tx'.marker \in {tx.marker, None}
        /\ tx'.before \in {tx.before, None}
        /\ tx'.ledger \in {tx.ledger, None}
    BY <1>0, <2>2 DEF Transaction
  <2>4. tx' # None
    BY <2>3, NoneAssumption
  <2>5. Restored'
    BY <1>0, <2>3, <2>4 DEF Restored, RestoredArtifacts, RestoredArtifact, Marked
  <2>6. CallInv'
    <3>1. local' = [local EXCEPT ![p] = local[p]] /\ local[p] \in Local
      BY <2>1 DEF CallInv, CallTypes
    <3> QED
      BY <1>0, <2>1, <3>1, GotoCall DEF Critical, CallInv, CallOf
  <2>7. pc'[p] = "sweep"
    BY <2>1 DEF Goto, LockInv, LockTypes
  <2> QED
    BY <1>0, <1>1, <2>1, <2>3, <2>4, <2>5, <2>6, <2>7 DEF Kept, StepOf, Writing, DiskTypes, CountTypes
<1> QED
  BY <1>2, <1>3

\* ... of opening and verifying, ...
LEMMA CreateKeeps ==
    ASSUME DataInv, NEW p \in Procs, Works(p), Create(p)
    PROVE  Kept(p)
<1> USE DEF DataInv
<1>0. /\ pc[p] \in Critical /\ UNCHANGED <<artifact, tx, request>>
      /\ ledger' = IF ledger = None THEN EmptyLedger ELSE ledger
      /\ \E a \in {"ok", "error"} : Goto(p, "unlock") /\ Answer(p, a) /\ UNCHANGED local
      /\ CountTypes'
  BY FaultCounted DEF Create, At, Critical, Finish, Fail, CountTypes
<1>1. EmptyLedger \in Ledger
  BY DEF EmptyLedger, Ledger
<1>2. DiskTypes' /\ ledger' # None
  BY <1>0, <1>1, NoneAssumption DEF DiskTypes
<1>3. CallInv'
  BY <1>0, EndCall
<1>4. StepOf(p)'
  BY <1>0 DEF StepOf, Writing, Goto, LockInv, LockTypes
<1> QED
  BY <1>0, <1>2, <1>3, <1>4 DEF Kept, LedgerInv

LEMMA VerifyLockedKeeps ==
    ASSUME DataInv, NEW p \in Procs, Works(p), VerifyLocked(p)
    PROVE  Kept(p)
<1> USE DEF DataInv
<1>0. /\ pc[p] = "verify" /\ pc[p] \in Critical /\ UNCHANGED <<disk, request, count>>
      /\ \E a \in {"ok", "error"} : Goto(p, "unlock") /\ Answer(p, a) /\ UNCHANGED local
  BY DEF VerifyLocked, At, Critical, Finish
<1>1. ledger # None
  BY <1>0 DEF StepInv, StepOf, LedgerInv, CallInv, CallOf, Operation, Critical, Outside
<1>2. CallInv'
  BY <1>0, EndCall
<1>3. StepOf(p)'
  BY <1>0 DEF StepOf, Writing, Goto, LockInv, LockTypes
<1> QED
  BY <1>0, <1>1, <1>2, <1>3 DEF Kept, LedgerInv, DiskTypes, CountTypes, disk

\* The request of a process at "begin" is to write, and nothing is in its way.
LEMMA BeginRequest ==
    ASSUME DataInv, NEW p \in Procs, pc[p] = "begin"
    PROVE  /\ request[p] # None /\ request[p].op = "write"
           /\ tx = None /\ ledger \in Ledger /\ local[p].stage = "before"
<1>1. request[p] # None
  BY DEF DataInv, CallInv, CallOf, Outside
<1>2. request[p].op = "write" /\ tx = None /\ local[p].stage = "before"
  BY <1>1 DEF DataInv, StepInv, StepOf, Operation, CallInv, CallTypes, Request
<1>3. ledger # None
  BY <1>1, <1>2 DEF DataInv, LedgerInv
<1> QED
  BY <1>1, <1>2, <1>3 DEF DataInv, DiskTypes

\* ... and the first of a write.
LEMMA BeginKeeps ==
    ASSUME DataInv, NEW p \in Procs, Works(p), Begin(p)
    PROVE  Kept(p)
<1> USE DEF DataInv
<1>0. pc[p] = "begin" /\ pc[p] \in Critical /\ UNCHANGED <<artifact, ledger, request>>
  BY DEF Begin, At, Critical
<1>1. /\ request[p] # None /\ request[p].op = "write"
      /\ tx = None /\ ledger \in Ledger /\ local[p].stage = "before"
  BY <1>0, BeginRequest
<1>2. ledger' # None /\ LedgerInv'
  BY <1>0, <1>1, NoneAssumption DEF LedgerInv
<1>3. CASE ~Overwritable(request[p].path)
  <2>1. Goto(p, "unlock") /\ Answer(p, "error") /\ UNCHANGED <<local, count, tx>>
    BY <1>3 DEF Begin, Finish
  <2>2. CallInv'
    BY <1>0, <2>1, EndCall
  <2>3. StepOf(p)'
    BY <2>1 DEF StepOf, Writing, Goto, LockInv, LockTypes
  <2> QED
    BY <1>0, <1>2, <2>1, <2>2, <2>3 DEF Kept, DiskTypes, CountTypes
<1>4. CASE Overwritable(request[p].path)
  <2>1. tx' = EmptyTransaction /\ tx' \in Transaction /\ tx' # None
    BY <1>4, NoneAssumption DEF Begin, EmptyTransaction, Transaction
  <2>2. DiskTypes'
    BY <1>0, <2>1 DEF DiskTypes
  <2>3. CASE Fault("disk") /\ Fail(p)
    <3>1. CallInv'
      BY <1>0, <2>3, EndCall DEF Fail
    <3>2. CountTypes'
      BY <2>3, FaultCounted
    <3>3. StepOf(p)'
      BY <2>3 DEF Fail, StepOf, Writing, Goto, LockInv, LockTypes
    <3> QED
      BY <1>2, <2>2, <3>1, <3>2, <3>3 DEF Kept
  <2>4. CASE ~(Fault("disk") /\ Fail(p))
    <3> DEFINE l == [local[p] EXCEPT !.stage = "write", !.records = ledger]
    <3>1. Goto(p, "backupLedger") /\ local' = [local EXCEPT ![p] = l] /\ UNCHANGED <<answer, count>>
      BY <1>4, <2>4 DEF Begin
    <3>2. l \in Local /\ l.stage = "write" /\ l.records = ledger
      BY <1>1 DEF CallInv, CallTypes, Local
    <3>3. CallInv'
      <4> HIDE DEF l
      <4> QED
        BY <1>0, <1>1, <3>1, <3>2, GotoCall DEF Critical
    <3>4. pc'[p] = "backupLedger" /\ local'[p] = l
      BY <3>1 DEF Goto, LockInv, LockTypes, CallInv, CallTypes
    <3>5. WriteOf(p)'
      <4> HIDE DEF l
      <4>1. tx'.marker = None
        BY <2>1 DEF EmptyTransaction
      <4> QED
        BY <1>0, <1>1, <1>4, <2>1, <3>2, <3>4, <4>1 DEF WriteOf, Overwritable
    <3>6. StepOf(p)'
      BY <3>4, <3>5 DEF StepOf
    <3> QED
      BY <1>2, <2>2, <3>1, <3>3, <3>6 DEF Kept, CountTypes
  <2> QED
    BY <2>3, <2>4
<1> QED
  BY <1>3, <1>4
-----------------------------------------------------------------------------
\* A write is under way, and its request is one.
LEMMA WritingFacts ==
    ASSUME DataInv, NEW p \in Procs, pc[p] \in Writing
    PROVE  /\ pc[p] \in Critical /\ WriteOf(p) /\ local[p].stage = "write"
           /\ request[p] # None /\ request[p].op = "write" /\ request[p].path \in Paths
           /\ request[p].content \in Contents /\ request[p].lock \in BOOLEAN
           /\ tx \in Transaction /\ tx # None /\ ledger # None
           /\ local[p] \in Local /\ local[p].records \in Ledger
<1> USE DEF DataInv
<1>1. pc[p] \in Critical /\ WriteOf(p) /\ local[p].stage = "write" /\ tx # None /\ local[p].records \in Ledger
  BY DEF Writing, Critical, StepInv, StepOf, WriteOf
<1>2. request[p] # None /\ request[p].op = "write"
  BY <1>1 DEF CallInv, CallOf
<1>3. tx \in Transaction /\ ledger # None /\ local[p] \in Local
  BY <1>1 DEF DiskTypes, LedgerInv, CallInv, CallTypes
<1> QED
  BY <1>1, <1>2, <1>3, WriteRequest DEF CallInv

\* What the six steps of a write have in common.
LEMMA WriteStepKeeps ==
    ASSUME DataInv, NEW p \in Procs, pc[p] \in Writing, UNCHANGED request,
           NEW next \in Critical, Then(p, next),
           DiskTypes', tx' # None, ledger' # None,
           pc'[p] = next /\ UNCHANGED <<local, answer>> => StepOf(p)'
    PROVE  Kept(p)
<1>1. pc[p] \in Critical
  BY DEF Writing, Critical
<1>2. CallInv' /\ CountTypes' /\ StepOf(p)'
  BY <1>1, ThenCall DEF DataInv
<1> QED
  BY <1>2 DEF Kept, LedgerInv

\* The copies, the marker, the two replacements and the commit of a write.
LEMMA BackupLedgerKeeps ==
    ASSUME DataInv, NEW p \in Procs, BackupLedger(p)
    PROVE  Kept(p)
<1>0. /\ pc[p] = "backupLedger" /\ Then(p, "backupArtifact")
      /\ tx' = [tx EXCEPT !.ledger = ledger] /\ UNCHANGED <<artifact, ledger, request>>
  BY DEF BackupLedger, At
<1>1. /\ WriteOf(p) /\ tx \in Transaction /\ ledger # None /\ ledger \in Ledger
  BY <1>0, WritingFacts DEF Writing, DataInv, DiskTypes
<1>2. /\ tx' \in Transaction /\ tx' # None
      /\ tx'.ledger = ledger /\ tx'.marker = tx.marker /\ tx'.before = tx.before
  BY <1>0, <1>1, NoneAssumption DEF Transaction
<1>3. DiskTypes'
  BY <1>0, <1>2 DEF DataInv, DiskTypes
<1>4. ASSUME pc'[p] = "backupArtifact", UNCHANGED local PROVE StepOf(p)'
  BY <1>0, <1>1, <1>2, <1>4 DEF StepOf, WriteOf, Writing
<1> QED
  BY <1>0, <1>1, <1>2, <1>3, <1>4, WriteStepKeeps DEF Writing, Critical

LEMMA MarkKeeps ==
    ASSUME DataInv, NEW p \in Procs, Mark(p)
    PROVE  Kept(p)
<1> DEFINE m == [path |-> request[p].path, had |-> local[p].had]
<1>0. /\ pc[p] = "mark" /\ Then(p, "install")
      /\ tx' = [tx EXCEPT !.marker = m] /\ UNCHANGED <<artifact, ledger, request>>
  BY DEF Mark, At
<1>1. /\ WriteOf(p) /\ tx \in Transaction /\ ledger # None /\ request[p].path \in Paths /\ local[p] \in Local
  BY <1>0, WritingFacts DEF Writing
<1>2. m \in Marker
  BY <1>1 DEF Marker, Local
<1> HIDE DEF m
<1>3. /\ tx' \in Transaction /\ tx' # None
      /\ tx'.ledger = tx.ledger /\ tx'.marker = m /\ tx'.before = tx.before
  BY <1>0, <1>1, <1>2, NoneAssumption DEF Transaction
<1>4. DiskTypes'
  BY <1>0, <1>3 DEF DataInv, DiskTypes
<1>5. ASSUME pc'[p] = "install", UNCHANGED local PROVE StepOf(p)'
  BY <1>0, <1>1, <1>3, <1>5 DEF StepOf, WriteOf, Writing, m
<1> QED
  BY <1>0, <1>1, <1>3, <1>4, <1>5, WriteStepKeeps DEF Writing, Critical

LEMMA InstallKeeps ==
    ASSUME DataInv, NEW p \in Procs, Install(p)
    PROVE  Kept(p)
<1>0. /\ pc[p] = "install" /\ Then(p, "record")
      /\ artifact' = [artifact EXCEPT ![request[p].path] = request[p].content]
      /\ UNCHANGED <<ledger, tx, request>>
  BY DEF Install, At
<1>1. /\ WriteOf(p) /\ tx \in Transaction /\ tx # None /\ ledger # None
      /\ request[p].path \in Paths /\ request[p].content \in Contents
  BY <1>0, WritingFacts DEF Writing
<1>2. DiskTypes' /\ artifact'[request[p].path] = request[p].content
  BY <1>0, <1>1 DEF DataInv, DiskTypes
<1>3. ASSUME pc'[p] = "record", UNCHANGED local PROVE StepOf(p)'
  BY <1>0, <1>1, <1>2, <1>3 DEF StepOf, WriteOf, Writing
<1> QED
  BY <1>0, <1>1, <1>2, <1>3, WriteStepKeeps DEF Writing, Critical

LEMMA RecordArtifactKeeps ==
    ASSUME DataInv, NEW p \in Procs, RecordArtifact(p)
    PROVE  Kept(p)
<1>0. /\ pc[p] = "record" /\ Then(p, "commit")
      /\ ledger' = [local[p].records EXCEPT ![request[p].path] =
                       [sha256 |-> request[p].content, locked |-> request[p].lock]]
      /\ UNCHANGED <<artifact, tx, request>>
  BY DEF RecordArtifact, At
<1>1. /\ WriteOf(p) /\ tx # None /\ local[p].records \in Ledger
      /\ request[p].path \in Paths /\ request[p].content \in Contents /\ request[p].lock \in BOOLEAN
  BY <1>0, WritingFacts DEF Writing
<1>2. ledger' \in Ledger /\ ledger' # None
  BY <1>0, <1>1, NoneAssumption DEF Ledger, Record
<1>3. DiskTypes'
  BY <1>0, <1>2 DEF DataInv, DiskTypes
<1>4. ASSUME pc'[p] = "commit", UNCHANGED local PROVE StepOf(p)'
  BY <1>0, <1>1, <1>4 DEF StepOf, WriteOf, Writing
<1> QED
  BY <1>0, <1>1, <1>2, <1>3, <1>4, WriteStepKeeps DEF Writing, Critical

LEMMA CommitKeeps ==
    ASSUME DataInv, NEW p \in Procs, Commit(p)
    PROVE  Kept(p)
<1>0. /\ pc[p] = "commit" /\ Then(p, "sweep")
      /\ tx' = [tx EXCEPT !.marker = None] /\ UNCHANGED <<artifact, ledger, request>>
  BY DEF Commit, At
<1>1. tx \in Transaction /\ ledger # None
  BY <1>0, WritingFacts DEF Writing
<1>2. tx' \in Transaction /\ tx' # None /\ tx'.marker = None
  BY <1>0, <1>1, NoneAssumption DEF Transaction
<1>3. DiskTypes'
  BY <1>0, <1>2 DEF DataInv, DiskTypes
<1>4. Restored'
  BY <1>0, <1>2 DEF Restored, RestoredArtifacts, RestoredArtifact, Marked
<1>5. ASSUME pc'[p] = "sweep" PROVE StepOf(p)'
  BY <1>2, <1>4, <1>5 DEF StepOf, Writing
<1> QED
  BY <1>0, <1>1, <1>2, <1>3, <1>5, WriteStepKeeps DEF Writing, Critical

LEMMA BackupArtifactKeeps ==
    ASSUME DataInv, NEW p \in Procs, BackupArtifact(p)
    PROVE  Kept(p)
<1> DEFINE l == [local[p] EXCEPT !.had = artifact[request[p].path] # None]
<1>0. /\ pc[p] = "backupArtifact" /\ pc[p] \in Critical
      /\ tx' = [tx EXCEPT !.before = artifact[request[p].path]] /\ UNCHANGED <<artifact, ledger, request>>
  BY DEF BackupArtifact, At, Critical
<1>1. /\ WriteOf(p) /\ tx \in Transaction /\ ledger # None /\ request[p].path \in Paths
      /\ local[p] \in Local /\ request[p].op = "write"
  BY <1>0, WritingFacts DEF Writing
<1>2. /\ tx' \in Transaction /\ tx' # None
      /\ tx'.ledger = tx.ledger /\ tx'.marker = tx.marker /\ tx'.before = artifact[request[p].path]
  BY <1>0, <1>1, NoneAssumption DEF Transaction, DataInv, DiskTypes
<1>3. DiskTypes' /\ LedgerInv'
  BY <1>0, <1>1, <1>2 DEF DataInv, DiskTypes, LedgerInv
<1>4. CASE Fault("disk") /\ Raise(p)
  BY <1>0, <1>3, <1>4, RaiseCall, FaultCounted DEF DataInv, Kept
<1>5. CASE ~(Fault("disk") /\ Raise(p))
  <2>1. Goto(p, "mark") /\ local' = [local EXCEPT ![p] = l] /\ UNCHANGED <<answer, count>>
    BY <1>5 DEF BackupArtifact
  <2>2. /\ l \in Local /\ l.stage = local[p].stage /\ l.records = local[p].records
        /\ l.had <=> artifact[request[p].path] # None
    BY <1>1 DEF Local
  <2> HIDE DEF l
  <2>3. CallInv'
    BY <1>0, <1>1, <2>1, <2>2, GotoCall DEF Critical, DataInv
  <2>4. pc'[p] = "mark" /\ local'[p] = l
    BY <2>1 DEF Goto, DataInv, LockInv, LockTypes, CallInv, CallTypes
  <2>5. WriteOf(p)'
    BY <1>0, <1>1, <1>2, <2>2, <2>4 DEF WriteOf
  <2> QED
    BY <1>3, <2>1, <2>3, <2>4, <2>5 DEF DataInv, Kept, StepOf, Writing, CountTypes
<1> QED
  BY <1>4, <1>5
-----------------------------------------------------------------------------
\* Every step of an operation keeps the invariant.
LEMMA StoreStepKeeps ==
    ASSUME DataInv, NEW p \in Procs, StoreStep(p)
    PROVE  DataInv'
<1>1. Works(p)
  BY StoreStepWorks
<1>2. Kept(p)
  <2>1. CASE Recover(p) \/ BackupMissing(p) \/ Restore(p) \/ RestoreLedger(p) \/ Sweep(p)
    BY <1>1, <2>1, RecoverKeeps, BackupMissingKeeps, RestoreKeeps, RestoreLedgerKeeps, SweepKeeps
  <2>2. CASE Create(p) \/ VerifyLocked(p) \/ Begin(p) \/ BackupLedger(p) \/ BackupArtifact(p)
    BY <1>1, <2>2, CreateKeeps, VerifyLockedKeeps, BeginKeeps, BackupLedgerKeeps, BackupArtifactKeeps
  <2>3. CASE Mark(p) \/ Install(p) \/ RecordArtifact(p) \/ Commit(p)
    BY <2>3, MarkKeeps, InstallKeeps, RecordArtifactKeeps, CommitKeeps
  <2>4. CASE StepFails(p)
    <3>1. pc[p] \in Critical /\ Fault("disk") /\ Raise(p) /\ UNCHANGED <<disk, request>>
      BY <2>4 DEF StepFails
    <3>2. CallInv' /\ StepOf(p)' /\ CountTypes' /\ \A q \in Procs : answer'[q] = answer[q] \/ answer'[q] # "ok"
      BY <3>1, RaiseCall, FaultCounted, NoneAssumption DEF DataInv
    <3>3. LedgerInv'
      BY <1>1, <3>1, <3>2, LedgerKept DEF DataInv, disk, LedgerInv
    <3> QED
      BY <3>1, <3>2, <3>3 DEF DataInv, Kept, DiskTypes, disk
  <2> QED
    BY <2>1, <2>2, <2>3, <2>4 DEF StoreStep
<1>3. LockInv'
  BY <1>1, WorksKeepsLocks DEF DataInv
<1>4. StepInv'
  BY <1>1, <1>2, StepAlone DEF DataInv, Kept, Works, Past, PCs
<1> QED
  BY <1>2, <1>3, <1>4 DEF DataInv, Kept

\* A step on the locks: only the process's place in the lock changes, ...
LEMMA LockMoveKeeps ==
    ASSUME DataInv, LockInv', CountTypes', UNCHANGED <<disk, request, local, answer>>,
           NEW p \in Procs, pc[p] \in Locking,
           NEW step \in Locking \cup {"recover"}, Goto(p, step)
    PROVE  DataInv'
<1> USE DEF DataInv
<1>1. DiskTypes' /\ CallTypes'
  BY DEF DiskTypes, CallInv, CallTypes, disk
<1>2. \A q \in Procs : CallOf(q)'
  BY DEF CallInv, CallOf, Goto, LockInv, LockTypes, Outside, Locking
<1>3. LedgerInv'
  BY DEF LedgerInv, Goto, LockInv, LockTypes, Locking, disk
<1>4. ASSUME NEW q \in Procs PROVE StepOf(q)'
  <2>1. CASE q = p
    BY <2>1, <1>2 DEF StepOf, Goto, LockInv, LockTypes, Locking, Writing, CallInv, CallOf, Outside
  <2>2. CASE q # p
    <3>1. pc'[q] = pc[q] /\ local'[q] = local[q] /\ request'[q] = request[q]
      BY <2>2 DEF Goto, LockInv, LockTypes
    <3>2. StepOf(q)
      BY DEF StepInv
    <3> QED
      BY <3>1, <3>2 DEF StepOf, WriteOf, Operation, Marked, Restored, RestoredArtifacts, RestoredArtifact, disk
  <2> QED
    BY <2>1, <2>2
<1> QED
  BY <1>1, <1>2, <1>3, <1>4 DEF CallInv, StepInv

\* ... or the call, or the process, ends.
Stops(p) ==
    /\ \E step \in Outside : Goto(p, step) /\ (step = "idle" => ledger # None)
    /\ request' = [request EXCEPT ![p] = None]
    /\ answer' = [answer EXCEPT ![p] = None]
    /\ local' = [local EXCEPT ![p] = NoLocal]
    /\ UNCHANGED disk

LEMMA ReturnStops ==
    ASSUME DataInv, NEW p \in Procs, pc[p] \notin Outside, UNCHANGED disk,
           NEW a \in {"ok", "error"}, Return(p, a), ledger = None => a = "error"
    PROVE  Stops(p)
<1>1. request[p] # None
  BY DEF DataInv, CallInv, CallOf
<1>2. ledger = None => request[p].op = "open"
  BY <1>1 DEF DataInv, LedgerInv
<1> QED
  BY <1>2 DEF Return, Stops, Outside, Goto

LEMMA StopsKeeps ==
    ASSUME DataInv, LockInv', CountTypes', NEW p \in Procs, Stops(p)
    PROVE  DataInv'
<1> USE DEF DataInv
<1>1. PICK step \in Outside : Goto(p, step) /\ (step = "idle" => ledger # None)
  BY DEF Stops
<1>2. /\ pc' = [pc EXCEPT ![p] = step]
      /\ request' = [request EXCEPT ![p] = None]
      /\ answer' = [answer EXCEPT ![p] = None]
      /\ local' = [local EXCEPT ![p] = NoLocal]
      /\ UNCHANGED disk
  BY <1>1 DEF Stops, Goto
<1>3. NoLocal \in Local /\ NoLocal.stage = "before"
  BY DEF NoLocal, Local
<1>4. DiskTypes' /\ CallTypes'
  BY <1>2, <1>3 DEF DiskTypes, CallInv, CallTypes, disk
<1>5. ASSUME NEW q \in Procs PROVE CallOf(q)'
  BY <1>2, <1>3 DEF CallInv, CallOf, CallTypes, LockInv, LockTypes, Outside, Locking
<1>6. LedgerInv'
  BY <1>1, <1>2, NoneAssumption DEF LedgerInv, LockInv, LockTypes, CallInv, CallTypes, disk
<1>7. ASSUME NEW q \in Procs PROVE StepOf(q)'
  <2>1. CASE q = p
    BY <2>1, <1>2 DEF StepOf, LockInv, LockTypes, Writing, Outside
  <2>2. CASE q # p
    <3>1. pc'[q] = pc[q] /\ local'[q] = local[q] /\ request'[q] = request[q]
      BY <1>2, <2>2 DEF LockInv, LockTypes, CallInv, CallTypes
    <3>2. StepOf(q)
      BY DEF StepInv
    <3> QED
      BY <1>2, <3>1, <3>2 DEF StepOf, WriteOf, Operation, Marked, Restored, RestoredArtifacts, RestoredArtifact, disk
  <2> QED
    BY <2>1, <2>2
<1> QED
  BY <1>4, <1>5, <1>6, <1>7 DEF CallInv, StepInv

\* Every step on the locks is one or the other.
LEMMA LockStepShape ==
    ASSUME DataInv, NEW p \in Procs, LockStep(p)
    PROVE  /\ CountTypes' /\ count'.edits = count.edits
           /\ \/ /\ UNCHANGED <<disk, request, local, answer>>
                 /\ pc[p] \in Locking
                 /\ \E step \in Locking \cup {"recover"} : Goto(p, step)
              \/ Stops(p)
<1> USE DEF DataInv
<1>1. CASE Flock(p) \/ FlockTimesOut(p)
  BY <1>1, ReturnStops DEF Flock, FlockTimesOut, At, Outside, Locking, Goto, CountTypes
<1>2. CASE Mkdir(p)
  BY <1>2, ReturnStops DEF Mkdir, GiveUp, At, Outside, Locking, Goto, CountTypes
<1>3. CASE LockFails(p)
  BY <1>3, FaultCounted, ReturnStops DEF LockFails, GiveUp, At, Outside, Locking
<1>4. CASE WriteOwner(p)
  BY <1>4, FaultCounted, ReturnStops DEF WriteOwner, GiveUp, At, Outside, Locking, Goto, CountTypes
<1>5. CASE Claim(p)
  BY <1>5, ReturnStops DEF Claim, GiveUp, At, Outside, Locking, Goto, CountTypes
<1>6. CASE ClaimOwner(p)
  BY <1>6, FaultCounted, ReturnStops DEF ClaimOwner, GiveUp, At, Outside, Locking, Goto, CountTypes
<1>7. CASE Quarantine(p)
  BY <1>7, FaultCounted, ReturnStops DEF Quarantine, At, Outside, Locking, Goto, CountTypes
<1>8. CASE Unlock(p)
  <2>1. pc[p] = "unlock" /\ answer[p] \in {"ok", "error"} /\ (ledger = None => answer[p] # "ok") /\ UNCHANGED disk
    BY <1>8 DEF Unlock, At, CallInv, CallOf, CallTypes, LedgerInv
  <2>2. CASE Return(p, answer[p]) /\ UNCHANGED count
    BY <2>1, <2>2, ReturnStops DEF Outside, CountTypes
  <2>3. CASE Return(p, "error") /\ Fault("disk")
    BY <2>1, <2>3, FaultCounted, ReturnStops DEF Outside
  <2> QED
    BY <1>8, <2>2, <2>3 DEF Unlock
<1> QED
  BY <1>1, <1>2, <1>3, <1>4, <1>5, <1>6, <1>7, <1>8 DEF LockStep

\* A call starts outside the lock.
LEMMA CallKeeps ==
    ASSUME DataInv, LockInv', NEW p \in Procs, Call(p)
    PROVE  DataInv'
<1> USE DEF DataInv
<1>1. /\ pc[p] \in Outside /\ Goto(p, "flock")
      /\ UNCHANGED <<disk, locks, local, answer, count>>
  BY DEF Call, At, Outside
<1>2. PICK r \in Request : request' = [request EXCEPT ![p] = r] /\ (pc[p] = "down" => r.op = "open")
  <2>1. CASE At(p, "down") /\ request' = [request EXCEPT ![p] = [op |-> "open"]]
    <3>1. [op |-> "open"] \in Request /\ [op |-> "open"].op = "open"
      BY DEF Request
    <3> QED
      BY <2>1, <3>1
  <2>2. CASE At(p, "idle") /\ request' = [request EXCEPT ![p] = [op |-> "verify"]]
    <3>1. [op |-> "verify"] \in Request
      BY DEF Request
    <3> QED
      BY <2>2, <3>1 DEF At
  <2>3. ASSUME At(p, "idle"), NEW path \in Paths, NEW c \in Contents, NEW l \in BOOLEAN,
               request' = [request EXCEPT ![p] = [op |-> "write", path |-> path, content |-> c, lock |-> l]]
        PROVE  \E r \in Request : request' = [request EXCEPT ![p] = r] /\ (pc[p] = "down" => r.op = "open")
    <3>1. [op |-> "write", path |-> path, content |-> c, lock |-> l] \in Request
      BY DEF Request
    <3> QED
      BY <2>3, <3>1 DEF At
  <2> QED
    BY <2>1, <2>2, <2>3 DEF Call
<1>3. DiskTypes' /\ CallTypes' /\ CountTypes'
  BY <1>1, <1>2 DEF DiskTypes, CallInv, CallTypes, CountTypes, disk
<1>4. ASSUME NEW q \in Procs PROVE CallOf(q)'
  BY <1>1, <1>2, NoneAssumption DEF CallInv, CallOf, CallTypes, Goto, LockInv, LockTypes, Outside, Locking
<1>5. LedgerInv'
  BY <1>1, <1>2 DEF LedgerInv, CallInv, CallTypes, Goto, LockInv, LockTypes, Outside, disk
<1>6. ASSUME NEW q \in Procs PROVE StepOf(q)'
  <2>1. CASE q = p
    BY <1>1, <2>1 DEF StepOf, Goto, LockInv, LockTypes, Writing
  <2>2. CASE q # p
    <3>1. pc'[q] = pc[q] /\ local'[q] = local[q] /\ request'[q] = request[q]
      BY <1>1, <1>2, <2>2 DEF Goto, LockInv, LockTypes, CallInv, CallTypes
    <3>2. StepOf(q)
      BY DEF StepInv
    <3> QED
      BY <1>1, <3>1, <3>2 DEF StepOf, WriteOf, Operation, Marked, Restored, RestoredArtifacts, RestoredArtifact, disk
  <2> QED
    BY <2>1, <2>2
<1> QED
  BY <1>3, <1>4, <1>5, <1>6 DEF CallInv, StepInv

\* An interrupt ends the call at once, or leaves the body as an exception does.
LEMMA InterruptShape ==
    ASSUME DataInv, NEW p \in Procs, Interrupt(p)
    PROVE  /\ CountTypes' /\ count'.edits = count.edits
           /\ \/ Stops(p)
              \/ pc[p] \in Critical /\ Fail(p) /\ UNCHANGED <<disk, locks, request>>
<1>1. CountTypes' /\ count'.edits = count.edits
  BY FaultCounted DEF Interrupt, DataInv
<1>2. CASE At(p, "flock") /\ Return(p, "error") /\ UNCHANGED <<disk, locks>>
  BY <1>1, <1>2, ReturnStops DEF At, Outside
<1>3. CASE pc[p] \in (Locking \ {"flock"}) \cup {"unlock"} /\ \E dir : GiveUp(p, dir)
  BY <1>1, <1>3, ReturnStops DEF GiveUp, Locking, Outside
<1> QED
  BY <1>1, <1>2, <1>3 DEF Interrupt, At

LEMMA InterruptKeeps ==
    ASSUME DataInv, LockInv', NEW p \in Procs, Interrupt(p)
    PROVE  DataInv'
<1>1. CASE Stops(p)
  BY <1>1, InterruptShape, StopsKeeps
<1>2. CASE pc[p] \in Critical /\ Fail(p) /\ UNCHANGED <<disk, locks, request>>
  <2>1. Goto(p, "unlock") /\ Answer(p, "error") /\ UNCHANGED local
    BY <1>2 DEF Fail
  <2>2. CallInv'
    BY <1>2, <2>1, EndCall DEF DataInv
  <2>3. StepOf(p)'
    BY <2>1 DEF StepOf, Writing, Goto, DataInv, LockInv, LockTypes
  <2>4. LedgerInv'
    BY <1>2, <2>1 DEF LedgerInv, Goto, Answer, DataInv, LockInv, LockTypes, CallInv, CallTypes, disk
  <2>5. StepInv'
    BY <1>2, <2>1, <2>3, StepAlone DEF DataInv, Past, PCs, Goto
  <2> QED
    BY <1>2, <2>2, <2>4, <2>5, InterruptShape DEF DataInv, DiskTypes, disk
<1> QED
  BY <1>1, <1>2, InterruptShape

\* A kill is the end of the call as well.
LEMMA KillStops ==
    ASSUME DataInv, NEW p \in Procs, Kill(p)
    PROVE  Stops(p) /\ CountTypes' /\ count'.edits = count.edits
BY FaultCounted DEF DataInv, Kill, Stops, Outside

\* An edit from outside meets no transaction.
LEMMA EditKeeps ==
    ASSUME DataInv, LockInv', NEW path \in Paths, Edit(path)
    PROVE  DataInv'
<1> USE DEF DataInv
<1>1. PICK c \in Contents \cup {None} : artifact' = [artifact EXCEPT ![path] = c]
  BY DEF Edit
<1>2. tx = None /\ UNCHANGED <<ledger, tx, locks, pc, request, local, answer>>
  BY DEF Edit
<1>3. DiskTypes' /\ CountTypes'
  BY <1>1, <1>2, ArtifactStoreAssumption DEF Edit, DiskTypes, CountTypes
<1>4. CallInv' /\ LedgerInv'
  BY <1>2 DEF CallInv, CallTypes, CallOf, LedgerInv
<1>5. ASSUME NEW q \in Procs PROVE StepOf(q)'
  <2>1. StepOf(q) /\ pc[q] \notin Writing \cup {"restore", "restoreLedger", "sweep"}
    BY <1>2 DEF StepInv, StepOf, WriteOf, Marked
  <2> QED
    BY <1>2, <2>1 DEF StepOf, Operation, Writing
<1> QED
  BY <1>3, <1>4, <1>5 DEF StepInv

\* Type correctness, and what every step of a process may rely on.
THEOREM DataInvariant == Spec => []DataInv
<1>1. Init => DataInv
  BY DataInit
<1>2. DataInv /\ [Next]_vars => DataInv'
  <2> SUFFICES ASSUME DataInv, [Next]_vars PROVE DataInv'
    OBVIOUS
  <2>1. LockInv'
    BY LockStepNext DEF DataInv
  <2>2. ASSUME NEW p \in Procs, Call(p) \/ LockStep(p) \/ StoreStep(p) \/ Interrupt(p) \/ Kill(p)
        PROVE  DataInv'
    <3>1. CASE LockStep(p)
      BY <2>1, <3>1, LockStepShape, LockMoveKeeps, StopsKeeps
    <3>2. CASE Kill(p)
      BY <2>1, <3>2, KillStops, StopsKeeps
    <3> QED
      BY <2>1, <2>2, <3>1, <3>2, CallKeeps, StoreStepKeeps, InterruptKeeps
  <2>3. ASSUME NEW path \in Paths, Edit(path) PROVE DataInv'
    BY <2>1, <2>3, EditKeeps
  <2>4. CASE UNCHANGED vars
    BY <2>1, <2>4 DEF vars, disk, DataInv, DiskTypes, CountTypes, CallInv, CallTypes, CallOf, LedgerInv,
       StepInv, StepOf, WriteOf, Operation, Marked, Restored, RestoredArtifacts, RestoredArtifact
  <2> QED
    BY <2>2, <2>3, <2>4 DEF Next
<1> QED
  BY <1>1, <1>2, PTL DEF Spec

\* Type correctness: every file, lock and variable of a call holds what the code
\* may put there, the decoded marker and ledger included.
THEOREM TypeOKHolds == Spec => []TypeOK
<1>1. DataInv => TypeOK
  BY DEF DataInv, LockInv, LockTypes, DiskTypes, CountTypes, CallInv, CallTypes, TypeOK
<1> QED
  BY DataInvariant, <1>1, PTL
-----------------------------------------------------------------------------
\* The refinement: what a step leaves alone, ...
StoredKept ==
    /\ \A path \in Paths : RestoredArtifact(path)' = RestoredArtifact(path)
    /\ RestoredLedger' = RestoredLedger
    /\ count'.edits = count.edits

OthersKept(p) ==
    \A q \in Procs \ {p} : pc'[q] = pc[q] /\ local'[q] = local[q] /\ answer'[q] = answer[q]

LEMMA AnswersOfOthers ==
    ASSUME NEW p \in Procs, OthersKept(p)
    PROVE  \A q \in Procs \ {p} : SettledAnswer(q)' = SettledAnswer(q)
BY DEF OthersKept, SettledAnswer, At

\* ... and that a step which leaves the store and the answers alone, or only
\* turns one into an error, is allowed.
LEMMA QuietOrFails ==
    ASSUME StoredKept, UNCHANGED request, NEW p \in Procs, request[p] # None, OthersKept(p),
           SettledAnswer(p)' = SettledAnswer(p) \/ SettledAnswer(p)' = "error"
    PROVE  [Atomic!Next]_Atomic!vars
<1>1. UNCHANGED Atomic!stored
  BY DEF Atomic!stored, StoredKept
<1>2. CASE SettledAnswer(p)' = SettledAnswer(p)
  BY <1>1, <1>2, AnswersOfOthers DEF Atomic!vars, Atomic!stored
<1>3. CASE SettledAnswer(p)' = "error"
  <2>1. [q \in Procs |-> SettledAnswer(q)]' = [[q \in Procs |-> SettledAnswer(q)] EXCEPT ![p] = "error"]
    BY <1>3, AnswersOfOthers
  <2> QED
    BY <1>1, <2>1 DEF Atomic!Fail, Atomic!Next
<1> QED
  BY <1>2, <1>3

\* The store counts as the same while its files are.
LEMMA SameDisk ==
    ASSUME UNCHANGED disk, count'.edits = count.edits
    PROVE  StoredKept
BY DEF StoredKept, disk, RestoredArtifact, RestoredLedger, Marked

\* How the steps that end, continue or raise change the answer.
LEMMA EndAnswer ==
    ASSUME DataInv, NEW p \in Procs, Goto(p, "unlock"), NEW a, Answer(p, a), UNCHANGED local
    PROVE  /\ SettledAnswer(p)' = IF local[p].stage = "rollback" THEN "error" ELSE a
           /\ OthersKept(p)
BY DEF SettledAnswer, At, Goto, Answer, OthersKept, DataInv, LockInv, LockTypes, CallInv, CallTypes

LEMMA GotoAnswer ==
    ASSUME DataInv, NEW p \in Procs, NEW step, Goto(p, step), UNCHANGED <<local, answer>>,
           local[p].stage # "write" \/ (step # "sweep" /\ pc[p] # "sweep") \/ (step = pc[p])
    PROVE  SettledAnswer(p)' = SettledAnswer(p) /\ OthersKept(p)
BY DEF SettledAnswer, At, Goto, OthersKept, DataInv, LockInv, LockTypes

LEMMA RaiseAnswer ==
    ASSUME DataInv, NEW p \in Procs, Raise(p)
    PROVE  SettledAnswer(p)' = "error" /\ OthersKept(p)
<1>1. CASE local[p].stage = "write"
  <2>1. /\ Goto(p, "recover") /\ answer' = answer
        /\ local' = [local EXCEPT ![p] = [local[p] EXCEPT !.stage = "rollback"]]
    BY <1>1 DEF Raise
  <2>2. [local[p] EXCEPT !.stage = "rollback"].stage = "rollback"
    BY DEF DataInv, CallInv, CallTypes, Local
  <2> QED
    BY <2>1, <2>2 DEF SettledAnswer, Goto, OthersKept, DataInv, LockInv, LockTypes, CallInv, CallTypes
<1>2. CASE local[p].stage # "write"
  BY <1>2, EndAnswer DEF Raise, Fail
<1> QED
  BY <1>1, <1>2

LEMMA ThenAnswer ==
    ASSUME DataInv, NEW p \in Procs, NEW next, Then(p, next), next # "sweep", pc[p] # "sweep"
    PROVE  /\ SettledAnswer(p)' = SettledAnswer(p) \/ SettledAnswer(p)' = "error"
           /\ OthersKept(p) /\ count'.edits = count.edits
BY GotoAnswer, RaiseAnswer, FaultCounted DEF Then, DataInv
-----------------------------------------------------------------------------
\* A process in an operation has made a call, and has no answer before it ends.
LEMMA InCall ==
    ASSUME DataInv, NEW p \in Procs, pc[p] \in Critical
    PROVE  request[p] # None /\ answer[p] = None
BY DEF DataInv, CallInv, CallOf, Outside, Critical

\* The recovery restores what the store already counts as its contents.
LEMMA RecoveryMaps ==
    ASSUME DataInv, NEW p \in Procs,
           Recover(p) \/ BackupMissing(p) \/ Restore(p) \/ RestoreLedger(p)
    PROVE  [Atomic!Next]_Atomic!vars
<1> USE DEF DataInv
<1>1. CASE Recover(p)
  <2>1. pc[p] = "recover" /\ local[p].stage # "write" /\ UNCHANGED <<disk, request>> /\ request[p] # None
    BY <1>1, InCall DEF Recover, At, StepInv, StepOf, Critical
  <2>2. /\ SettledAnswer(p)' = SettledAnswer(p) \/ SettledAnswer(p)' = "error"
        /\ OthersKept(p) /\ UNCHANGED count
    BY <1>1, <2>1, GotoAnswer, EndAnswer DEF Recover, Resolved, Fail, Finish
  <2> QED
    BY <2>1, <2>2, SameDisk, QuietOrFails
<1>2. CASE BackupMissing(p)
  <2>1. /\ UNCHANGED <<disk, request, count>> /\ request[p] # None
        /\ Goto(p, "unlock") /\ Answer(p, "error") /\ UNCHANGED local
    BY <1>2, InCall DEF BackupMissing, Fail, At, Critical
  <2> QED
    BY <2>1, EndAnswer, SameDisk, QuietOrFails
<1>3. CASE Restore(p)
  <2>1. /\ pc[p] = "restore" /\ local[p].stage # "write" /\ Marked /\ request[p] # None
        /\ UNCHANGED <<ledger, tx, request>>
        /\ tx.marker.had => tx.before # None
    BY <1>3, InCall DEF Restore, At, StepInv, StepOf, Critical
  <2>2. /\ SettledAnswer(p)' = SettledAnswer(p) \/ SettledAnswer(p)' = "error"
        /\ OthersKept(p) /\ count'.edits = count.edits
    BY <1>3, <2>1, GotoAnswer, EndAnswer, FaultCounted DEF Restore, Fail
  <2>3. artifact' = [artifact EXCEPT ![tx.marker.path] = IF tx.marker.had THEN tx.before ELSE None]
    BY <1>3 DEF Restore
  <2>4. \A path \in Paths : RestoredArtifact(path)' = RestoredArtifact(path)
    BY <2>1, <2>3 DEF RestoredArtifact, Marked, DiskTypes
  <2>5. StoredKept
    BY <2>1, <2>2, <2>4 DEF StoredKept, RestoredLedger, Marked
  <2> QED
    BY <2>1, <2>2, <2>5, QuietOrFails
<1>4. CASE RestoreLedger(p)
  <2>1. /\ pc[p] = "restoreLedger" /\ local[p].stage # "write" /\ Marked /\ request[p] # None
        /\ UNCHANGED <<artifact, tx, request>>
        /\ tx.ledger # None
    BY <1>4, InCall DEF RestoreLedger, At, StepInv, StepOf, Critical
  <2>2. /\ SettledAnswer(p)' = SettledAnswer(p) \/ SettledAnswer(p)' = "error"
        /\ OthersKept(p) /\ count'.edits = count.edits
    BY <1>4, <2>1, GotoAnswer, EndAnswer, FaultCounted DEF RestoreLedger, Fail
  <2>3. StoredKept
    BY <2>1, <2>2 DEF StoredKept, RestoredArtifact, RestoredLedger, Marked
  <2> QED
    BY <2>1, <2>2, <2>3, QuietOrFails
<1> QED
  BY <1>1, <1>2, <1>3, <1>4

\* Nothing that is swept away is needed any more.
LEMMA SweepMaps ==
    ASSUME DataInv, DataInv', NEW p \in Procs, Sweep(p)
    PROVE  [Atomic!Next]_Atomic!vars
<1> USE DEF DataInv
<1>1. /\ pc[p] = "sweep" /\ Restored /\ request[p] # None /\ ledger # None
      /\ UNCHANGED <<artifact, ledger, request>>
  BY InCall DEF Sweep, At, StepInv, StepOf, Critical, LedgerInv
<1>2. ASSUME Restored'
      PROVE  /\ \A path \in Paths : RestoredArtifact(path)' = RestoredArtifact(path)
             /\ RestoredLedger' = RestoredLedger
  BY <1>1, <1>2 DEF Restored, RestoredArtifacts, RestoredLedger
<1>3. CASE tx = EmptyTransaction
  <2>1. tx' = None
    BY <1>3 DEF Sweep
  <2>2. Restored'
    BY <2>1 DEF Restored, RestoredArtifacts, RestoredArtifact, Marked
  <2>3. /\ SettledAnswer(p)' = SettledAnswer(p) \/ SettledAnswer(p)' = "error"
        /\ OthersKept(p) /\ count'.edits = count.edits
    <3>1. CASE local[p].stage = "before" /\ Resolved(p)
      BY <3>1, GotoAnswer DEF Resolved
    <3>2. CASE local[p].stage = "write" /\ Resolved(p)
      BY <1>1, <3>2, EndAnswer DEF Resolved, Finish, SettledAnswer, At
    <3>3. CASE local[p].stage \notin {"before", "write"} /\ Resolved(p)
      BY <3>3, EndAnswer DEF Resolved, Fail
    <3>4. CASE Fault("disk") /\ Raise(p)
      BY <3>4, RaiseAnswer, FaultCounted
    <3> QED
      BY <1>3, <3>1, <3>2, <3>3, <3>4 DEF Sweep
  <2> QED
    BY <1>1, <1>2, <2>2, <2>3, QuietOrFails DEF StoredKept
<1>4. CASE tx # EmptyTransaction
  <2>1. Goto(p, "sweep") /\ UNCHANGED <<local, answer, count>>
    BY <1>4 DEF Sweep
  <2>2. Restored'
    BY <2>1 DEF Goto, LockInv, LockTypes, StepInv, StepOf
  <2> QED
    BY <1>1, <1>2, <2>1, <2>2, GotoAnswer, QuietOrFails DEF StoredKept
<1> QED
  BY <1>3, <1>4

\* Opening and verifying read the store.
LEMMA ReadMaps ==
    ASSUME DataInv, NEW p \in Procs, Create(p) \/ VerifyLocked(p)
    PROVE  [Atomic!Next]_Atomic!vars
<1> USE DEF DataInv
<1>1. /\ pc[p] \in {"create", "verify"} /\ pc[p] = Operation(p) /\ tx = None /\ tx' = None
      /\ local[p].stage = "before" /\ request[p] # None /\ answer[p] = None
      /\ UNCHANGED <<artifact, request>>
      /\ ledger' = ledger \/ (ledger = None /\ ledger' = EmptyLedger)
  BY InCall DEF Create, VerifyLocked, At, StepInv, StepOf, Critical, disk
<1>2. PICK a \in {"ok", "error"} :
         /\ Goto(p, "unlock") /\ Answer(p, a) /\ UNCHANGED local
         /\ count'.edits = count.edits
         /\ a = "ok" /\ pc[p] = "verify" => LockedUntouched
  BY FaultCounted DEF Create, VerifyLocked, Finish, Fail, At
<1>3. StoredKept
  BY <1>1, <1>2 DEF StoredKept, RestoredArtifact, RestoredLedger, Marked
<1>4. SettledAnswer(p) = None /\ SettledAnswer(p)' = a /\ OthersKept(p)
  BY <1>1, <1>2, EndAnswer DEF SettledAnswer, At
<1>5. CASE a = "error"
  BY <1>1, <1>3, <1>4, <1>5, QuietOrFails
<1>6. CASE a = "ok"
  <2>1. request[p].op # "write" /\ (request[p].op = "verify" => pc[p] = "verify")
    BY <1>1 DEF Operation
  <2>2. ASSUME request[p].op = "verify" PROVE Atomic!Verified
    <3>1. LockedUntouched /\ ledger # None
      BY <1>1, <1>2, <1>6, <2>1, <2>2 DEF LedgerInv
    <3> QED
      BY <1>1, <3>1 DEF LockedUntouched, Atomic!Verified, Atomic!Unlocked, RestoredArtifact, RestoredLedger, Marked
  <2>3. [q \in Procs |-> SettledAnswer(q)]' = [[q \in Procs |-> SettledAnswer(q)] EXCEPT ![p] = "ok"]
    BY <1>4, <1>6, AnswersOfOthers
  <2>4. Atomic!Read(p)
    BY <1>1, <1>3, <1>4, <2>1, <2>2, <2>3 DEF Atomic!Read, Atomic!stored, StoredKept
  <2> QED
    BY <2>4 DEF Atomic!Next
<1> QED
  BY <1>5, <1>6

\* Until its marker is gone a write has changed nothing.
LEMMA PreparationMaps ==
    ASSUME DataInv, NEW p \in Procs,
           \/ Begin(p) \/ BackupLedger(p) \/ BackupArtifact(p)
           \/ Mark(p) \/ Install(p) \/ RecordArtifact(p)
    PROVE  [Atomic!Next]_Atomic!vars
<1> USE DEF DataInv
<1>1. CASE Begin(p)
  <2>1. pc[p] = "begin" /\ request[p] # None /\ tx = None /\ local[p].stage = "before" /\ answer[p] = None
    BY <1>1, BeginRequest, InCall DEF Begin, At, Critical
  <2>2. UNCHANGED <<artifact, ledger, request>> /\ (tx' = None \/ tx' = EmptyTransaction)
    BY <1>1, <2>1 DEF Begin
  <2>3. SettledAnswer(p) = None /\ count'.edits = count.edits /\ OthersKept(p) /\ SettledAnswer(p)' \in {None, "error"}
    <3>1. CASE Goto(p, "unlock") /\ Answer(p, "error") /\ UNCHANGED local
      BY <1>1, <2>1, <3>1, EndAnswer, FaultCounted DEF Begin, Finish, SettledAnswer, At
    <3>2. CASE ~(Goto(p, "unlock") /\ Answer(p, "error") /\ UNCHANGED local)
      <4>1. /\ Goto(p, "backupLedger") /\ UNCHANGED <<answer, count>>
            /\ local' = [local EXCEPT ![p].stage = "write", ![p].records = ledger]
        BY <1>1, <3>2 DEF Begin, Finish, Fail
      <4>2. local'[p].stage = "write"
        BY <4>1 DEF CallInv, CallTypes, Local
      <4> QED
        BY <2>1, <4>1, <4>2 DEF SettledAnswer, At, Goto, OthersKept, LockInv, LockTypes, CallInv, CallTypes
    <3> QED
      BY <3>1, <3>2
  <2>4. StoredKept
    BY <2>1, <2>2, <2>3 DEF StoredKept, RestoredArtifact, RestoredLedger, Marked, EmptyTransaction
  <2> QED
    BY <2>1, <2>2, <2>3, <2>4, QuietOrFails
<1>2. CASE pc[p] \in Writing
  <2>0. /\ WriteOf(p) /\ local[p].stage = "write" /\ request[p] # None /\ request[p].path \in Paths
        /\ tx \in Transaction /\ tx # None /\ local[p] \in Local /\ local[p].records \in Ledger
    BY <1>2, WritingFacts
  <2>1. CASE BackupLedger(p) \/ Mark(p) \/ Install(p) \/ RecordArtifact(p)
    <3>1. /\ SettledAnswer(p)' = SettledAnswer(p) \/ SettledAnswer(p)' = "error"
          /\ OthersKept(p) /\ count'.edits = count.edits /\ UNCHANGED request
      BY <2>1, ThenAnswer DEF BackupLedger, Mark, Install, RecordArtifact, At
    <3>2. ASSUME BackupLedger(p) PROVE StoredKept
      <4>1. tx.marker = None /\ tx'.marker = None /\ UNCHANGED <<artifact, ledger>>
        BY <2>0, <3>2 DEF BackupLedger, At, WriteOf, Transaction
      <4> QED
        BY <3>1, <4>1 DEF StoredKept, RestoredArtifact, RestoredLedger, Marked
    <3>3. ASSUME Mark(p) PROVE StoredKept
      <4> DEFINE m == [path |-> request[p].path, had |-> local[p].had]
      <4>1. /\ tx' = [tx EXCEPT !.marker = m] /\ UNCHANGED <<artifact, ledger>> /\ pc[p] = "mark"
        BY <3>3 DEF Mark, At
      <4>2. m \in Marker /\ m.path = request[p].path /\ m.had = local[p].had
        BY <2>0 DEF Marker, Local
      <4> HIDE DEF m
      <4>3. tx' # None /\ tx'.marker = m /\ m # None /\ tx'.ledger = tx.ledger /\ tx'.before = tx.before
        BY <2>0, <4>1, <4>2, NoneAssumption DEF Transaction
      <4>4. /\ ledger = tx.ledger /\ ledger # None /\ tx.marker = None
            /\ artifact[m.path] = tx.before /\ (m.had <=> tx.before # None)
        BY <2>0, <4>1, <4>2, NoneAssumption DEF WriteOf
      <4> QED
        BY <3>1, <4>1, <4>3, <4>4 DEF StoredKept, RestoredArtifact, RestoredLedger, Marked
    <3>4. ASSUME Install(p) PROVE StoredKept
      <4>1. /\ artifact' = [artifact EXCEPT ![request[p].path] = request[p].content]
            /\ UNCHANGED <<ledger, tx>> /\ pc[p] = "install"
        BY <3>4 DEF Install, At
      <4>2. Marked => tx.marker.path = request[p].path /\ (tx.marker.had <=> tx.before # None)
        BY <2>0, <4>1 DEF WriteOf
      <4>3. tx.marker # None
        <5>1. [path |-> request[p].path, had |-> local[p].had] \in Marker
          BY <2>0 DEF Marker, Local
        <5> QED
          BY <2>0, <4>1, <5>1, NoneAssumption DEF WriteOf
      <4> QED
        BY <2>0, <3>1, <4>1, <4>2, <4>3 DEF StoredKept, RestoredArtifact, RestoredLedger, Marked, DiskTypes
    <3>5. ASSUME RecordArtifact(p) PROVE StoredKept
      <4>1. UNCHANGED <<artifact, tx>> /\ pc[p] = "record"
        BY <3>5 DEF RecordArtifact, At
      <4>2. tx.ledger # None
        BY <2>0, <4>1, NoneAssumption DEF WriteOf
      <4>3. tx.marker # None
        <5>1. [path |-> request[p].path, had |-> local[p].had] \in Marker
          BY <2>0 DEF Marker, Local
        <5> QED
          BY <2>0, <4>1, <5>1, NoneAssumption DEF WriteOf
      <4> QED
        BY <2>0, <3>1, <4>1, <4>2, <4>3 DEF StoredKept, RestoredArtifact, RestoredLedger, Marked
    <3> QED
      BY <2>0, <2>1, <3>1, <3>2, <3>3, <3>4, <3>5, QuietOrFails
  <2>2. CASE BackupArtifact(p)
    <3>1. /\ tx' = [tx EXCEPT !.before = artifact[request[p].path]] /\ UNCHANGED <<artifact, ledger, request>>
          /\ pc[p] = "backupArtifact"
      BY <2>2 DEF BackupArtifact, At
    <3>2. tx.marker = None /\ tx'.marker = None
      BY <2>0, <3>1 DEF WriteOf, Transaction
    <3>3. /\ SettledAnswer(p)' = SettledAnswer(p) \/ SettledAnswer(p)' = "error"
          /\ OthersKept(p) /\ count'.edits = count.edits
      <4>1. CASE Fault("disk") /\ Raise(p)
        BY <4>1, RaiseAnswer, FaultCounted
      <4>2. CASE ~(Fault("disk") /\ Raise(p))
        <5>1. /\ Goto(p, "mark") /\ UNCHANGED <<answer, count>>
              /\ local' = [local EXCEPT ![p].had = artifact[request[p].path] # None]
          BY <2>2, <4>2 DEF BackupArtifact
        <5>2. local'[p].stage = local[p].stage
          BY <2>0, <5>1 DEF CallInv, CallTypes, Local
        <5> QED
          BY <2>0, <3>1, <5>1, <5>2 DEF SettledAnswer, At, Goto, OthersKept, LockInv, LockTypes, CallInv, CallTypes
      <4> QED
        BY <4>1, <4>2
    <3>4. StoredKept
      BY <3>1, <3>2, <3>3 DEF StoredKept, RestoredArtifact, RestoredLedger, Marked
    <3> QED
      BY <2>0, <3>1, <3>3, <3>4, QuietOrFails
  <2>3. pc[p] # "begin"
    BY <1>2 DEF Writing
  <2> QED
    BY <2>1, <2>2, <2>3 DEF Begin, At
<1> QED
  BY <1>1, <1>2 DEF BackupLedger, BackupArtifact, Mark, Install, RecordArtifact, At, Writing

\* Unlinking the marker is the write.
LEMMA CommitMaps ==
    ASSUME DataInv, NEW p \in Procs, Commit(p)
    PROVE  [Atomic!Next]_Atomic!vars
<1> USE DEF DataInv
<1>1. /\ pc[p] = "commit" /\ Then(p, "sweep") /\ tx' = [tx EXCEPT !.marker = None]
      /\ UNCHANGED <<artifact, ledger, request>>
  BY DEF Commit, At
<1>2. /\ WriteOf(p) /\ local[p].stage = "write" /\ request[p] # None /\ request[p].op = "write"
      /\ request[p].path \in Paths /\ tx \in Transaction /\ tx # None /\ ledger # None
      /\ local[p] \in Local /\ local[p].records \in Ledger /\ answer[p] = None
  BY <1>1, WritingFacts, InCall DEF Writing
<1>3. /\ tx.marker.path = request[p].path /\ tx.ledger = local[p].records
      /\ ledger = [local[p].records EXCEPT ![request[p].path] =
                      [sha256 |-> request[p].content, locked |-> request[p].lock]]
      /\ artifact[request[p].path] = request[p].content
      /\ local[p].records[request[p].path] = None \/ ~local[p].records[request[p].path].locked
  BY <1>1, <1>2 DEF WriteOf
<1>4. tx.marker # None
  <2>1. [path |-> request[p].path, had |-> local[p].had] \in Marker
    BY <1>2 DEF Marker, Local
  <2> QED
    BY <1>1, <1>2, <2>1, NoneAssumption DEF WriteOf
<1>5. RestoredLedger = local[p].records
  BY <1>2, <1>3, <1>4, NoneAssumption DEF RestoredLedger, Marked
<1>6. ~Marked' /\ RestoredLedger' = ledger /\ \A path \in Paths : RestoredArtifact(path)' = artifact[path]
  BY <1>1, <1>2 DEF RestoredLedger, RestoredArtifact, Marked, Transaction
<1>7. \A path \in Paths \ {request[p].path} : RestoredArtifact(path) = artifact[path]
  BY <1>3 DEF RestoredArtifact
<1>8. [path \in Paths |-> RestoredArtifact(path)]' =
         [[path \in Paths |-> RestoredArtifact(path)] EXCEPT ![request[p].path] = request[p].content]
  BY <1>3, <1>6, <1>7
<1>9. PICK a \in {"ok", "error"} : SettledAnswer(p)' = a /\ OthersKept(p) /\ count'.edits = count.edits
  <2>1. CASE Goto(p, "sweep") /\ UNCHANGED <<local, answer, count>>
    BY <1>2, <2>1 DEF SettledAnswer, At, Goto, OthersKept, LockInv, LockTypes
  <2>2. CASE Fault("disk") /\ Raise(p)
    BY <2>2, RaiseAnswer, FaultCounted
  <2> QED
    BY <1>1, <2>1, <2>2 DEF Then
<1>10. SettledAnswer(p) = None
  BY <1>1, <1>2 DEF SettledAnswer, At
<1>11. [q \in Procs |-> SettledAnswer(q)]' = [[q \in Procs |-> SettledAnswer(q)] EXCEPT ![p] = a]
  BY <1>9, AnswersOfOthers
<1>12. Atomic!Write(p)
  BY <1>1, <1>2, <1>3, <1>5, <1>6, <1>8, <1>9, <1>10, <1>11 DEF Atomic!Write, Atomic!Unlocked
<1> QED
  BY <1>12 DEF Atomic!Next
-----------------------------------------------------------------------------
\* Every step of an operation is one of the abstract store.
LEMMA StoreStepMaps ==
    ASSUME DataInv, DataInv', NEW p \in Procs, StoreStep(p)
    PROVE  [Atomic!Next]_Atomic!vars
<1>1. CASE StepFails(p)
  <2>1. pc[p] \in Critical /\ Fault("disk") /\ Raise(p) /\ UNCHANGED <<disk, request>>
    BY <1>1 DEF StepFails
  <2> QED
    BY <2>1, InCall, RaiseAnswer, FaultCounted, SameDisk, QuietOrFails DEF DataInv
<1> QED
  BY <1>1, RecoveryMaps, SweepMaps, ReadMaps, PreparationMaps, CommitMaps DEF StoreStep

\* The end of a call is seen.
LEMMA StopsMaps ==
    ASSUME DataInv, NEW p \in Procs, Stops(p), count'.edits = count.edits
    PROVE  [Atomic!Next]_Atomic!vars
<1> USE DEF DataInv
<1>1. StoredKept
  BY SameDisk DEF Stops
<1>2. SettledAnswer(p)' = None /\ \A q \in Procs \ {p} : SettledAnswer(q)' = SettledAnswer(q)
  BY DEF Stops, SettledAnswer, At, Goto, NoLocal, LockInv, LockTypes, CallInv, CallTypes
<1>3. [q \in Procs |-> SettledAnswer(q)]' = [[q \in Procs |-> SettledAnswer(q)] EXCEPT ![p] = None]
  BY <1>2
<1>4. Atomic!Return(p)
  BY <1>1, <1>3 DEF Atomic!Return, Atomic!stored, StoredKept, Stops
<1> QED
  BY <1>4 DEF Atomic!Next

\* Entering the lock is not visible.
LEMMA LockMoveMaps ==
    ASSUME DataInv, UNCHANGED <<disk, request, local, answer>>, count'.edits = count.edits,
           NEW p \in Procs, pc[p] \in Locking,
           NEW step \in Locking \cup {"recover"}, Goto(p, step)
    PROVE  UNCHANGED Atomic!vars
<1>1. \A q \in Procs : SettledAnswer(q)' = SettledAnswer(q)
  BY DEF SettledAnswer, At, Goto, Locking, DataInv, LockInv, LockTypes
<1>2. StoredKept
  BY SameDisk
<1> QED
  BY <1>1, <1>2 DEF Atomic!vars, StoredKept

\* A call is a call.
LEMMA CallMaps ==
    ASSUME DataInv, NEW p \in Procs, Call(p)
    PROVE  [Atomic!Next]_Atomic!vars
<1> USE DEF DataInv
<1>1. /\ pc[p] \in Outside /\ Goto(p, "flock")
      /\ UNCHANGED <<disk, locks, local, answer, count>>
  BY DEF Call, At, Outside
<1>2. StoredKept
  BY <1>1, SameDisk
<1>3. \A q \in Procs : SettledAnswer(q)' = SettledAnswer(q)
  BY <1>1 DEF SettledAnswer, At, Goto, Outside, LockInv, LockTypes
<1>4. request[p] = None
  BY <1>1 DEF CallInv, CallOf
<1>5. Atomic!Call(p)
  BY <1>2, <1>3, <1>4 DEF Call, Atomic!Call, Atomic!stored, StoredKept
<1> QED
  BY <1>5 DEF Atomic!Next

\* An edit from outside is an edit.
LEMMA EditMaps ==
    ASSUME DataInv, NEW path \in Paths, Edit(path)
    PROVE  [Atomic!Next]_Atomic!vars
<1> USE DEF DataInv
<1>1. PICK c \in Contents \cup {None} : artifact' = [artifact EXCEPT ![path] = c]
  BY DEF Edit
<1>2. tx = None /\ UNCHANGED <<ledger, tx, locks, pc, request, local, answer>> /\ count'.edits = count.edits + 1
  BY DEF Edit, CountTypes
<1>3. [a \in Paths |-> RestoredArtifact(a)]' = [[a \in Paths |-> RestoredArtifact(a)] EXCEPT ![path] = c]
  BY <1>1, <1>2 DEF RestoredArtifact, Marked, DiskTypes
<1>4. RestoredLedger' = RestoredLedger /\ \A q \in Procs : SettledAnswer(q)' = SettledAnswer(q)
  BY <1>2 DEF RestoredLedger, Marked, SettledAnswer, At
<1>5. Atomic!Edit(path)
  BY <1>2, <1>3, <1>4 DEF Atomic!Edit
<1> QED
  BY <1>5 DEF Atomic!Next

\* The artifact store is atomic (_write, _recover_transaction, verify_locked):
\* an artifact and its record change together, in the step that unlinks the
\* marker of the call that asked for it; every exception, interrupt and crash
\* leaves a state that counts as all of it or nothing.
THEOREM ArtifactStoreIsAtomic == Spec => ImplementsAtomic
<1>1. Init => Atomic!Init
  BY DEF Init, Atomic!Init, RestoredArtifact, RestoredLedger, Marked, EmptyLedger, SettledAnswer, At, NoLocal
<1>2. DataInv /\ DataInv' /\ [Next]_vars => [Atomic!Next]_Atomic!vars
  <2> SUFFICES ASSUME DataInv, DataInv', [Next]_vars PROVE [Atomic!Next]_Atomic!vars
    OBVIOUS
  <2>1. ASSUME NEW p \in Procs, Call(p) \/ LockStep(p) \/ StoreStep(p) \/ Interrupt(p) \/ Kill(p)
        PROVE  [Atomic!Next]_Atomic!vars
    <3>1. CASE LockStep(p)
      BY <3>1, LockStepShape, LockMoveMaps, StopsMaps
    <3>2. CASE Kill(p)
      BY <3>2, KillStops, StopsMaps
    <3>3. CASE Interrupt(p)
      <4>1. CASE pc[p] \in Critical /\ Fail(p) /\ UNCHANGED <<disk, locks, request>>
        BY <3>3, <4>1, InterruptShape, InCall, EndAnswer, SameDisk, QuietOrFails DEF Fail
      <4> QED
        BY <3>3, <4>1, InterruptShape, StopsMaps
    <3> QED
      BY <2>1, <3>1, <3>2, <3>3, CallMaps, StoreStepMaps
  <2>2. ASSUME NEW path \in Paths, Edit(path) PROVE [Atomic!Next]_Atomic!vars
    BY <2>2, EditMaps
  <2>3. CASE UNCHANGED vars
    BY <2>3 DEF vars, disk, Atomic!vars, RestoredArtifact, RestoredLedger, Marked, SettledAnswer, At
  <2> QED
    BY <2>1, <2>2, <2>3 DEF Next
<1> QED
  BY <1>1, <1>2, DataInvariant, PTL DEF Spec, ImplementsAtomic, Atomic!Spec
=============================================================================
