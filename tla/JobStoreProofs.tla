--------------------------- MODULE JobStoreProofs ---------------------------
(***************************************************************************)
(* The safety properties of JobStore, proved for every number of           *)
(* processes, attempts, specifications and results.                        *)
(*                                                                         *)
(* None of them is inductive: an operation decides under the lock and saves*)
(* in later steps, so the invariant has to say what is still true of the   *)
(* files while a decision waits to be saved.  PendInv says it, operation by*)
(* operation; LockInv that no two operations wait at once.                 *)
(***************************************************************************)
EXTENDS JobStore, TLAPS

-----------------------------------------------------------------------------
\* Exactly the holder of the lock is inside an operation.
LockInv == \A p \in Procs : pend[p] # Idle <=> lock = p

\* The attempts on disk are those of a job that may be closed with result r.
AttemptsAgree(r) ==
    /\ Running = {}
    /\ Present # {} => /\ attempts[LastAttempt].status = "complete"
                       /\ attempts[LastAttempt].result = r

RecordAgrees(j) ==
    /\ j.artifact # None
    /\ j.artifact[1] = j.result
    /\ AttemptsAgree(j.result)

\* What holds of the files while operation w waits to be saved.
BeginPend(w) ==
    /\ w.op = "begin"
    /\ w.att # 0
    /\ w.rec.status = "running"
    /\ w.job.status = "running"
    /\ w.job.spec = job.spec
    /\ job.status \notin {"absent", "complete", "running"}
    /\ IF w.wrote THEN Running = {w.att}
       ELSE Running = {} /\ attempts[w.att].status = "absent"

AttemptPend(w) ==
    /\ w.op \in {"packet", "finish"}
    /\ w.att # 0
    /\ ~w.wrote
    /\ w.job = NoJob
    /\ w.rec.status = IF w.op = "packet" THEN "running" ELSE "complete"
    /\ job.status = "running"
    /\ Running = {w.att}

FailPend(w) ==
    /\ w.op = "fail"
    /\ w.att # 0
    /\ w.rec.status = "failed"
    /\ w.job.status = "pending"
    /\ w.job.spec = job.spec
    /\ job.status = "running"
    /\ Running = IF w.wrote THEN {} ELSE {w.att}

ClosePend(w) ==
    /\ w.op = "complete"
    /\ w.att = 0
    /\ w.job.status = "complete"
    /\ w.job.spec = job.spec
    /\ job.status \notin {"absent", "complete"}
    /\ RecordAgrees(w.job)
    /\ ~touched => w.job.artifact = artifact

CreatePend(w) ==
    /\ w.op = "create"
    /\ w.att = 0
    /\ w.job.status = "pending"
    /\ job.status = "absent"

OtherPend(w) ==
    /\ w.op \in {"reject", "failjob", "block", "retract"}
    /\ w.att = 0
    /\ w.job.status \in {"pending", "failed", "blocked"}
    /\ w.job.spec = job.spec
    /\ job.status # "absent"
    /\ job.status = "complete" => touched

PendOK(w) ==
    BeginPend(w) \/ AttemptPend(w) \/ FailPend(w) \/ ClosePend(w) \/ CreatePend(w) \/ OtherPend(w)

PendInv == \A p \in Procs : pend[p] # Idle => PendOK(pend[p])

\* A complete job's artifact is the accepted one unless it has been rewritten.
ArtifactKept == job.status = "complete" /\ ~touched => artifact = job.artifact

IInv == TypeOK /\ LockInv /\ PendInv /\ OneRunningAttempt /\ CompleteJobAgrees /\ ArtifactKept
-----------------------------------------------------------------------------
\* Type correctness needs none of this: what is saved was typed when decided.
LEMMA TypeInit == Init => TypeOK
<1> USE JobStoreAssumption
<1>1. NoJob \in Job
  BY DEF NoJob, Job
<1>2. NoAttempt \in Attempt
  BY DEF NoAttempt, Attempt
<1>3. Idle \in Pending
  BY <1>1, <1>2 DEF Idle, Pending, Ops
<1> QED
  BY <1>1, <1>2, <1>3 DEF Init, TypeOK

\* Entering an operation keeps the types if what it is going to save is typed.
LEMMA EnterTyped ==
    ASSUME TypeOK,
           NEW p \in Procs, NEW op \in Ops, NEW a \in 0 .. MaxAttempts,
           NEW rec \in Attempt, NEW j \in Job,
           Enter(p, op, a, rec, j)
    PROVE  lock' \in Procs \cup {None} /\ pend' \in [Procs -> Pending]
<1>1. [op |-> op, att |-> a, wrote |-> FALSE, rec |-> rec, job |-> j] \in Pending
  BY DEF Pending
<1> QED
  BY <1>1 DEF Enter, TypeOK

\* Leaving an operation keeps the types.
LEMMA ReleaseTyped ==
    ASSUME TypeOK, NEW p \in Procs, Release(p)
    PROVE  lock' \in Procs \cup {None} /\ pend' \in [Procs -> Pending]
<1>1. Idle \in Pending
  BY JobStoreAssumption DEF Idle, Pending, Ops, NoJob, Job, NoAttempt, Attempt
<1> QED
  BY <1>1 DEF Release, TypeOK

\* Each operation of the store enters with typed records in hand.
LEMMA OperationTyped ==
    ASSUME TypeOK, NEW p \in Procs, Operation(p)
    PROVE  TypeOK'
<1> USE JobStoreAssumption
<1>a. job \in Job /\ NoJob \in Job /\ NoAttempt \in Attempt
  BY DEF TypeOK, NoJob, Job, NoAttempt, Attempt
<1>b. \A a \in AttemptIds : a \in 0 .. MaxAttempts /\ attempts[a] \in Attempt
  BY DEF TypeOK, AttemptIds
<1>1. ASSUME NEW s \in Specs, CreateOrLoadJob(p, s)
      PROVE  TypeOK'
  <2>1. [NoJob EXCEPT !.status = "pending", !.spec = s] \in Job
    BY DEF NoJob, Job, JobStatus
  <2>2. lock' \in Procs \cup {None} /\ pend' \in [Procs -> Pending]
    BY <1>1, <1>a, <2>1, EnterTyped DEF CreateOrLoadJob, EnterJob, Ops
  <2> QED
    BY <1>1, <2>2 DEF CreateOrLoadJob, TypeOK, filesUnchanged
<1>2. CASE BeginAttempt(p)
  <2>1. PICK n \in AttemptIds :
             /\ reserved' = reserved \cup {n}
             /\ Enter(p, "begin", n, [NoAttempt EXCEPT !.status = "running"],
                      [job EXCEPT !.status = "running"])
    BY <1>2 DEF BeginAttempt
  <2>2. [NoAttempt EXCEPT !.status = "running"] \in Attempt
    BY DEF NoAttempt, Attempt, AttemptStatus
  <2>3. [job EXCEPT !.status = "running"] \in Job
    BY <1>a DEF Job, JobStatus
  <2>4. lock' \in Procs \cup {None} /\ pend' \in [Procs -> Pending]
    BY <1>b, <2>1, <2>2, <2>3, EnterTyped DEF Ops
  <2> QED
    BY <1>2, <2>1, <2>4 DEF BeginAttempt, TypeOK, filesUnchanged
<1>3. ASSUME NEW a \in AttemptIds, RecordPacket(p, a)
      PROVE  TypeOK'
  <2>1. [attempts[a] EXCEPT !.packet = TRUE] \in Attempt
    BY <1>b DEF Attempt
  <2>2. lock' \in Procs \cup {None} /\ pend' \in [Procs -> Pending]
    BY <1>3, <1>a, <1>b, <2>1, EnterTyped DEF RecordPacket, EnterAttempt, Ops
  <2> QED
    BY <1>3, <2>2 DEF RecordPacket, TypeOK, filesUnchanged
<1>4. ASSUME NEW a \in AttemptIds, FailAttempt(p, a)
      PROVE  TypeOK'
  <2>1. [attempts[a] EXCEPT !.status = "failed"] \in Attempt
    BY <1>b DEF Attempt, AttemptStatus
  <2>2. [job EXCEPT !.status = "pending"] \in Job
    BY <1>a DEF Job, JobStatus
  <2>3. lock' \in Procs \cup {None} /\ pend' \in [Procs -> Pending]
    BY <1>4, <1>b, <2>1, <2>2, EnterTyped DEF FailAttempt, Ops
  <2> QED
    BY <1>4, <2>3 DEF FailAttempt, TypeOK, filesUnchanged
<1>5. ASSUME NEW a \in AttemptIds, NEW r \in Results, CompleteAttempt(p, a, r)
      PROVE  TypeOK'
  <2>1. [attempts[a] EXCEPT !.status = "complete", !.result = r] \in Attempt
    BY <1>b DEF Attempt, AttemptStatus
  <2>2. lock' \in Procs \cup {None} /\ pend' \in [Procs -> Pending]
    BY <1>5, <1>a, <1>b, <2>1, EnterTyped DEF CompleteAttempt, EnterAttempt, Ops
  <2> QED
    BY <1>5, <2>2 DEF CompleteAttempt, TypeOK, filesUnchanged
<1>6. ASSUME NEW r \in Results, CompleteJob(p, r)
      PROVE  TypeOK'
  <2>1. [job EXCEPT !.status = "complete", !.artifact = artifact, !.result = r] \in Job
    BY <1>a DEF TypeOK, Job, JobStatus
  <2>2. [job EXCEPT !.status = "pending"] \in Job
    BY <1>a DEF Job, JobStatus
  <2>3. lock' \in Procs \cup {None} /\ pend' \in [Procs -> Pending]
    BY <1>6, <1>a, <2>1, <2>2, EnterTyped DEF CompleteJob, EnterJob, Ops
  <2>4. touched' \in BOOLEAN
    BY <1>6 DEF CompleteJob, TypeOK
  <2> QED
    BY <1>6, <2>3, <2>4 DEF CompleteJob, TypeOK, filesUnchanged
<1>7. CASE FailJob(p) \/ BlockJob(p)
  <2>1. /\ [job EXCEPT !.status = "failed"] \in Job
        /\ [job EXCEPT !.status = "blocked"] \in Job
    BY <1>a DEF Job, JobStatus
  <2>2. lock' \in Procs \cup {None} /\ pend' \in [Procs -> Pending]
    BY <1>7, <1>a, <2>1, EnterTyped DEF FailJob, BlockJob, EnterJob, Ops
  <2> QED
    BY <1>7, <2>2 DEF FailJob, BlockJob, TypeOK, filesUnchanged
<1>8. CASE CompletedData(p)
  <2>1. CASE ArtifactTrusted /\ reused' = [reused EXCEPT ![p] = artifact[1]] /\ UNCHANGED <<lock, pend>>
    <3>1. artifact \in Results \X Forms
      BY <2>1, <1>a DEF ArtifactTrusted, Job, Content, TypeOK
    <3>2. artifact[1] \in Results
      BY <3>1
    <3> QED
      BY <1>8, <2>1, <3>2 DEF CompletedData, TypeOK, filesUnchanged
  <2>2. CASE EnterJob(p, "retract", [job EXCEPT !.status = "pending"]) /\ UNCHANGED reused
    <3>1. [job EXCEPT !.status = "pending"] \in Job
      BY <1>a DEF Job, JobStatus
    <3>2. lock' \in Procs \cup {None} /\ pend' \in [Procs -> Pending]
      BY <2>2, <1>a, <3>1, EnterTyped DEF EnterJob, Ops
    <3> QED
      BY <1>8, <2>2, <3>2 DEF CompletedData, TypeOK, filesUnchanged
  <2> QED
    BY <1>8, <2>1, <2>2 DEF CompletedData
<1> QED
  BY <1>1, <1>2, <1>3, <1>4, <1>5, <1>6, <1>7, <1>8 DEF Operation

\* Each write, failing write or death keeps the types.
LEMMA SaveTyped ==
    ASSUME TypeOK, NEW p \in Procs,
           WriteAttempt(p) \/ WriteJob(p) \/ WriteFails(p) \/ Crash(p)
    PROVE  TypeOK'
<1>1. pend[p] \in Pending
  BY DEF TypeOK
<1>2. NoAttempt \in Attempt
  BY DEF NoAttempt, Attempt
<1>3. CASE WriteAttempt(p)
  <2>1. attempts' \in [AttemptIds -> Attempt]
    BY <1>1, <1>3 DEF WriteAttempt, TypeOK, Pending, AttemptIds
  <2>2. lock' \in Procs \cup {None} /\ pend' \in [Procs -> Pending]
    <3>1. CASE Release(p)
      BY <3>1, ReleaseTyped
    <3>2. CASE pend' = [pend EXCEPT ![p].wrote = TRUE] /\ UNCHANGED lock
      BY <1>1, <3>2 DEF TypeOK, Pending
    <3> QED
      BY <1>3, <3>1, <3>2 DEF WriteAttempt
  <2>3. reserved' \subseteq AttemptIds
    BY <1>3 DEF WriteAttempt, Unreserve, TypeOK
  <2> QED
    BY <1>3, <2>1, <2>2, <2>3 DEF WriteAttempt, TypeOK
<1>4. CASE WriteJob(p)
  <2>1. lock' \in Procs \cup {None} /\ pend' \in [Procs -> Pending]
    BY <1>4, ReleaseTyped DEF WriteJob
  <2> QED
    BY <1>1, <1>4, <2>1 DEF WriteJob, TypeOK, Pending
<1>5. CASE WriteFails(p)
  <2>1. lock' \in Procs \cup {None} /\ pend' \in [Procs -> Pending]
    BY <1>5, ReleaseTyped DEF WriteFails
  <2>2. attempts' \in [AttemptIds -> Attempt]
    BY <1>2, <1>5 DEF WriteFails, TypeOK
  <2>3. reserved' \subseteq AttemptIds
    BY <1>5 DEF WriteFails, Unreserve, TypeOK
  <2> QED
    BY <1>5, <2>1, <2>2, <2>3 DEF WriteFails, TypeOK
<1>6. CASE Crash(p)
  <2>1. lock' \in Procs \cup {None} /\ pend' \in [Procs -> Pending]
    BY <1>6, ReleaseTyped DEF Crash
  <2> QED
    BY <1>6, <2>1 DEF Crash, TypeOK
<1> QED
  BY <1>3, <1>4, <1>5, <1>6

\* Every step keeps the types.
LEMMA TypeStep == TypeOK /\ [Next]_storeVars => TypeOK'
<1> SUFFICES ASSUME TypeOK, [Next]_storeVars
             PROVE  TypeOK'
  OBVIOUS
<1>1. CASE \E p \in Procs : Operation(p)
  BY <1>1, OperationTyped
<1>2. CASE \E p \in Procs : WriteAttempt(p) \/ WriteJob(p) \/ WriteFails(p) \/ Crash(p)
  BY <1>2, SaveTyped
<1>3. CASE \E c \in Content \cup {None} : WriteArtifact(c)
  BY <1>3 DEF WriteArtifact, TypeOK
<1>4. CASE UNCHANGED storeVars
  BY <1>4 DEF storeVars, TypeOK
<1> QED
  BY <1>1, <1>2, <1>3, <1>4 DEF Next
-----------------------------------------------------------------------------
\* The parts of IInv that are not about types.
Rest == LockInv /\ PendInv /\ OneRunningAttempt /\ CompleteJobAgrees /\ ArtifactKept

\* A running attempt has a file.
LEMMA RunningPresent == Running \subseteq Present
BY DEF Running, Present

\* The derived views of the attempts only depend on the attempt files.
LEMMA StableAttempts ==
    ASSUME attempts' = attempts
    PROVE  Running' = Running /\ Present' = Present /\ LastAttempt' = LastAttempt
BY DEF Running, Present, LastAttempt

\* While one process is inside an operation no other is; while none holds the
\* lock none is.
LEMMA Alone ==
    ASSUME LockInv
    PROVE  /\ \A p, q \in Procs : pend[p] # Idle /\ p # q => pend[q] = Idle
           /\ lock = None => \A p \in Procs : pend[p] = Idle
BY JobStoreAssumption DEF LockInv

\* An operation enters with nothing saved yet, so it only has to establish its
\* own PendOK.
LEMMA EnterRest ==
    ASSUME IInv, NEW p \in Procs, CanEnter(p), filesUnchanged,
           NEW op \in Ops, NEW a, NEW rec, NEW j, Enter(p, op, a, rec, j),
           PendOK(pend[p])',
           touched' = touched \/ job.status # "complete"
    PROVE  Rest'
<1>1. Running' = Running /\ Present' = Present /\ LastAttempt' = LastAttempt
  BY StableAttempts DEF filesUnchanged
<1>2. \A q \in Procs : pend[q] = Idle
  BY Alone DEF IInv, CanEnter
<1>3. /\ lock' = p
      /\ pend'[p].op = op
      /\ pend'[p] # Idle
      /\ \A q \in Procs \ {p} : pend'[q] = Idle
  BY <1>2 DEF IInv, TypeOK, Enter, Idle, Ops
<1>4. LockInv'
  BY <1>3 DEF LockInv, Idle, NoAttempt, NoJob
<1>5. PendInv'
  BY <1>3 DEF PendInv, Idle, NoAttempt, NoJob
<1>6. OneRunningAttempt' /\ CompleteJobAgrees'
  BY <1>1 DEF IInv, OneRunningAttempt, CompleteJobAgrees, filesUnchanged
<1>7. ArtifactKept'
  BY DEF IInv, ArtifactKept, filesUnchanged
<1> QED
  BY <1>4, <1>5, <1>6, <1>7 DEF Rest

\* Each operation of the store establishes its PendOK when it enters.
LEMMA OperationRest ==
    ASSUME IInv, NEW p \in Procs, Operation(p)
    PROVE  Rest'
<1> USE DEF IInv
<1>a. job \in Job
  BY DEF TypeOK
<1>b. \A n \in AttemptIds : n # 0
  BY DEF AttemptIds
<1>c. pend \in [Procs -> Pending]
  BY DEF TypeOK
<1>1. ASSUME NEW s \in Specs, CreateOrLoadJob(p, s)
      PROVE  Rest'
  <2>1. PendOK(pend[p])'
    BY <1>1, <1>c DEF Enter, CreateOrLoadJob, EnterJob, NoJob, PendOK, CreatePend, filesUnchanged
  <2> QED
    BY <1>1, <2>1, EnterRest DEF CreateOrLoadJob, EnterJob, Ops
<1>2. CASE BeginAttempt(p)
  <2>1. PICK n \in AttemptIds :
             /\ FreeNumber(n)
             /\ Enter(p, "begin", n, [NoAttempt EXCEPT !.status = "running"],
                      [job EXCEPT !.status = "running"])
    BY <1>2 DEF BeginAttempt
  <2>2. attempts[n].status = "absent"
    BY <2>1 DEF FreeNumber, Taken, Present
  <2>3. Running' = Running /\ attempts' = attempts /\ job' = job
    BY <1>2, StableAttempts DEF BeginAttempt, filesUnchanged
  <2>4. BeginPend(pend[p])'
    BY <1>2, <1>a, <1>b, <2>1, <2>2, <2>3, <1>c
       DEF Enter, BeginAttempt, BeginAllowed, BeginPend, NoAttempt, Job
  <2> QED
    BY <1>2, <2>1, <2>4, EnterRest DEF BeginAttempt, PendOK, Ops
<1>3. ASSUME NEW n \in AttemptIds, RecordPacket(p, n)
      PROVE  Rest'
  <2>1. Running' = Running /\ job' = job
    BY <1>3, StableAttempts DEF RecordPacket, filesUnchanged
  <2>2. attempts[n] \in Attempt /\ attempts[n].status = "running"
    BY <1>3 DEF RecordPacket, Active, Running, TypeOK
  <2>3. AttemptPend(pend[p])'
    BY <1>3, <1>b, <2>1, <2>2, <1>c DEF Enter, RecordPacket, EnterAttempt, Active, AttemptPend, Attempt
  <2> QED
    BY <1>3, <2>3, EnterRest DEF RecordPacket, EnterAttempt, PendOK, Ops
<1>4. ASSUME NEW n \in AttemptIds, FailAttempt(p, n)
      PROVE  Rest'
  <2>1. Running' = Running /\ job' = job
    BY <1>4, StableAttempts DEF FailAttempt, filesUnchanged
  <2>2. attempts[n] \in Attempt
    BY DEF TypeOK
  <2>3. FailPend(pend[p])'
    BY <1>4, <1>a, <1>b, <2>1, <2>2, <1>c DEF Enter, FailAttempt, Active, FailPend, Attempt, Job
  <2> QED
    BY <1>4, <2>3, EnterRest DEF FailAttempt, PendOK, Ops
<1>5. ASSUME NEW n \in AttemptIds, NEW r \in Results, CompleteAttempt(p, n, r)
      PROVE  Rest'
  <2>1. Running' = Running /\ job' = job
    BY <1>5, StableAttempts DEF CompleteAttempt, filesUnchanged
  <2>2. attempts[n] \in Attempt
    BY DEF TypeOK
  <2>3. AttemptPend(pend[p])'
    BY <1>5, <1>b, <2>1, <2>2, <1>c
       DEF Enter, CompleteAttempt, EnterAttempt, Active, AttemptPend, Attempt
  <2> QED
    BY <1>5, <2>3, EnterRest DEF CompleteAttempt, EnterAttempt, PendOK, Ops
<1>6. ASSUME NEW r \in Results, CompleteJob(p, r)
      PROVE  Rest'
  <2>0. /\ Running' = Running /\ Present' = Present /\ LastAttempt' = LastAttempt
        /\ attempts' = attempts /\ job' = job /\ artifact' = artifact
    BY <1>6, StableAttempts DEF CompleteJob, filesUnchanged
  <2>1. CASE /\ Acceptable(r)
             /\ EnterJob(p, "complete", [job EXCEPT !.status = "complete",
                                                    !.artifact = artifact, !.result = r])
             /\ touched' = FALSE
    <3>1. job.status \notin {"absent", "complete"}
      BY <2>1 DEF Acceptable, Recoverable
    <3>2. AttemptsAgree(r)
      BY <2>1, RunningPresent DEF Acceptable, Recoverable, AttemptsAgree
    <3>3. /\ pend'[p].op = "complete" /\ pend'[p].att = 0
          /\ pend'[p].job = [job EXCEPT !.status = "complete", !.artifact = artifact, !.result = r]
      BY <2>1, <1>c DEF Enter, EnterJob
    <3>4. /\ pend'[p].job.status = "complete" /\ pend'[p].job.spec = job.spec
          /\ pend'[p].job.artifact = artifact /\ pend'[p].job.result = r
      BY <1>a, <3>3 DEF Job
    <3>5. RecordAgrees(pend[p].job)'
      BY <2>0, <2>1, <3>2, <3>4 DEF RecordAgrees, AttemptsAgree, Acceptable
    <3>6. ClosePend(pend[p])'
      BY <2>0, <3>1, <3>3, <3>4, <3>5 DEF ClosePend
    <3> QED
      BY <1>6, <2>1, <3>1, <3>6, EnterRest DEF CompleteJob, EnterJob, PendOK, Ops
  <2>2. CASE /\ Recoverable
             /\ EnterJob(p, "reject", [job EXCEPT !.status = "pending"])
             /\ UNCHANGED touched
    <3>1. OtherPend(pend[p])'
      BY <1>a, <2>0, <2>2, <1>c DEF Enter, Recoverable, EnterJob, OtherPend, Job
    <3> QED
      BY <1>6, <2>2, <3>1, EnterRest DEF CompleteJob, EnterJob, PendOK, Ops
  <2> QED
    BY <1>6, <2>1, <2>2 DEF CompleteJob
<1>7. CASE FailJob(p) \/ BlockJob(p)
  <2>1. OtherPend(pend[p])'
    BY <1>7, <1>a, <1>c DEF Enter, FailJob, BlockJob, EnterJob, OtherPend, Job, filesUnchanged
  <2> QED
    BY <1>7, <2>1, EnterRest DEF FailJob, BlockJob, EnterJob, PendOK, Ops
<1>8. CASE CompletedData(p)
  <2>1. CASE UNCHANGED <<lock, pend>>
    <3>1. /\ Running' = Running /\ Present' = Present /\ LastAttempt' = LastAttempt
          /\ attempts' = attempts /\ job' = job /\ artifact' = artifact /\ touched' = touched
      BY <1>8, StableAttempts DEF CompletedData, filesUnchanged
    <3>2. PendInv'
      BY <1>8, <2>1, Alone DEF CompletedData, CanEnter, PendInv, Idle, NoJob, NoAttempt
    <3>3. LockInv'
      BY <2>1 DEF LockInv, Idle, NoJob, NoAttempt
    <3> QED
      BY <3>1, <3>2, <3>3 DEF Rest, OneRunningAttempt, CompleteJobAgrees, ArtifactKept
  <2>2. CASE ~ArtifactTrusted /\ EnterJob(p, "retract", [job EXCEPT !.status = "pending"])
    <3>1. touched
      BY <1>8, <2>2 DEF CompletedData, ArtifactTrusted, ArtifactKept, CompleteJobAgrees
    <3>2. OtherPend(pend[p])'
      BY <1>8, <1>a, <2>2, <3>1, <1>c DEF Enter, CompletedData, EnterJob, OtherPend, Job, filesUnchanged
    <3> QED
      BY <1>8, <2>2, <3>2, EnterRest DEF CompletedData, EnterJob, PendOK, Ops
  <2> QED
    BY <1>8, <2>1, <2>2 DEF CompletedData
<1> QED
  BY <1>1, <1>2, <1>3, <1>4, <1>5, <1>6, <1>7, <1>8 DEF Operation
-----------------------------------------------------------------------------
\* Saving.  The process that saves is the one inside an operation, and all others
\* are idle.
LEMMA Saver ==
    ASSUME IInv, NEW p \in Procs, pend[p] # Idle
    PROVE  /\ pend[p] \in Pending
           /\ PendOK(pend[p])
           /\ lock = p
           /\ \A q \in Procs \ {p} : pend[q] = Idle
BY Alone DEF IInv, TypeOK, PendInv, LockInv

\* After the last write nobody is inside an operation.
LEMMA ReleaseRest ==
    ASSUME IInv, NEW p \in Procs, pend[p] # Idle, Release(p)
    PROVE  LockInv' /\ PendInv'
<1>1. \A q \in Procs : pend'[q] = Idle
  BY Saver DEF Release, IInv, TypeOK
<1> QED
  BY <1>1, JobStoreAssumption DEF Release, LockInv, PendInv, Idle, NoAttempt, NoJob

\* Between the two writes of one operation its PendOK has to hold again.
LEMMA BetweenRest ==
    ASSUME IInv, NEW p \in Procs, pend[p] # Idle,
           pend' = [pend EXCEPT ![p].wrote = TRUE], lock' = lock,
           pend[p].op # "idle", PendOK(pend[p])'
    PROVE  LockInv' /\ PendInv'
<1>1. /\ lock' = p
      /\ pend'[p] # Idle
      /\ \A q \in Procs \ {p} : pend'[q] = Idle
  BY Saver DEF IInv, TypeOK, Pending, Idle
<1> QED
  BY <1>1 DEF LockInv, PendInv, Idle, NoAttempt, NoJob

\* Saving the attempt file keeps the invariant.
LEMMA WriteAttemptRest ==
    ASSUME IInv, NEW p \in Procs, WriteAttempt(p)
    PROVE  Rest'
<1> DEFINE w == pend[p]
<1>a. w # Idle /\ w.att # 0 /\ ~w.wrote
  BY DEF WriteAttempt, Idle
<1>b. w \in Pending /\ PendOK(w) /\ lock = p /\ w.att \in AttemptIds
  BY <1>a, Saver DEF Pending, AttemptIds
<1>c. BeginPend(w) \/ AttemptPend(w) \/ FailPend(w)
  BY <1>a, <1>b DEF PendOK, ClosePend, CreatePend, OtherPend
<1>d. /\ attempts \in [AttemptIds -> Attempt]
      /\ pend \in [Procs -> Pending]
      /\ attempts' = [attempts EXCEPT ![w.att] = w.rec]
      /\ job' = job /\ artifact' = artifact /\ touched' = touched
  BY DEF IInv, TypeOK, WriteAttempt
<1>e. Running' = IF w.rec.status = "running" THEN Running \cup {w.att} ELSE Running \ {w.att}
  BY <1>b, <1>d DEF Running
<1>f. /\ OneRunningAttempt' <=> \A a, b \in Running' : a = b
      /\ job.status # "complete" => CompleteJobAgrees' /\ ArtifactKept'
  BY <1>d DEF OneRunningAttempt, CompleteJobAgrees, ArtifactKept
<1>1. CASE BeginPend(w)
  <2>1. Running' = {w.att} /\ job.status # "complete" /\ w.job # NoJob
    BY <1>1, <1>a, <1>e DEF BeginPend, NoJob
  <2>2. pend' = [pend EXCEPT ![p].wrote = TRUE] /\ lock' = lock
    BY <2>1 DEF WriteAttempt
  <2>3. BeginPend(pend[p])'
    BY <1>1, <1>b, <1>d, <2>1, <2>2 DEF BeginPend, Pending
  <2>4. LockInv' /\ PendInv'
    BY <1>1, <1>a, <2>2, <2>3, BetweenRest DEF PendOK, BeginPend
  <2> QED
    BY <1>f, <2>1, <2>4 DEF Rest
<1>2. CASE AttemptPend(w)
  <2>1. Running' \subseteq {w.att} /\ job.status # "complete" /\ w.job = NoJob
    BY <1>2, <1>e DEF AttemptPend
  <2>2. LockInv' /\ PendInv'
    BY <1>a, <2>1, ReleaseRest DEF WriteAttempt
  <2> QED
    BY <1>f, <2>1, <2>2 DEF Rest
<1>3. CASE FailPend(w)
  <2>1. Running' = {} /\ job.status # "complete" /\ w.job # NoJob
    BY <1>3, <1>a, <1>e DEF FailPend, NoJob
  <2>2. pend' = [pend EXCEPT ![p].wrote = TRUE] /\ lock' = lock
    BY <2>1 DEF WriteAttempt
  <2>3. FailPend(pend[p])'
    BY <1>3, <1>b, <1>d, <2>1, <2>2 DEF FailPend, Pending
  <2>4. LockInv' /\ PendInv'
    BY <1>3, <1>a, <2>2, <2>3, BetweenRest DEF PendOK, FailPend
  <2> QED
    BY <1>f, <2>1, <2>4 DEF Rest
<1> QED
  BY <1>c, <1>1, <1>2, <1>3

\* Saving the job file keeps the invariant.
LEMMA WriteJobRest ==
    ASSUME IInv, NEW p \in Procs, WriteJob(p)
    PROVE  Rest'
<1> DEFINE w == pend[p]
<1>a. w # Idle /\ (w.att = 0 \/ w.wrote)
  BY DEF WriteJob, Idle
<1>b. PendOK(w)
  BY <1>a, Saver
<1>c. /\ job' = w.job /\ attempts' = attempts /\ artifact' = artifact /\ touched' = touched
      /\ Running' = Running /\ Present' = Present /\ LastAttempt' = LastAttempt
  BY StableAttempts DEF WriteJob
<1>d. LockInv' /\ PendInv'
  BY <1>a, ReleaseRest DEF WriteJob
<1>e. OneRunningAttempt'
  BY <1>c DEF IInv, OneRunningAttempt
<1>1. CASE ClosePend(w)
  <2>1. CompleteJobAgrees'
    BY <1>1, <1>c DEF ClosePend, RecordAgrees, AttemptsAgree, CompleteJobAgrees
  <2>2. ArtifactKept'
    BY <1>1, <1>c DEF ClosePend, ArtifactKept
  <2> QED
    BY <1>d, <1>e, <2>1, <2>2 DEF Rest
<1>2. CASE ~ClosePend(w)
  <2>1. job'.status # "complete"
    BY <1>2, <1>a, <1>b, <1>c DEF PendOK, BeginPend, AttemptPend, FailPend, CreatePend, OtherPend
  <2> QED
    BY <1>d, <1>e, <2>1 DEF Rest, CompleteJobAgrees, ArtifactKept
<1> QED
  BY <1>1, <1>2

\* A begin_attempt that withdraws its attempt leaves the others as they were.
LEMMA CutRest ==
    ASSUME IInv, NEW p \in Procs, WriteFails(p) \/ Crash(p)
    PROVE  Rest'
<1> DEFINE w == pend[p]
<1>a. w # Idle
  BY DEF WriteFails, Crash, Idle
<1>b. /\ LockInv' /\ PendInv'
      /\ job' = job /\ artifact' = artifact /\ touched' = touched
  BY <1>a, ReleaseRest DEF WriteFails, Crash
<1>1. CASE attempts' = attempts
  <2>1. Running' = Running /\ Present' = Present /\ LastAttempt' = LastAttempt
    BY <1>1, StableAttempts
  <2> QED
    BY <1>1, <1>b, <2>1 DEF Rest, IInv, OneRunningAttempt, CompleteJobAgrees, ArtifactKept
<1>2. CASE w.op = "begin" /\ w.wrote /\ attempts' = [attempts EXCEPT ![w.att] = NoAttempt]
  <2>1. BeginPend(w) /\ w.att \in AttemptIds
    BY <1>2, <1>a, Saver
       DEF PendOK, BeginPend, AttemptPend, FailPend, ClosePend, CreatePend, OtherPend, Pending, AttemptIds
  <2>2. Running' = {} /\ job.status # "complete"
    BY <1>2, <2>1 DEF BeginPend, Running, NoAttempt, IInv, TypeOK
  <2> QED
    BY <1>b, <2>2 DEF Rest, OneRunningAttempt, CompleteJobAgrees, ArtifactKept
<1> QED
  BY <1>1, <1>2 DEF WriteFails, Crash

\* Rewriting the artifact keeps the invariant: it is recorded as touched.
LEMMA ArtifactRest ==
    ASSUME IInv, NEW c \in Content \cup {None}, WriteArtifact(c)
    PROVE  Rest'
<1>1. /\ job' = job /\ attempts' = attempts /\ pend' = pend /\ lock' = lock
      /\ Running' = Running /\ Present' = Present /\ LastAttempt' = LastAttempt
  BY StableAttempts DEF WriteArtifact
<1>2. touched => touched'
  BY DEF WriteArtifact
<1>3. ASSUME NEW p \in Procs, pend[p] # Idle
      PROVE  PendOK(pend[p])'
  <2>1. PendOK(pend[p])
    BY <1>3, Saver
  <2>2. pend[p].op = "complete" => touched'
    BY DEF WriteArtifact
  <2>3. RecordAgrees(pend[p].job) => RecordAgrees(pend[p].job)'
    BY <1>1 DEF RecordAgrees, AttemptsAgree
  <2> QED
    BY <1>1, <1>2, <2>1, <2>2, <2>3
       DEF PendOK, BeginPend, AttemptPend, FailPend, ClosePend, CreatePend, OtherPend
<1>4. PendInv'
  BY <1>1, <1>3 DEF PendInv, Idle, NoAttempt, NoJob
<1>5. LockInv' /\ OneRunningAttempt' /\ CompleteJobAgrees'
  BY <1>1 DEF IInv, LockInv, OneRunningAttempt, CompleteJobAgrees, Idle, NoAttempt, NoJob
<1>6. ArtifactKept'
  BY <1>1 DEF WriteArtifact, ArtifactKept
<1> QED
  BY <1>4, <1>5, <1>6 DEF Rest
-----------------------------------------------------------------------------
\* The invariant holds initially.
LEMMA InvInit == Init => IInv
<1> SUFFICES ASSUME Init
             PROVE  IInv
  OBVIOUS
<1>1. TypeOK
  BY TypeInit
<1>2. LockInv /\ PendInv
  BY JobStoreAssumption DEF Init, LockInv, PendInv, Idle, NoAttempt, NoJob
<1>3. OneRunningAttempt /\ CompleteJobAgrees /\ ArtifactKept
  BY DEF Init, OneRunningAttempt, CompleteJobAgrees, ArtifactKept, Running, NoAttempt, NoJob
<1> QED
  BY <1>1, <1>2, <1>3 DEF IInv

\* Every step keeps the invariant.
LEMMA InvStep == IInv /\ [Next]_storeVars => IInv'
<1> SUFFICES ASSUME IInv, [Next]_storeVars
             PROVE  IInv'
  OBVIOUS
<1>1. TypeOK'
  BY TypeStep DEF IInv
<1>2. Rest'
  <2>1. CASE \E p \in Procs : Operation(p)
    BY <2>1, OperationRest
  <2>2. CASE \E p \in Procs : WriteAttempt(p)
    BY <2>2, WriteAttemptRest
  <2>3. CASE \E p \in Procs : WriteJob(p)
    BY <2>3, WriteJobRest
  <2>4. CASE \E p \in Procs : WriteFails(p) \/ Crash(p)
    BY <2>4, CutRest
  <2>5. CASE \E c \in Content \cup {None} : WriteArtifact(c)
    BY <2>5, ArtifactRest
  <2>6. CASE UNCHANGED storeVars
    <3>1. /\ job' = job /\ attempts' = attempts /\ artifact' = artifact
          /\ lock' = lock /\ pend' = pend /\ touched' = touched
          /\ Running' = Running /\ Present' = Present /\ LastAttempt' = LastAttempt
      BY <2>6, StableAttempts DEF storeVars
    <3>2. \A p \in Procs : PendOK(pend[p]) => PendOK(pend[p])'
      BY <3>1 DEF PendOK, BeginPend, AttemptPend, FailPend, ClosePend, CreatePend, OtherPend,
                  RecordAgrees, AttemptsAgree
    <3>3. PendInv' /\ LockInv'
      BY <3>1, <3>2 DEF IInv, PendInv, LockInv, Idle, NoAttempt, NoJob
    <3> QED
      BY <3>1, <3>3 DEF IInv, Rest, OneRunningAttempt, CompleteJobAgrees, ArtifactKept
  <2> QED
    BY <2>1, <2>2, <2>3, <2>4, <2>5, <2>6 DEF Next
<1> QED
  BY <1>1, <1>2 DEF IInv, Rest

\* The inductive invariant holds in every reachable state.
THEOREM Invariant == Spec => []IInv
BY InvInit, InvStep, PTL DEF Spec

\* The records are well typed in every reachable state.
THEOREM TypeCorrect == Spec => []TypeOK
<1>1. IInv => TypeOK
  BY DEF IInv
<1> QED
  BY <1>1, Invariant, PTL

\* begin_attempt never leaves two attempts of a job running, for any number of
\* processes, deaths and failing writes.
THEOREM OneRunning == Spec => []OneRunningAttempt
<1>1. IInv => OneRunningAttempt
  BY DEF IInv
<1> QED
  BY <1>1, Invariant, PTL

\* A complete job always agrees with its artifact digest, its attempts and its
\* recorded result.
THEOREM CompleteAgrees == Spec => []CompleteJobAgrees
<1>1. IInv => CompleteJobAgrees
  BY DEF IInv
<1> QED
  BY <1>1, Invariant, PTL
-----------------------------------------------------------------------------
\* The action properties: what each step may not do, given IInv.

\* Only a save touches the attempt and job files.
LEMMA OperationSavesNothing ==
    ASSUME NEW p \in Procs, Operation(p)
    PROVE  job' = job /\ attempts' = attempts
BY DEF Operation, CreateOrLoadJob, BeginAttempt, RecordPacket, FailAttempt, CompleteAttempt,
       CompleteJob, FailJob, BlockJob, CompletedData, filesUnchanged

\* What is saved over an attempt is saved over one that is running or absent
\* (PendOK): a finished attempt is never rewritten.
LEMMA FinishedStep ==
    ASSUME IInv, [Next]_storeVars
    PROVE  \A a \in AttemptIds :
               attempts[a].status \in {"complete", "failed"} => attempts'[a] = attempts[a]
<1> DEFINE Kept == \A a \in AttemptIds :
          attempts[a].status \in {"complete", "failed"} => attempts'[a] = attempts[a]
<1>1. CASE \E p \in Procs : Operation(p)
  BY <1>1, OperationSavesNothing
<1>2. ASSUME NEW p \in Procs, WriteAttempt(p)
      PROVE  Kept
  <2> DEFINE w == pend[p]
  <2>1. w # Idle /\ ~w.wrote /\ w.att # 0
    BY <1>2 DEF WriteAttempt, Idle
  <2>2. attempts[w.att].status \in {"running", "absent"}
    BY <2>1, Saver DEF PendOK, BeginPend, AttemptPend, FailPend, ClosePend, CreatePend, OtherPend,
                       Running
  <2> QED
    BY <1>2, <2>2 DEF WriteAttempt, IInv, TypeOK
<1>3. ASSUME NEW p \in Procs, WriteFails(p)
      PROVE  Kept
  <2> DEFINE w == pend[p]
  <2>1. CASE w.op = "begin" /\ w.wrote
    <3>1. attempts[w.att].status = "running"
      BY <1>3, <2>1, Saver
         DEF WriteFails, PendOK, BeginPend, AttemptPend, FailPend, ClosePend, CreatePend, OtherPend,
             Running, Idle
    <3> QED
      BY <1>3, <2>1, <3>1 DEF WriteFails, IInv, TypeOK
  <2>2. CASE ~(w.op = "begin" /\ w.wrote)
    BY <1>3, <2>2 DEF WriteFails
  <2> QED
    BY <2>1, <2>2
<1>4. CASE \E p \in Procs : WriteJob(p) \/ Crash(p)
  BY <1>4 DEF WriteJob, Crash
<1>5. CASE \E c \in Content \cup {None} : WriteArtifact(c)
  BY <1>5 DEF WriteArtifact
<1>6. CASE UNCHANGED storeVars
  BY <1>6 DEF storeVars
<1> QED
  BY <1>1, <1>2, <1>3, <1>4, <1>5, <1>6 DEF Next

\* No delayed write of any process rewrites a finished attempt.
THEOREM FinishedKept == Spec => FinishedAttemptsKept
<1> DEFINE Kept == \A a \in AttemptIds :
          attempts[a].status \in {"complete", "failed"} => attempts'[a] = attempts[a]
<1>1. IInv /\ [Next]_storeVars => [Kept]_storeVars
  BY FinishedStep
<1> QED
  BY <1>1, Invariant, PTL DEF Spec, FinishedAttemptsKept

\* The specification recorded first stays the job's.
THEOREM SpecificationFixed == Spec => SpecificationKept
<1> DEFINE Fixed == job.status # "absent" => job'.spec = job.spec
<1>1. IInv /\ [Next]_storeVars => [Fixed]_storeVars
  <2> SUFFICES ASSUME IInv, Next
               PROVE  Fixed
    OBVIOUS
  <2>1. CASE \E p \in Procs : Operation(p)
    BY <2>1, OperationSavesNothing
  <2>2. ASSUME NEW p \in Procs, WriteJob(p)
        PROVE  Fixed
    BY <2>2, Saver DEF WriteJob, Idle, PendOK, BeginPend, AttemptPend, FailPend, ClosePend,
                       CreatePend, OtherPend
  <2>3. CASE \/ \E p \in Procs : WriteAttempt(p) \/ WriteFails(p) \/ Crash(p)
             \/ \E c \in Content \cup {None} : WriteArtifact(c)
    BY <2>3 DEF WriteAttempt, WriteFails, Crash, WriteArtifact
  <2> QED
    BY <2>1, <2>2, <2>3 DEF Next
<1> QED
  BY <1>1, Invariant, PTL DEF Spec, SpecificationKept

\* Only a job whose artifact was rewritten is ever reopened after completion.
THEOREM CompletionKept == Spec => CompletionSticks
<1> DEFINE Sticks == job.status = "complete" /\ job'.status # "complete" => touched
<1>1. IInv /\ [Next]_storeVars => [Sticks]_storeVars
  <2> SUFFICES ASSUME IInv, Next
               PROVE  Sticks
    OBVIOUS
  <2>1. CASE \E p \in Procs : Operation(p)
    BY <2>1, OperationSavesNothing
  <2>2. ASSUME NEW p \in Procs, WriteJob(p)
        PROVE  Sticks
    BY <2>2, Saver DEF WriteJob, Idle, PendOK, BeginPend, AttemptPend, FailPend, ClosePend,
                       CreatePend, OtherPend
  <2>3. CASE \/ \E p \in Procs : WriteAttempt(p) \/ WriteFails(p) \/ Crash(p)
             \/ \E c \in Content \cup {None} : WriteArtifact(c)
    BY <2>3 DEF WriteAttempt, WriteFails, Crash, WriteArtifact
  <2> QED
    BY <2>1, <2>2, <2>3 DEF Next
<1> QED
  BY <1>1, Invariant, PTL DEF Spec, CompletionSticks

\* completed_data hands out only the recorded result.
THEOREM ReusedRecorded == Spec => ReusedDataRecorded
<1> DEFINE Recorded == \A p \in Procs :
          reused'[p] # reused[p] =>
              /\ reused'[p] = job.result
              /\ Present # {} => attempts[LastAttempt].result = reused'[p]
<1>1. IInv /\ [Next]_storeVars => [Recorded]_storeVars
  <2> SUFFICES ASSUME IInv, Next
               PROVE  Recorded
    OBVIOUS
  <2>1. ASSUME NEW p \in Procs, CompletedData(p), UNCHANGED <<lock, pend>>, ArtifactTrusted,
               reused' = [reused EXCEPT ![p] = artifact[1]]
        PROVE  Recorded
    BY <2>1 DEF ArtifactTrusted, IInv, TypeOK
  <2>2. CASE UNCHANGED reused
    BY <2>2
  <2>3. CASE \E p \in Procs : Operation(p)
    BY <2>1, <2>2, <2>3
       DEF Operation, CreateOrLoadJob, BeginAttempt, RecordPacket, FailAttempt, CompleteAttempt,
           CompleteJob, FailJob, BlockJob, CompletedData
  <2>4. CASE \/ \E p \in Procs : WriteAttempt(p) \/ WriteJob(p) \/ WriteFails(p) \/ Crash(p)
             \/ \E c \in Content \cup {None} : WriteArtifact(c)
    BY <2>2, <2>4 DEF WriteAttempt, WriteJob, WriteFails, Crash, WriteArtifact
  <2> QED
    BY <2>3, <2>4 DEF Next
<1> QED
  BY <1>1, Invariant, PTL DEF Spec, ReusedDataRecorded
=============================================================================
