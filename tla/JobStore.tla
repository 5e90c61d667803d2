------------------------------ MODULE JobStore ------------------------------
(***************************************************************************)
(* The durable record of one worker job (manageroo/jobs.py): the job file, *)
(* its attempt files, and the artifact that holds its result.              *)
(*                                                                         *)
(* Every operation of JobStore runs under the job's file lock              *)
(* (config_mutation_lock): it loads the records, decides, and saves whole  *)
(* records, each with an atomic file replacement.  An operation is here    *)
(* two or three steps: the action named after the method takes the lock,   *)
(* loads and decides; WriteAttempt and WriteJob then replace one file      *)
(* each, and the last one releases the lock.  A process may die between    *)
(* any two of them (the kernel drops its lock) and a write may raise.      *)
(***************************************************************************)
EXTENDS Naturals, FiniteSets

CONSTANTS
    Procs,        \* controller threads and processes that share the run folder
    Specs,        \* hashes of job specifications
    Results,      \* results a worker may return
    Forms,        \* byte layouts a result may have on disk
    MaxAttempts,  \* bound: attempts one job may have
    AttemptPad,   \* first attempt number that needs a fourth digit (1000)
    None

ASSUME JobStoreAssumption ==
    /\ MaxAttempts \in Nat \ {0}
    /\ AttemptPad \in Nat \ {0}
    /\ None \notin Procs
    /\ None \notin Results \X Forms

VARIABLES
    job,       \* jobs/<job>.json
    attempts,  \* worker-attempts/<job>/<nnn>.json, by number
    reserved,  \* numbers whose .<nnn>.json.reserve file exists
    artifact,  \* artifacts/agent/<job>.json, None when missing or unreadable
    lock,      \* the holder of the job's file lock
    pend,      \* per process: the writes its current operation still owes
    reused,    \* per process: the data completed_data last returned to it
    touched    \* history: the artifact was rewritten since it was accepted

storeVars == <<job, attempts, reserved, artifact, lock, pend, reused, touched>>

-----------------------------------------------------------------------------
AttemptIds == 1 .. MaxAttempts
Content == Results \X Forms

JobStatus == {"pending", "running", "complete", "failed", "blocked"}
AttemptStatus == {"running", "complete", "failed"}

Job == [status   : JobStatus \cup {"absent"},
        spec     : Specs \cup {None},
        artifact : Content \cup {None},   \* output_artifact_sha256
        result   : Results \cup {None}]   \* result_sha256

Attempt == [status : AttemptStatus \cup {"absent"},
            packet : BOOLEAN,             \* a packet has been recorded
            result : Results \cup {None}]

NoJob == [status |-> "absent", spec |-> None, artifact |-> None, result |-> None]
NoAttempt == [status |-> "absent", packet |-> FALSE, result |-> None]

Ops == {"create", "begin", "packet", "finish", "fail", "complete", "reject",
        "failjob", "block", "retract"}

\* What the operation a process is inside of still has to save: attempt file
\* number att (0: none) unless wrote, then the job file unless job is NoJob.
Pending == [op : Ops \cup {"idle"}, att : 0 .. MaxAttempts, wrote : BOOLEAN,
            rec : Attempt, job : Job]

Idle == [op |-> "idle", att |-> 0, wrote |-> FALSE, rec |-> NoAttempt, job |-> NoJob]

TypeOK ==
    /\ job \in Job
    /\ attempts \in [AttemptIds -> Attempt]
    /\ reserved \subseteq AttemptIds
    /\ artifact \in Content \cup {None}
    /\ lock \in Procs \cup {None}
    /\ pend \in [Procs -> Pending]
    /\ reused \in [Procs -> Results \cup {None}]
    /\ touched \in BOOLEAN

Init ==
    /\ job = NoJob
    /\ attempts = [a \in AttemptIds |-> NoAttempt]
    /\ reserved = {}
    /\ artifact = None
    /\ lock = None
    /\ pend = [p \in Procs |-> Idle]
    /\ reused = [p \in Procs |-> None]
    /\ touched = FALSE

-----------------------------------------------------------------------------
Present == {a \in AttemptIds : attempts[a].status # "absent"}
Running == {a \in AttemptIds : attempts[a].status = "running"}

\* attempts_for sorts the file names, numbers padded to three digits: "1000"
\* comes right after "100".
NameRank(a) == IF a < AttemptPad THEN 20 * a - 1 ELSE 2 * a

\* attempts[-1]
LastAttempt == CHOOSE a \in Present : \A b \in Present : NameRank(b) <= NameRank(a)

\* The number _reserve_attempt settles on, counting up from len(attempts) + 1.
Taken(n) == n \in Present \cup reserved
FreeNumber(n) ==
    /\ n \in Cardinality(Present) + 1 .. MaxAttempts
    /\ ~Taken(n)
    /\ \A m \in Cardinality(Present) + 1 .. n - 1 : Taken(m)

\* Mutant: _active_attempt no longer asks whether the attempt itself still runs.
Active_AnyAttempt(a) == job.status = "running" /\ a \in Present
Active(a) == job.status = "running" /\ Running = {a}

\* Mutant: the operations do not take the job lock.
CanEnter_NoLock(p) == pend[p] = Idle
CanEnter(p) == lock = None /\ pend[p] = Idle

Enter(p, op, a, rec, j) ==
    /\ lock' = p
    /\ pend' = [pend EXCEPT ![p] =
                    [op |-> op, att |-> a, wrote |-> FALSE, rec |-> rec, job |-> j]]

EnterJob(p, op, j) == Enter(p, op, 0, NoAttempt, j)
EnterAttempt(p, op, a, rec) == Enter(p, op, a, rec, NoJob)

filesUnchanged == UNCHANGED <<job, attempts, artifact>>

-----------------------------------------------------------------------------
\* Operations.  A SafetyError that changes nothing is an operation that is not
\* enabled.

\* Mutant: a job nobody has started yet is recorded anew.
CreateOrLoadJob_Again(p, s) ==
    /\ CanEnter(p)
    /\ job.status \in {"absent", "pending"}
    /\ EnterJob(p, "create", [NoJob EXCEPT !.status = "pending", !.spec = s])
    /\ filesUnchanged
    /\ UNCHANGED <<reserved, reused, touched>>

\* An existing job with the same specification is only loaded.
CreateOrLoadJob(p, s) ==
    /\ CanEnter(p)
    /\ job.status = "absent"
    /\ EnterJob(p, "create", [NoJob EXCEPT !.status = "pending", !.spec = s])
    /\ filesUnchanged
    /\ UNCHANGED <<reserved, reused, touched>>

BeginAllowed ==
    /\ job.status \notin {"absent", "complete", "running"}
    /\ Running = {}

BeginAttempt(p) ==
    /\ CanEnter(p)
    /\ BeginAllowed
    /\ \E n \in AttemptIds :
        /\ FreeNumber(n)
        /\ reserved' = reserved \cup {n}
        /\ Enter(p, "begin", n, [NoAttempt EXCEPT !.status = "running"],
                 [job EXCEPT !.status = "running"])
    /\ filesUnchanged
    /\ UNCHANGED <<reused, touched>>

RecordPacket(p, a) ==
    /\ CanEnter(p)
    /\ Active(a)
    /\ EnterAttempt(p, "packet", a, [attempts[a] EXCEPT !.packet = TRUE])
    /\ filesUnchanged
    /\ UNCHANGED <<reserved, reused, touched>>

CompleteAttempt(p, a, r) ==
    /\ CanEnter(p)
    /\ Active(a)
    /\ EnterAttempt(p, "finish", a,
                    [attempts[a] EXCEPT !.status = "complete", !.result = r])
    /\ filesUnchanged
    /\ UNCHANGED <<reserved, reused, touched>>

\* Mutant: a late failure is recorded whatever became of the attempt.
FailAttempt_Late(p, a) ==
    /\ CanEnter(p)
    /\ a \in Present
    /\ Enter(p, "fail", a, [attempts[a] EXCEPT !.status = "failed"],
             [job EXCEPT !.status = "pending"])
    /\ filesUnchanged
    /\ UNCHANGED <<reserved, reused, touched>>

\* Mutant: the job is saved with a status that is none of JobStatus.
FailAttempt_BadStatus(p, a) ==
    /\ CanEnter(p)
    /\ Active(a)
    /\ Enter(p, "fail", a, [attempts[a] EXCEPT !.status = "failed"],
             [job EXCEPT !.status = "retry"])
    /\ filesUnchanged
    /\ UNCHANGED <<reserved, reused, touched>>

FailAttempt(p, a) ==
    /\ CanEnter(p)
    /\ Active(a)
    /\ Enter(p, "fail", a, [attempts[a] EXCEPT !.status = "failed"],
             [job EXCEPT !.status = "pending"])
    /\ filesUnchanged
    /\ UNCHANGED <<reserved, reused, touched>>

\* complete_job's `recoverable`: the attempt finished, the job is not closed yet.
Recoverable ==
    /\ job.status = "running"
    /\ Present # {}
    /\ Running = {}
    /\ attempts[LastAttempt].status = "complete"

\* Mutant: the result is not compared with the one the attempt completed with.
Acceptable_AnyResult(r) ==
    /\ artifact # None
    /\ artifact[1] = r
    /\ Recoverable \/ (job.status = "pending" /\ Present = {})

Acceptable(r) ==
    /\ artifact # None
    /\ artifact[1] = r
    /\ \/ Recoverable /\ attempts[LastAttempt].result = r
       \/ (job.status = "pending" /\ Present = {})

CompleteJob(p, r) ==
    /\ CanEnter(p)
    /\ \/ /\ Acceptable(r)
          /\ EnterJob(p, "complete", [job EXCEPT !.status = "complete",
                                                 !.artifact = artifact,
                                                 !.result = r])
          /\ touched' = FALSE
       \/ /\ ~Acceptable(r)
          /\ Recoverable
          /\ EnterJob(p, "reject", [job EXCEPT !.status = "pending"])
          /\ UNCHANGED touched
    /\ filesUnchanged
    /\ UNCHANGED <<reserved, reused>>

FailJob(p) ==
    /\ CanEnter(p)
    /\ job.status = "pending"
    /\ EnterJob(p, "failjob", [job EXCEPT !.status = "failed"])
    /\ filesUnchanged
    /\ UNCHANGED <<reserved, reused, touched>>

BlockJob(p) ==
    /\ CanEnter(p)
    /\ job.status = "pending"
    /\ EnterJob(p, "block", [job EXCEPT !.status = "blocked"])
    /\ filesUnchanged
    /\ UNCHANGED <<reserved, reused, touched>>

\* Mutant: an artifact that can be read is taken at its word.
ArtifactTrusted_Readable == job.artifact # None /\ artifact # None

\* The artifact still is the one the job accepted, byte for byte, and its data
\* are the recorded result of the job and of the last attempt.
ArtifactTrusted ==
    /\ job.artifact # None
    /\ artifact = job.artifact
    /\ artifact[1] = job.result
    /\ Present # {} => attempts[LastAttempt].result = artifact[1]

CompletedData(p) ==
    /\ CanEnter(p)
    /\ job.status = "complete"
    /\ \/ /\ ArtifactTrusted
          /\ reused' = [reused EXCEPT ![p] = artifact[1]]
          /\ UNCHANGED <<lock, pend>>
       \/ /\ ~ArtifactTrusted
          /\ EnterJob(p, "retract", [job EXCEPT !.status = "pending"])
          /\ UNCHANGED reused
    /\ filesUnchanged
    /\ UNCHANGED <<reserved, touched>>

-----------------------------------------------------------------------------
\* The writes an operation owes, and how it can be cut short.

Release(p) ==
    /\ lock' = None
    /\ pend' = [pend EXCEPT ![p] = Idle]

Unreserve(p) ==
    reserved' = IF pend[p].op = "begin" THEN reserved \ {pend[p].att} ELSE reserved

WriteAttempt(p) ==
    /\ pend[p].att # 0
    /\ ~pend[p].wrote
    /\ attempts' = [attempts EXCEPT ![pend[p].att] = pend[p].rec]
    /\ Unreserve(p)
    /\ IF pend[p].job = NoJob
       THEN Release(p)
       ELSE pend' = [pend EXCEPT ![p].wrote = TRUE] /\ UNCHANGED lock
    /\ UNCHANGED <<job, artifact, reused, touched>>

WriteJob(p) ==
    /\ pend[p].op # "idle"
    /\ pend[p].att = 0 \/ pend[p].wrote
    /\ job' = pend[p].job
    /\ Release(p)
    /\ UNCHANGED <<attempts, reserved, artifact, reused, touched>>

\* A write raises.  begin_attempt withdraws what it has put on disk; the other
\* operations leave what they have already saved.
WriteFails(p) ==
    /\ pend[p].op # "idle"
    /\ Release(p)
    /\ Unreserve(p)
    /\ attempts' = IF pend[p].op = "begin" /\ pend[p].wrote
                   THEN [attempts EXCEPT ![pend[p].att] = NoAttempt]
                   ELSE attempts
    /\ UNCHANGED <<job, artifact, reused, touched>>

\* The process dies inside an operation: nothing is withdrawn.
Crash(p) ==
    /\ pend[p].op # "idle"
    /\ Release(p)
    /\ UNCHANGED <<job, attempts, reserved, artifact, reused, touched>>

\* The artifact file does not belong to the job lock: a worker's call writes it
\* before complete_attempt, and anything else may replace, damage or remove it.
WriteArtifact(c) ==
    /\ artifact # c
    /\ artifact' = c
    /\ touched' = (touched \/ job.status = "complete"
                           \/ \E p \in Procs : pend[p].op = "complete")
    /\ UNCHANGED <<job, attempts, reserved, lock, pend, reused>>

Operation(p) ==
    \/ \E s \in Specs : CreateOrLoadJob(p, s)
    \/ BeginAttempt(p)
    \/ \E a \in AttemptIds : RecordPacket(p, a) \/ FailAttempt(p, a)
    \/ \E a \in AttemptIds, r \in Results : CompleteAttempt(p, a, r)
    \/ \E r \in Results : CompleteJob(p, r)
    \/ FailJob(p)
    \/ BlockJob(p)
    \/ CompletedData(p)

Next ==
    \/ \E p \in Procs : \/ Operation(p)
                        \/ WriteAttempt(p)
                        \/ WriteJob(p)
                        \/ WriteFails(p)
                        \/ Crash(p)
    \/ \E c \in Content \cup {None} : WriteArtifact(c)

Spec == Init /\ [][Next]_storeVars

-----------------------------------------------------------------------------
\* At most one attempt of a job is ever running, however many processes call
\* begin_attempt at once and wherever they die (begin_attempt's own check).
OneRunningAttempt == \A a, b \in Running : a = b

\* A complete job names an artifact whose data are its result, has no attempt
\* left running, and its last attempt, if it has one, completed with that
\* very result (complete_job).
CompleteJobAgrees ==
    job.status = "complete" =>
        /\ job.artifact # None
        /\ job.artifact[1] = job.result
        /\ Running = {}
        /\ Present # {} => /\ attempts[LastAttempt].status = "complete"
                           /\ attempts[LastAttempt].result = job.result

\* A finished attempt is history: no delayed packet, completion, failure or
\* withdrawal of another process rewrites it (_active_attempt under the lock).
FinishedAttemptsKept ==
    [][\A a \in AttemptIds :
          attempts[a].status \in {"complete", "failed"} => attempts'[a] = attempts[a]]_storeVars

\* The first recorded specification is the job's for good: of two conflicting
\* creations one is refused (create_or_load_job).
SpecificationKept ==
    [][job.status # "absent" => job'.spec = job.spec]_storeVars

\* A complete job is reopened only when somebody changed its artifact after it
\* was accepted; no late failure or completion of an attempt does it.
CompletionSticks ==
    [][job.status = "complete" /\ job'.status # "complete" => touched]_storeVars

\* completed_data hands out nothing but the result the job's last attempt
\* completed with.
ReusedDataRecorded ==
    [][\A p \in Procs :
          reused'[p] # reused[p] =>
              /\ reused'[p] = job.result
              /\ Present # {} => attempts[LastAttempt].result = reused'[p]]_storeVars
=============================================================================
