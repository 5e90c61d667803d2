------------------------------ MODULE TaskRun -------------------------------
(***************************************************************************)
(* A run's private checkout and the tasks implemented in it: the task loop *)
(* of Orchestrator.run, WorkspaceMirror (create, load_existing, checkpoint,*)
(* write_patch, cleanup_terminal, rebuild_cleaned_workspace) and the       *)
(* pending-validation marker the transactional adapter leaves for it.      *)
(*                                                                         *)
(* An edit is named by the task it belongs to; Stray is an edit outside    *)
(* what the worker declared or may touch.  A worker job is what WorkerCall *)
(* makes of it: none, running, or complete.                                *)
(***************************************************************************)
EXTENDS Naturals, FiniteSets

CONSTANTS
    NTasks,     \* tasks 1 .. NTasks of the locked plan, in dependency order
    Faults,     \* kinds of fault that may happen
    MaxFaults,  \* bound: faults in one behaviour
    None

FaultKinds == {"kill", "create", "rebuild", "closing", "worker", "gate", "error", "source"}

ASSUME TaskRunAssumption ==
    /\ NTasks \in Nat \ {0}
    /\ Faults \subseteq FaultKinds
    /\ MaxFaults \in Nat
    /\ \A edits \in SUBSET (0 .. NTasks) : edits # None

VARIABLES
    pc,           \* where the controller stands; "off": no process
    task,         \* the task of the loop it is at
    snapshot,     \* source-snapshot.json exists
    sourceMoved,  \* the source differs from the snapshot
    dir,          \* the workspace directory
    head,         \* the edits its last commit holds
    tree,         \* the edits its working tree holds
    marker,       \* controller/pending-workspace-validation.json
    jobs,         \* per task: its implementer job
    evidence,     \* tasks whose implementation/tasks artifact is written
    checkpoint,   \* controller/workspace-checkpoint.patch: its edits
    finalPatch,   \* delivery/final.patch: its edits
    lifecycle,    \* controller/workspace-lifecycle.json
    verified,     \* history: tasks whose edits passed the scope and declaration checks
    faults        \* faults so far

files == <<snapshot, dir, head, tree, marker, jobs, evidence, checkpoint, finalPatch, lifecycle>>
vars == <<pc, task, files, sourceMoved, verified, faults>>

-----------------------------------------------------------------------------
Tasks == 1 .. NTasks
Stray == 0
Edits == Tasks \cup {Stray}
PatchFile == (SUBSET Edits) \cup {None}

\* Both sides hash the same edits, each in a format of its own
\* (transactional.py and workspace.py, _workspace_state_digest).
Digest == [format : {"adapter", "mirror"}, edits : SUBSET Edits]
AdapterDigest(edits) == [format |-> "adapter", edits |-> edits]
MirrorDigest(edits) == [format |-> "mirror", edits |-> edits]

Marker == [job : Tasks, digest : Digest]

\* The record of a closed workspace: the patch it is rebuilt from.
Lifecycle == [patch : {"checkpoint", "final", "missing"}, digest : PatchFile]

PCs == {"off", "load", "resume", "creating", "copying", "baseline", "restored", "task", "worker", "edited",
        "answered", "verify", "commit", "gates", "evidence", "patch", "deliver", "close",
        "removing", "removed", "bare", "delivered"}

TypeOK ==
    /\ pc \in PCs
    /\ task \in 1 .. NTasks + 1
    /\ snapshot \in BOOLEAN
    /\ sourceMoved \in BOOLEAN
    /\ dir \in {"absent", "partial", "ready"}
    /\ head \subseteq Edits
    /\ tree \subseteq Edits
    /\ marker \in Marker \cup {None}
    /\ jobs \in [Tasks -> {"none", "running", "complete"}]
    /\ evidence \subseteq Tasks
    /\ checkpoint \in PatchFile
    /\ finalPatch \in PatchFile
    /\ lifecycle \in Lifecycle \cup {None}
    /\ verified \subseteq Tasks
    /\ faults \in 0 .. MaxFaults

Init ==
    /\ pc = "off"
    /\ task = 1
    /\ snapshot = FALSE
    /\ sourceMoved = FALSE
    /\ dir = "absent"
    /\ head = {}
    /\ tree = {}
    /\ marker = None
    /\ jobs = [t \in Tasks |-> "none"]
    /\ evidence = {}
    /\ checkpoint = None
    /\ finalPatch = None
    /\ lifecycle = None
    /\ verified = {}
    /\ faults = 0

-----------------------------------------------------------------------------
At(step) == pc = step
Goto(next) == pc' = next
Fault(kind) == kind \in Faults /\ faults < MaxFaults /\ faults' = faults + 1

\* A step that leaves the files alone, and one that leaves all but these alone.
Decide(next) == Goto(next) /\ UNCHANGED <<task, files, sourceMoved, verified, faults>>
aside == UNCHANGED <<sourceMoved, verified, faults>>
records == UNCHANGED <<snapshot, evidence, checkpoint, finalPatch, lifecycle>>

\* Orchestrator(..., continue_existing): an existing directory is loaded at once,
\* and one that is no Git checkout makes the constructor raise.
Start ==
    /\ At("off")
    /\ task' = 1
    /\ Goto(IF dir = "ready" THEN "load" ELSE IF dir = "absent" THEN "resume" ELSE "off")
    /\ UNCHANGED files
    /\ aside

\* _completed_write_job_owns_pending_state: the dirt is a complete job's, unchanged
\* since the adapter marked it.
MarkerOwnsTree ==
    /\ marker # None
    /\ jobs[marker.job] = "complete"
    /\ marker.digest = MirrorDigest(tree)

\* load_existing keeps the dirt of a completed write job, discards any other.
Load(here, next) ==
    /\ At(here)
    /\ IF tree = head
       THEN marker' = None /\ UNCHANGED tree
       ELSE IF MarkerOwnsTree
            THEN UNCHANGED <<marker, tree>>
            ELSE marker' = None /\ tree' = head
    /\ Goto(next)
    /\ UNCHANGED <<task, dir, head, jobs>>
    /\ records /\ aside

LoadExisting == Load("load", "task")

\* resume_or_create without a directory: create one from the source as it is
\* now, or rebuild the one that was cleaned away, which requires the snapshot's
\* source.
ResumeOrCreate ==
    /\ At("resume")
    /\ \/ /\ ~snapshot
          /\ Goto("creating")
          /\ snapshot' = TRUE
          /\ dir' = "partial"
       \/ /\ snapshot /\ ~sourceMoved
          /\ Goto("copying")
          /\ dir' = "partial"
          /\ UNCHANGED snapshot
       \/ /\ snapshot /\ sourceMoved
          /\ Goto("close")
          /\ UNCHANGED <<snapshot, dir>>
    /\ UNCHANGED <<task, head, tree, marker, jobs, evidence, checkpoint, finalPatch, lifecycle>>
    /\ aside

\* _materialize_workspace ends with the baseline commit.
Materialize ==
    /\ pc \in {"creating", "copying"}
    /\ dir' = "ready"
    /\ head' = {}
    /\ tree' = {}
    /\ Goto(IF pc = "creating" THEN "task" ELSE "baseline")
    /\ UNCHANGED <<task, marker, jobs>>
    /\ records /\ aside

\* The patch a lifecycle record names, if it still has the recorded digest.
NamedPatch == IF lifecycle.patch = "checkpoint" THEN checkpoint ELSE finalPatch
Recoverable ==
    /\ lifecycle # None
    /\ lifecycle.patch # "missing"
    /\ lifecycle.digest = NamedPatch

RestorePatch ==
    /\ At("baseline")
    /\ IF Recoverable
       THEN /\ tree' = NamedPatch
            /\ Goto(IF NamedPatch = {} THEN "task" ELSE "restored")
            /\ UNCHANGED dir
       ELSE dir' = "absent" /\ Goto("close") /\ UNCHANGED tree
    /\ UNCHANGED <<task, head, marker, jobs>>
    /\ records /\ aside

CommitTree(here, next) ==
    /\ At(here)
    /\ head' = tree
    /\ marker' = None
    /\ Goto(next)
    /\ UNCHANGED <<task, dir, tree, jobs>>
    /\ records /\ aside

CommitRestored == CommitTree("restored", "task")
-----------------------------------------------------------------------------
\* The task loop.

\* A completed job is reused, one left running cannot begin again, and a worker
\* only starts in a pristine checkout.
NextTask ==
    /\ At("task")
    /\ \/ task > NTasks /\ Decide("patch")
       \/ /\ task \in evidence
          /\ task' = task + 1
          /\ UNCHANGED <<pc, files>>
          /\ aside
       \/ /\ task \in Tasks \ evidence
          /\ \/ jobs[task] = "complete" /\ Decide("verify")
             \/ jobs[task] = "running" /\ Decide("close")
             \/ jobs[task] = "none" /\ tree # head /\ Decide("close")
             \/ /\ jobs[task] = "none" /\ tree = head
                /\ jobs' = [jobs EXCEPT ![task] = "running"]
                /\ Goto("worker")
                /\ UNCHANGED <<task, dir, head, tree, marker>>
                /\ records /\ aside

\* The worker edits its files, and perhaps more than it says.
WorkerEdits ==
    /\ At("worker")
    /\ \E extra \in {{}, {Stray}} : tree' = tree \cup {task} \cup extra
    /\ Goto("edited")
    /\ UNCHANGED <<task, dir, head, marker, jobs>>
    /\ records /\ aside

\* A failed attempt is rolled back; the call tries again or gives up.
WorkerFails ==
    /\ pc \in {"worker", "edited"}
    /\ Fault("worker")
    /\ tree' = head
    /\ jobs' = [jobs EXCEPT ![task] = "none"]
    /\ pc' \in {"task", "close"}
    /\ UNCHANGED <<task, dir, head, marker, sourceMoved, verified>>
    /\ records

MarkPending ==
    /\ At("edited")
    /\ marker' = [job |-> task, digest |-> AdapterDigest(tree)]
    /\ Goto("answered")
    /\ UNCHANGED <<task, dir, head, tree, jobs>>
    /\ records /\ aside

\* Mutant: the job is recorded with a status no job has.
CompleteJob_BadStatus ==
    /\ At("answered")
    /\ jobs' = [jobs EXCEPT ![task] = "done"]
    /\ Goto("verify")
    /\ UNCHANGED <<task, dir, head, tree, marker>>
    /\ records /\ aside
CompleteJob ==
    /\ At("answered")
    /\ jobs' = [jobs EXCEPT ![task] = "complete"]
    /\ Goto("verify")
    /\ UNCHANGED <<task, dir, head, tree, marker>>
    /\ records /\ aside

\* The changed paths must be the declared ones, inside the task's scope.

\* Mutant: edits beyond the declared ones pass.
Declared_Contains == task \in tree \ head
Declared == tree \ head = {task}

\* Mutant: the task's evidence is written before its edits are committed.
Verify_EvidenceFirst ==
    /\ At("verify")
    /\ Goto(IF Declared THEN "commit" ELSE "close")
    /\ verified' = IF Declared THEN verified \cup {task} ELSE verified
    /\ evidence' = IF Declared THEN evidence \cup {task} ELSE evidence
    /\ UNCHANGED <<task, snapshot, dir, head, tree, marker, jobs, checkpoint, finalPatch,
                   lifecycle, sourceMoved, faults>>
Verify ==
    /\ At("verify")
    /\ Goto(IF Declared THEN "commit" ELSE "close")
    /\ verified' = IF Declared THEN verified \cup {task} ELSE verified
    /\ UNCHANGED <<task, files, sourceMoved, faults>>

Checkpoint == CommitTree("commit", "gates")

Gates ==
    /\ At("gates")
    /\ \/ Decide("evidence")
       \/ /\ Fault("gate")
          /\ Goto("close")
          /\ UNCHANGED <<task, files, sourceMoved, verified>>

WriteEvidence ==
    /\ At("evidence")
    /\ evidence' = evidence \cup {task}
    /\ task' = task + 1
    /\ Goto("task")
    /\ UNCHANGED <<snapshot, dir, head, tree, marker, jobs, checkpoint, finalPatch, lifecycle>>
    /\ aside

WritePatch ==
    /\ At("patch")
    /\ finalPatch' = head
    /\ Goto("deliver")
    /\ UNCHANGED <<task, snapshot, dir, head, tree, marker, jobs, evidence, checkpoint, lifecycle>>
    /\ aside

Deliver == At("deliver") /\ Decide("delivered")
-----------------------------------------------------------------------------
\* cleanup_terminal of a run that did not complete: keep the committed edits as
\* a patch, remove the checkout, record which patch it was.

\* Mutant: the patch of the last delivery attempt is kept, if there is one.
Close_KeepFinal ==
    /\ At("close")
    /\ IF dir = "ready" /\ finalPatch = None
       THEN /\ checkpoint' = head
            /\ marker' = None
            /\ dir' = "partial"
            /\ Goto("removing")
       ELSE dir' = "absent" /\ Goto("bare") /\ UNCHANGED <<checkpoint, marker>>
    /\ UNCHANGED <<task, snapshot, head, tree, jobs, evidence, finalPatch, lifecycle>>
    /\ aside
Close ==
    /\ At("close")
    /\ IF dir = "ready"
       THEN /\ checkpoint' = head
            /\ marker' = IF tree # head /\ MarkerOwnsTree THEN marker ELSE None
            /\ dir' = "partial"
            /\ Goto("removing")
       ELSE Goto("bare") /\ UNCHANGED <<checkpoint, marker, dir>>
    /\ UNCHANGED <<task, snapshot, head, tree, jobs, evidence, finalPatch, lifecycle>>
    /\ aside

RemoveDirectory ==
    /\ At("removing")
    /\ dir' = "absent"
    /\ Goto("removed")
    /\ UNCHANGED <<task, head, tree, marker, jobs>>
    /\ records /\ aside

RecordLifecycle ==
    /\ pc \in {"removed", "bare"}
    /\ lifecycle' =
          IF pc = "removed" THEN [patch |-> "checkpoint", digest |-> checkpoint]
          ELSE IF finalPatch # None THEN [patch |-> "final", digest |-> finalPatch]
          ELSE [patch |-> "missing", digest |-> None]
    /\ Goto("off")
    /\ UNCHANGED <<task, snapshot, dir, head, tree, marker, jobs, evidence, checkpoint, finalPatch>>
    /\ aside
-----------------------------------------------------------------------------
\* Faults.  A killed controller leaves every file as it is (and may not have got
\* to making the directory yet).

KillKind ==
    CASE pc = "creating" -> "create"
      [] pc \in {"copying", "baseline", "restored"} -> "rebuild"
      [] pc \in {"close", "removing", "removed", "bare"} -> "closing"
      [] OTHER -> "kill"

Kill ==
    /\ pc \notin {"off", "delivered"}
    /\ Fault(KillKind)
    /\ Goto("off")
    /\ dir' \in IF pc \in {"creating", "copying"} THEN {"absent", "partial"} ELSE {dir}
    /\ UNCHANGED <<task, head, tree, marker, jobs, sourceMoved, verified>>
    /\ records

\* Any step of the try block raises.  A failed create or rebuild removes what it
\* has made.
Raise ==
    /\ Fault("error")
    /\ Goto("close")
    /\ \/ /\ pc \in {"commit", "gates", "evidence", "patch", "deliver"}
          /\ UNCHANGED <<snapshot, dir>>
       \/ /\ pc \in {"creating", "copying", "baseline", "restored"}
          /\ dir' = "absent"
          /\ snapshot' = (pc # "creating")
    /\ UNCHANGED <<task, head, tree, marker, jobs, evidence, checkpoint, finalPatch, lifecycle,
                   sourceMoved, verified>>

\* The operator changes the source after the snapshot, or restores it.
SourceMoves ==
    /\ snapshot /\ pc # "creating"
    /\ IF sourceMoved THEN UNCHANGED faults ELSE Fault("source")
    /\ sourceMoved' = ~sourceMoved
    /\ UNCHANGED <<pc, task, files, verified>>

Next ==
    \/ Start \/ LoadExisting \/ ResumeOrCreate \/ Materialize \/ RestorePatch \/ CommitRestored
    \/ NextTask \/ WorkerEdits \/ WorkerFails \/ MarkPending \/ CompleteJob \/ Verify
    \/ Checkpoint \/ Gates \/ WriteEvidence \/ WritePatch \/ Deliver
    \/ Close \/ RemoveDirectory \/ RecordLifecycle
    \/ Kill \/ Raise \/ SourceMoves

Spec == Init /\ [][Next]_vars
-----------------------------------------------------------------------------
\* A run only delivers the edits of all its tasks and nothing else, whatever
\* happened to its checkout on the way: tasks are skipped on the strength of an
\* evidence file, so their edits have to come back with the checkout.
EveryTaskDelivered == pc \in {"deliver", "delivered"} => finalPatch = Tasks

\* Undeclared or rejected edits never reach a commit, a checkpoint patch or the
\* final patch, also not through a later load, close or rebuild.
OnlyVerifiedEdits ==
    /\ head \subseteq verified
    /\ \A patch \in {checkpoint, finalPatch} \ {None} : patch \subseteq verified

\* As long as the run can still be rebuilt, it is rebuilt with the edits of every
\* task whose evidence says it is done.
EvidenceRecoverable == dir = "absent" /\ Recoverable => evidence \subseteq NamedPatch

\* docs/PRODUCT_PROOF.md: completed visible write edits are preserved across the
\* crash window between worker and checkpoint.
CompletedEditsPreserved ==
    [][At("load") /\ pc' = "task" /\ marker # None
          /\ jobs[marker.job] = "complete" /\ marker.digest = AdapterDigest(tree)
             => tree' = tree]_vars

\* docs/ARCHITECTURE.md: the workspace is reconstructed from snapshot and patch.
\* A run that is back in its task loop has the edits of its finished tasks.
RebuiltWithEvidence == At("task") => evidence \subseteq head
=============================================================================
