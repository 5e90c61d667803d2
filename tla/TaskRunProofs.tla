--------------------------- MODULE TaskRunProofs ---------------------------
(***************************************************************************)
(* The safety properties of TaskRun, proved for every number of tasks and  *)
(* of faults.                                                              *)
(*                                                                         *)
(* That only verified edits are kept holds through every fault.  That the  *)
(* run keeps, rebuilds and delivers the edits of its finished tasks holds  *)
(* unless a controller dies while it rebuilds its checkout (the fault      *)
(* "rebuild"): the next one takes the bare checkout for the restored one.  *)
(***************************************************************************)
EXTENDS TaskRun, TLAPS

-----------------------------------------------------------------------------
\* Inside a task's steps the loop is at one of the plan's tasks.
AtTask == pc \in {"worker", "edited", "answered", "verify", "commit", "gates", "evidence"} => task \in Tasks

\* A lifecycle record that names a patch was written when there was one.
PatchNamed ==
    /\ lifecycle # None /\ lifecycle.patch # "missing" => lifecycle.digest # None
    /\ pc \in {"removing", "removed"} => checkpoint # None

\* The adapter's digest of the pending edits is not in the format the mirror
\* compares it with.
AdapterMarks == marker # None => marker.digest.format = "adapter"

\* Edits that become a commit next, and those that have become something kept.
VerifiedInv ==
    /\ OnlyVerifiedEdits
    /\ pc \in {"commit", "restored"} => tree \subseteq verified
    /\ pc = "baseline" => head = {}

\* The places at which the controller has its checkout open.
Open == {"load", "baseline", "restored", "task", "worker", "edited", "answered", "verify", "commit", "gates",
         "evidence", "patch", "deliver", "delivered"}
\* Those of them inside the task loop and after it.
Loop == Open \ {"load", "baseline", "restored"}

\* Where the checkout is at each place of the controller.
Places ==
    /\ pc \in Open => dir = "ready"
    /\ pc \in {"resume", "removed"} => dir = "absent"
    /\ pc \in {"creating", "copying", "removing"} => dir = "partial"
    /\ pc = "bare" => dir # "ready"
    /\ dir = "ready" => head \subseteq tree
    /\ dir = "ready" \/ pc \in {"creating", "copying"} => snapshot

\* The edits of the finished tasks are in the last commit, or in the patch the
\* checkout will be rebuilt from, or on their way from one to the other.
Kept ==
    /\ dir = "ready" /\ pc \notin {"baseline", "restored"} => evidence \subseteq head
    /\ dir # "ready" \/ pc \in {"baseline", "restored"} => (Recoverable => evidence \subseteq NamedPatch)
    /\ pc = "restored" => evidence \subseteq tree
    /\ pc \in {"removing", "removed"} => evidence \subseteq checkpoint
    /\ ~snapshot \/ pc = "creating" => evidence = {}

\* A task is passed only with its evidence, and its evidence is written only with
\* its edits in a commit.
Progress ==
    /\ pc \in {"load", "resume", "creating", "copying", "baseline", "restored"} => task = 1
    /\ pc \in Loop => \A t \in Tasks : t < task => t \in evidence
    /\ pc = "commit" => task \in tree
    /\ pc \in {"gates", "evidence"} => task \in head
    /\ pc = "patch" => task > NTasks
    /\ finalPatch # None => finalPatch = Tasks
    /\ pc \in {"deliver", "delivered"} => finalPatch # None

IInv == TypeOK /\ AtTask /\ PatchNamed /\ AdapterMarks /\ VerifiedInv
KeptInv == "rebuild" \notin Faults => Places /\ Kept /\ Progress

-----------------------------------------------------------------------------
\* Type correctness.
LEMMA TypeInit == Init => TypeOK
<1>1. 1 \in 1 .. NTasks + 1 /\ 0 \in 0 .. MaxFaults
  BY TaskRunAssumption
<1>2. [t \in Tasks |-> "none"] \in [Tasks -> {"none", "running", "complete"}]
  OBVIOUS
<1>3. Init => jobs \in [Tasks -> {"none", "running", "complete"}]
  BY <1>2 DEF Init
<1> QED
  BY <1>1, <1>3 DEF Init, TypeOK, PCs, PatchFile

\* Tasks are counted from 1, and no task is the stray edit.
LEMMA TasksTyped ==
    /\ NTasks \in Nat \ {0}
    /\ \A t \in Tasks : t \in 1 .. NTasks + 1 /\ t + 1 \in 1 .. NTasks + 1 /\ t \in Edits
    /\ \A t \in 1 .. NTasks + 1 : t \in Tasks \/ t > NTasks
    /\ Tasks \subseteq Edits /\ 1 \in 1 .. NTasks + 1
    /\ None \notin SUBSET Edits
<1>1. Edits = 0 .. NTasks
  BY TaskRunAssumption DEF Tasks, Edits, Stray
<1>2. None \notin SUBSET Edits
  BY <1>1, TaskRunAssumption
<1> QED
  BY <1>1, <1>2, TaskRunAssumption DEF Tasks

\* What is restored is a patch.
LEMMA NamedTyped ==
    ASSUME TypeOK, PatchNamed, Recoverable
    PROVE  NamedPatch \in SUBSET Edits /\ NamedPatch \in {checkpoint, finalPatch} \ {None}
<1>1. NamedPatch \in {checkpoint, finalPatch} \ {None}
  BY DEF Recoverable, NamedPatch, PatchNamed
<1>2. checkpoint \in (SUBSET Edits) \cup {None} /\ finalPatch \in (SUBSET Edits) \cup {None}
  BY DEF TypeOK, PatchFile
<1> QED
  BY <1>1, <1>2

\* Every step of the model leaves well-typed files.
LEMMA TypeStep == TypeOK /\ AtTask /\ PatchNamed /\ [Next]_vars => TypeOK'
<1> SUFFICES ASSUME TypeOK, AtTask, PatchNamed, [Next]_vars
             PROVE  TypeOK'
  OBVIOUS
<1> USE DEF TypeOK, At, Goto, Decide, aside, records, files
<1>a. ASSUME NEW kind, Fault(kind)
      PROVE  faults' \in 0 .. MaxFaults
  BY <1>a, TaskRunAssumption DEF Fault
<1>1. CASE Start \/ ResumeOrCreate \/ Materialize
  <2>1. CASE Start
    BY <2>1, TasksTyped DEF Start, PCs
  <2>2. CASE ResumeOrCreate
    BY <2>2 DEF ResumeOrCreate, PCs
  <2>3. CASE Materialize
    BY <2>3 DEF Materialize, PCs
  <2> QED
    BY <1>1, <2>1, <2>2, <2>3
<1>2. CASE LoadExisting
  BY <1>2 DEF LoadExisting, Load, PCs
<1>3. CASE RestorePatch
  BY <1>3, NamedTyped DEF RestorePatch, PCs
<1>4. CASE CommitRestored \/ Checkpoint
  BY <1>4 DEF CommitRestored, Checkpoint, CommitTree, PCs
<1>5. CASE NextTask
  <2>1. CASE Decide("patch") \/ Decide("verify") \/ Decide("close")
    BY <2>1 DEF PCs
  <2>2. CASE task \in evidence /\ task' = task + 1 /\ UNCHANGED <<pc, files>> /\ aside
    BY <2>2, TasksTyped
  <2>3. CASE /\ jobs' = [jobs EXCEPT ![task] = "running"] /\ pc' = "worker"
             /\ UNCHANGED <<task, dir, head, tree, marker>> /\ records /\ aside
    BY <2>3 DEF PCs
  <2> QED
    BY <1>5, <2>1, <2>2, <2>3 DEF NextTask
<1>6. CASE WorkerEdits
  <2>1. tree' \subseteq Edits
    BY <1>6, TasksTyped DEF WorkerEdits, AtTask, Edits
  <2> QED
    BY <1>6, <2>1 DEF WorkerEdits, PCs
<1>7. CASE WorkerFails
  BY <1>7, <1>a DEF WorkerFails, PCs
<1>8. CASE MarkPending
  BY <1>8 DEF MarkPending, AtTask, Marker, AdapterDigest, Digest, PCs
<1>9. CASE CompleteJob
  BY <1>9 DEF CompleteJob, PCs
<1>10. CASE Verify
  BY <1>10 DEF Verify, AtTask, PCs
<1>11. CASE Gates \/ Deliver
  BY <1>11, <1>a DEF Gates, Deliver, PCs
<1>12. CASE WriteEvidence
  BY <1>12, TasksTyped DEF WriteEvidence, AtTask, PCs
<1>13. CASE WritePatch \/ Close \/ RemoveDirectory
  BY <1>13 DEF WritePatch, Close, RemoveDirectory, PatchFile, PCs
<1>14. CASE RecordLifecycle
  <2>1. lifecycle' \in Lifecycle
    BY <1>14 DEF RecordLifecycle, Lifecycle, PatchFile
  <2> QED
    BY <1>14, <2>1 DEF RecordLifecycle, PCs
<1>15. CASE Kill
  BY <1>15, <1>a DEF Kill, PCs
<1>16. CASE Raise
  BY <1>16, <1>a DEF Raise, PCs
<1>17. CASE SourceMoves
  BY <1>17, <1>a DEF SourceMoves
<1>18. CASE UNCHANGED vars
  BY <1>18 DEF vars
<1> QED
  BY <1>1, <1>2, <1>3, <1>4, <1>5, <1>6, <1>7, <1>8, <1>9, <1>10, <1>11, <1>12, <1>13, <1>14, <1>15, <1>16,
     <1>17, <1>18 DEF Next

-----------------------------------------------------------------------------
\* What holds through every fault.

\* No edit the mirror finds pending is one it keeps.
LEMMA NothingOwned == TypeOK /\ AdapterMarks => ~MarkerOwnsTree
BY DEF AdapterMarks, MarkerOwnsTree, MirrorDigest

\* The loop stays at a task until it has written the task's evidence.
LEMMA AtTaskStep == TypeOK /\ AtTask /\ [Next]_vars => AtTask'
<1> SUFFICES ASSUME TypeOK, AtTask, [Next]_vars
             PROVE  AtTask'
  OBVIOUS
<1> USE DEF AtTask, At, Goto, Decide, files
<1>1. CASE Start \/ ResumeOrCreate \/ Materialize \/ LoadExisting \/ RestorePatch \/ CommitRestored
  BY <1>1 DEF Start, ResumeOrCreate, Materialize, LoadExisting, Load, RestorePatch, CommitRestored, CommitTree
<1>2. CASE NextTask
  BY <1>2 DEF NextTask
<1>3. CASE WorkerEdits \/ WorkerFails \/ MarkPending \/ CompleteJob \/ Verify \/ Checkpoint \/ Gates
  BY <1>3 DEF WorkerEdits, WorkerFails, MarkPending, CompleteJob, Verify, Checkpoint, CommitTree, Gates
<1>4. CASE WriteEvidence \/ WritePatch \/ Deliver \/ Close \/ RemoveDirectory \/ RecordLifecycle
  BY <1>4 DEF WriteEvidence, WritePatch, Deliver, Close, RemoveDirectory, RecordLifecycle
<1>5. CASE Kill \/ Raise \/ SourceMoves \/ UNCHANGED vars
  BY <1>5 DEF Kill, Raise, SourceMoves, vars
<1> QED
  BY <1>1, <1>2, <1>3, <1>4, <1>5 DEF Next

\* A lifecycle record is written after the patch it names.
LEMMA NamedStep == TypeOK /\ PatchNamed /\ [Next]_vars => PatchNamed'
<1> SUFFICES ASSUME TypeOK, PatchNamed, [Next]_vars
             PROVE  PatchNamed'
  OBVIOUS
<1> USE DEF PatchNamed, At, Goto, Decide, files, records
<1>1. CASE Close
  BY <1>1, TasksTyped DEF Close, TypeOK
<1>2. CASE RecordLifecycle
  BY <1>2 DEF RecordLifecycle
<1>3. CASE Start \/ ResumeOrCreate \/ Materialize \/ LoadExisting \/ RestorePatch \/ CommitRestored \/ NextTask
  BY <1>3 DEF Start, ResumeOrCreate, Materialize, LoadExisting, Load, RestorePatch, CommitRestored, CommitTree,
              NextTask
<1>4. CASE WorkerEdits \/ WorkerFails \/ MarkPending \/ CompleteJob \/ Verify \/ Checkpoint \/ Gates
  BY <1>4 DEF WorkerEdits, WorkerFails, MarkPending, CompleteJob, Verify, Checkpoint, CommitTree, Gates
<1>5. CASE WriteEvidence \/ WritePatch \/ Deliver \/ RemoveDirectory
  BY <1>5 DEF WriteEvidence, WritePatch, Deliver, RemoveDirectory
<1>6. CASE Kill \/ Raise \/ SourceMoves \/ UNCHANGED vars
  BY <1>6 DEF Kill, Raise, SourceMoves, vars
<1> QED
  BY <1>1, <1>2, <1>3, <1>4, <1>5, <1>6 DEF Next

\* Only the adapter writes the marker.
LEMMA MarksStep == TypeOK /\ AdapterMarks /\ [Next]_vars => AdapterMarks'
<1> SUFFICES ASSUME TypeOK, AdapterMarks, [Next]_vars
             PROVE  AdapterMarks'
  OBVIOUS
<1>1. CASE MarkPending
  BY <1>1 DEF MarkPending, AdapterMarks, AdapterDigest
<1>2. CASE ~MarkPending
  <2>1. marker' = marker \/ marker' = None
    BY <1>2 DEF Next, vars, files, records, Decide, Start, ResumeOrCreate, Materialize, LoadExisting, Load,
                RestorePatch, CommitRestored, CommitTree, NextTask, WorkerEdits, WorkerFails, CompleteJob, Verify,
                Checkpoint, Gates, WriteEvidence, WritePatch, Deliver, Close, RemoveDirectory, RecordLifecycle,
                Kill, Raise, SourceMoves
  <2> QED
    BY <2>1 DEF AdapterMarks
<1> QED
  BY <1>1, <1>2

\* Edits are committed only after they passed the check, and every patch is
\* written from a commit and restored into one.
LEMMA VerifiedStep == TypeOK /\ AtTask /\ PatchNamed /\ VerifiedInv /\ [Next]_vars => VerifiedInv'
<1> SUFFICES ASSUME TypeOK, AtTask, PatchNamed, VerifiedInv, [Next]_vars
             PROVE  VerifiedInv'
  OBVIOUS
<1> USE DEF VerifiedInv, OnlyVerifiedEdits, At, Goto, Decide, aside, records, files
<1>1. CASE Start \/ ResumeOrCreate \/ Materialize \/ LoadExisting
  BY <1>1 DEF Start, ResumeOrCreate, Materialize, LoadExisting, Load
<1>2. CASE RestorePatch
  BY <1>2, NamedTyped DEF RestorePatch
<1>3. CASE CommitRestored \/ Checkpoint
  BY <1>3 DEF CommitRestored, Checkpoint, CommitTree
<1>4. CASE NextTask \/ WorkerEdits \/ WorkerFails \/ MarkPending \/ CompleteJob
  BY <1>4 DEF NextTask, WorkerEdits, WorkerFails, MarkPending, CompleteJob
<1>5. CASE Verify
  BY <1>5 DEF Verify, Declared
<1>6. CASE Gates \/ WriteEvidence \/ WritePatch \/ Deliver
  BY <1>6 DEF Gates, WriteEvidence, WritePatch, Deliver
<1>7. CASE Close \/ RemoveDirectory \/ RecordLifecycle
  BY <1>7 DEF Close, RemoveDirectory, RecordLifecycle
<1>8. CASE Kill \/ Raise \/ SourceMoves \/ UNCHANGED vars
  BY <1>8 DEF Kill, Raise, SourceMoves, vars
<1> QED
  BY <1>1, <1>2, <1>3, <1>4, <1>5, <1>6, <1>7, <1>8 DEF Next

\* The initial states satisfy the inductive invariant.
LEMMA InvInit == Init => IInv
BY TypeInit DEF Init, IInv, AtTask, PatchNamed, AdapterMarks, VerifiedInv, OnlyVerifiedEdits

\* Every step keeps the inductive invariant.
LEMMA InvStep == IInv /\ [Next]_vars => IInv'
BY TypeStep, AtTaskStep, NamedStep, MarksStep, VerifiedStep DEF IInv

\* The inductive invariant that holds through every fault.
THEOREM TaskRunInvariant == Spec => []IInv
BY InvInit, InvStep, PTL DEF Spec

\* Every state of a run's checkout and tasks is well typed.
THEOREM TaskRunTypeCorrect == Spec => []TypeOK
<1>1. IInv => TypeOK
  BY DEF IInv
<1> QED
  BY <1>1, TaskRunInvariant, PTL

\* No commit and no patch ever holds an edit that did not pass the check of the
\* task that made it, whatever stops, closes and rebuilds come in between.
THEOREM VerifiedEditsOnly == Spec => []OnlyVerifiedEdits
<1>1. IInv => OnlyVerifiedEdits
  BY DEF IInv, VerifiedInv
<1> QED
  BY <1>1, TaskRunInvariant, PTL

\* The edits of a completed job are never found to be the marked ones: the two
\* digests are in different formats, so load_existing discards what the marker
\* was written to keep.
THEOREM PendingNeverKept == Spec => []~MarkerOwnsTree
<1>1. IInv => ~MarkerOwnsTree
  BY NothingOwned DEF IInv
<1> QED
  BY <1>1, TaskRunInvariant, PTL

-----------------------------------------------------------------------------
\* What holds unless a controller dies while it rebuilds its checkout.

\* A controller that dies elsewhere leaves the checkout as it was.
LEMMA KillElsewhere ==
    ASSUME "rebuild" \notin Faults, Kill
    PROVE  /\ pc \notin {"copying", "baseline", "restored", "off", "delivered"} /\ pc' = "off"
           /\ dir' = dir \/ (pc = "creating" /\ dir' \in {"absent", "partial"})
           /\ UNCHANGED <<task, snapshot, head, tree, evidence, checkpoint, finalPatch, lifecycle>>
BY DEF Kill, Fault, KillKind, Goto, records

\* The checkout is where the controller takes it to be.
LEMMA PlacesStep == IInv /\ Places /\ "rebuild" \notin Faults /\ [Next]_vars => Places'
<1> SUFFICES ASSUME IInv, Places, "rebuild" \notin Faults, [Next]_vars
             PROVE  Places'
  OBVIOUS
<1> USE DEF Places, Open, At, Goto, Decide, aside, records, files
<1>1. CASE Start \/ ResumeOrCreate
  BY <1>1 DEF Start, ResumeOrCreate, IInv, TypeOK
<1>2. CASE Materialize \/ LoadExisting \/ RestorePatch \/ CommitRestored \/ Checkpoint
  BY <1>2 DEF Materialize, LoadExisting, Load, RestorePatch, CommitRestored, Checkpoint, CommitTree, IInv,
              VerifiedInv
<1>3. CASE NextTask
  BY <1>3 DEF NextTask
<1>4. CASE WorkerEdits \/ WorkerFails \/ MarkPending \/ CompleteJob \/ Verify \/ Gates
  BY <1>4 DEF WorkerEdits, WorkerFails, MarkPending, CompleteJob, Verify, Gates
<1>5. CASE WriteEvidence \/ WritePatch \/ Deliver \/ Close \/ RemoveDirectory \/ RecordLifecycle
  BY <1>5 DEF WriteEvidence, WritePatch, Deliver, Close, RemoveDirectory, RecordLifecycle
<1>6. CASE Kill
  BY <1>6, KillElsewhere
<1>7. CASE Raise \/ SourceMoves \/ UNCHANGED vars
  BY <1>7 DEF Raise, SourceMoves, vars
<1> QED
  BY <1>1, <1>2, <1>3, <1>4, <1>5, <1>6, <1>7 DEF Next

\* What Kept says of the patch depends on these files alone.
LEMMA NamedSame ==
    ASSUME UNCHANGED <<checkpoint, finalPatch, lifecycle>>
    PROVE  NamedPatch' = NamedPatch /\ (Recoverable' <=> Recoverable)
BY DEF NamedPatch, Recoverable

\* The edits of the finished tasks stay recoverable.
LEMMA KeptStep ==
    TypeOK /\ PatchNamed /\ AtTask /\ Places /\ Kept /\ Progress /\ "rebuild" \notin Faults /\ [Next]_vars => Kept'
<1> SUFFICES ASSUME TypeOK, PatchNamed, AtTask, Places, Kept, Progress, "rebuild" \notin Faults, [Next]_vars
             PROVE  Kept'
  OBVIOUS
<1> USE DEF Kept, Open, At, Goto, Decide, aside, records, files
<1>1. CASE Start \/ ResumeOrCreate
  BY <1>1, NamedSame DEF Start, ResumeOrCreate, Places
<1>2. CASE Materialize
  BY <1>2, NamedSame DEF Materialize, Places
<1>3. CASE LoadExisting
  BY <1>3, NamedSame DEF LoadExisting, Load, Places
<1>4. CASE RestorePatch
  BY <1>4, NamedSame DEF RestorePatch, Places
<1>5. CASE CommitRestored \/ Checkpoint
  BY <1>5, NamedSame DEF CommitRestored, Checkpoint, CommitTree, Places
<1>6. CASE NextTask
  BY <1>6, NamedSame DEF NextTask, Places
<1>7. CASE WorkerEdits \/ WorkerFails \/ MarkPending \/ CompleteJob \/ Verify \/ Gates
  BY <1>7, NamedSame DEF WorkerEdits, WorkerFails, MarkPending, CompleteJob, Verify, Gates, Places
<1>8. CASE WriteEvidence
  BY <1>8, NamedSame DEF WriteEvidence, Places, Progress
<1>9. CASE WritePatch \/ Deliver
  BY <1>9 DEF WritePatch, Deliver, Places
<1>10. CASE Close
  <2>1. CASE dir = "ready"
    <3>1. evidence \subseteq head /\ checkpoint' = head
      BY <1>10, <2>1 DEF Close
    <3>2. Recoverable' => NamedPatch' \in {head, finalPatch} /\ NamedPatch' # None
      BY <1>10, <2>1 DEF Close, Recoverable, NamedPatch, PatchNamed
    <3>3. finalPatch # None => evidence \subseteq finalPatch
      BY DEF Progress, TypeOK
    <3> QED
      BY <1>10, <2>1, <3>1, <3>2, <3>3 DEF Close
  <2>2. CASE dir # "ready"
    BY <1>10, <2>2, NamedSame DEF Close
  <2> QED
    BY <2>1, <2>2
<1>11. CASE RemoveDirectory
  BY <1>11, NamedSame DEF RemoveDirectory, Places
<1>12. CASE RecordLifecycle
  <2>1. finalPatch # None => evidence \subseteq finalPatch
    BY DEF Progress, TypeOK
  <2>2. Recoverable' => \/ NamedPatch' = checkpoint /\ pc = "removed"
                        \/ NamedPatch' = finalPatch /\ finalPatch # None
    BY <1>12 DEF RecordLifecycle, Recoverable, NamedPatch
  <2> QED
    BY <1>12, <2>1, <2>2 DEF RecordLifecycle, Places
<1>13. CASE Kill
  BY <1>13, KillElsewhere, NamedSame DEF Places
<1>14. CASE Raise
  <2>1. CASE /\ pc \in {"creating", "copying", "baseline", "restored"}
             /\ dir' = "absent" /\ snapshot' = (pc # "creating")
    BY <1>14, <2>1, NamedSame DEF Raise, Places
  <2>2. CASE pc \in {"commit", "gates", "evidence", "patch", "deliver"} /\ UNCHANGED <<snapshot, dir>>
    BY <1>14, <2>2, NamedSame DEF Raise, Places
  <2> QED
    BY <1>14, <2>1, <2>2 DEF Raise
<1>15. CASE SourceMoves \/ UNCHANGED vars
  BY <1>15, NamedSame DEF SourceMoves, vars
<1> QED
  BY <1>1, <1>2, <1>3, <1>4, <1>5, <1>6, <1>7, <1>8, <1>9, <1>10, <1>11, <1>12, <1>13, <1>14, <1>15 DEF Next

\* The loop passes no task without its evidence.
LEMMA ProgressStep ==
    IInv /\ Places /\ Kept /\ Progress /\ "rebuild" \notin Faults /\ [Next]_vars => Progress'
<1> SUFFICES ASSUME IInv, Places, Kept, Progress, "rebuild" \notin Faults, [Next]_vars
             PROVE  Progress'
  OBVIOUS
<1> USE DEF Progress, Loop, Open, At, Goto, Decide, aside, records, files
<1>1. CASE Start \/ ResumeOrCreate
  BY <1>1 DEF Start, ResumeOrCreate
<1>2. CASE Materialize \/ LoadExisting \/ RestorePatch \/ CommitRestored
  <2>1. /\ UNCHANGED <<task, evidence, finalPatch>> /\ task = 1
        /\ pc' \in {"task", "baseline", "restored", "close"}
    BY <1>2 DEF Materialize, LoadExisting, Load, RestorePatch, CommitRestored, CommitTree
  <2> QED
    BY <2>1 DEF Tasks
<1>3. CASE NextTask
  <2>1. CASE Decide("patch") /\ task > NTasks
    BY <1>3, <2>1 DEF NextTask
  <2>2. CASE task \in evidence /\ task' = task + 1 /\ UNCHANGED <<pc, files>>
    <3>1. \A t \in Tasks : t < task + 1 => t < task \/ t = task
      BY DEF IInv, TypeOK, Tasks
    <3> QED
      BY <1>3, <2>2, <3>1 DEF NextTask
  <2>3. CASE pc' \in {"verify", "close", "worker"} /\ UNCHANGED <<task, evidence, finalPatch>>
    BY <1>3, <2>3 DEF NextTask
  <2> QED
    BY <1>3, <2>1, <2>2, <2>3 DEF NextTask
<1>4. CASE WorkerEdits \/ WorkerFails \/ MarkPending \/ CompleteJob
  BY <1>4 DEF WorkerEdits, WorkerFails, MarkPending, CompleteJob
<1>5. CASE Verify
  BY <1>5 DEF Verify, Declared
<1>6. CASE Checkpoint \/ Gates
  BY <1>6 DEF Checkpoint, CommitTree, Gates
<1>7. CASE WriteEvidence
  <2>1. \A t \in Tasks : t < task + 1 => t < task \/ t = task
    BY DEF IInv, TypeOK, Tasks
  <2> QED
    BY <1>7, <2>1 DEF WriteEvidence
<1>8. CASE WritePatch
  <2>1. Tasks \subseteq evidence
    <3>1. \A t \in Tasks : t < task
      <4>1. task > NTasks /\ task \in 1 .. NTasks + 1 /\ NTasks \in Nat
        BY <1>8, TasksTyped DEF WritePatch, IInv, TypeOK
      <4> QED
        BY <4>1 DEF Tasks
    <3> QED
      BY <1>8, <3>1 DEF WritePatch
  <2>2. evidence \subseteq head /\ head \subseteq Tasks
    BY <1>8 DEF WritePatch, Places, Kept, IInv, TypeOK, VerifiedInv, OnlyVerifiedEdits
  <2>3. finalPatch' = Tasks /\ Tasks # None
    BY <1>8, <2>1, <2>2, TasksTyped DEF WritePatch
  <2> QED
    BY <1>8, <2>3 DEF WritePatch
<1>9. CASE Deliver \/ Close \/ RemoveDirectory \/ RecordLifecycle
  BY <1>9 DEF Deliver, Close, RemoveDirectory, RecordLifecycle
<1>10. CASE Kill
  BY <1>10, KillElsewhere
<1>11. CASE Raise \/ SourceMoves \/ UNCHANGED vars
  BY <1>11 DEF Raise, SourceMoves, vars
<1> QED
  BY <1>1, <1>2, <1>3, <1>4, <1>5, <1>6, <1>7, <1>8, <1>9, <1>10, <1>11 DEF Next

\* The inductive invariant that needs rebuilds not to be killed.
LEMMA KeptInvariant == Spec => []KeptInv
<1>1. Init => KeptInv
  BY TasksTyped DEF Init, KeptInv, Places, Kept, Progress, Open, Loop, Recoverable
<1>2. IInv /\ KeptInv /\ [Next]_vars => KeptInv'
  BY PlacesStep, KeptStep, ProgressStep DEF KeptInv, IInv
<1> QED
  BY <1>1, <1>2, TaskRunInvariant, PTL DEF Spec

\* A run delivers the edits of all its tasks and nothing else, through stops,
\* failed workers and gates, discarded dirt, cleanups and rebuilds.
THEOREM AllTasksDelivered == "rebuild" \notin Faults => (Spec => []EveryTaskDelivered)
<1> SUFFICES ASSUME "rebuild" \notin Faults
             PROVE  Spec => []EveryTaskDelivered
  OBVIOUS
<1>1. KeptInv => EveryTaskDelivered
  BY DEF KeptInv, Progress, EveryTaskDelivered
<1> QED
  BY <1>1, KeptInvariant, PTL

\* A checkout that is gone can be rebuilt, if at all, with the edits of every
\* task the evidence says is done.
THEOREM EvidenceStaysRecoverable == "rebuild" \notin Faults => (Spec => []EvidenceRecoverable)
<1> SUFFICES ASSUME "rebuild" \notin Faults
             PROVE  Spec => []EvidenceRecoverable
  OBVIOUS
<1>1. KeptInv => EvidenceRecoverable
  BY DEF KeptInv, Kept, EvidenceRecoverable
<1> QED
  BY <1>1, KeptInvariant, PTL
=============================================================================
