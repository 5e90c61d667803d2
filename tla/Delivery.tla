------------------------------ MODULE Delivery ------------------------------
(***************************************************************************)
(* How a verified patch reaches the operator's repository, and how a       *)
(* process that stops half way is recovered: the last part of              *)
(* Orchestrator.run, _apply_pending_delivery, _recover_incomplete_delivery,*)
(* apply and rollback in workspace.py, run_with_bound_proof and            *)
(* run_with_managed_contract around them.                                  *)
(*                                                                         *)
(* One controller runs at a time.  Everything before the conformance       *)
(* record is the single step Work; the files outside the source repository *)
(* that matter for delivery are the run's state, the transaction record,   *)
(* final-result.json, the locked conformance artifact and the workspace.   *)
(* git commands are atomic for the operator's edits, but a git apply that  *)
(* breaks may have written any part of its files.                          *)
(***************************************************************************)
EXTENDS Naturals, FiniteSets

CONSTANTS
    Files,      \* files of the source repository
    Patched,    \* those the final patch changes
    Faults,     \* kinds of fault that may happen
    MaxFaults,  \* bound: faults in one behaviour
    MaxEdits,   \* bound: edits and commits of the operator in one behaviour
    None

FaultKinds == {"kill", "interrupt", "disk", "git", "cleanup", "torn"}

ASSUME DeliveryAssumption ==
    /\ Patched \subseteq Files
    /\ Patched # {}
    /\ Faults \subseteq FaultKinds
    /\ MaxFaults \in Nat
    /\ MaxEdits \in Nat
    /\ None \notin [Files -> {"old", "new", "oldEdited", "newEdited", "other"}]

VARIABLES
    source,       \* the operator's working tree
    phase,        \* state.json
    tx,           \* delivery/delivery-transaction.json
    final,        \* delivery/final-result.json
    conformance,  \* verification/intent-conformance.json exists, locked
    workspace,    \* the run's private checkout
    pc,           \* where the controller stands; "off": no process
    mem,          \* what the controller holds in memory
    captured,     \* source_states of apply_patch_to_source
    todo,         \* paths _restore_unchanged_source_paths has not visited
    headMoved,    \* the operator committed since this process read HEAD
    faults,       \* faults so far
    edits,        \* edits and commits of the operator so far
    certified     \* history: some run was certified COMPLETE and applied

disk == <<phase, tx, final, conformance, workspace>>
vars == <<source, disk, pc, mem, captured, todo, headMoved, faults, edits, certified>>

-----------------------------------------------------------------------------
\* A file holds the snapshot's text or the patch's, perhaps with an edit of the
\* operator that leaves the patch's hunks alone, or else something neither
\* git apply nor git apply --reverse accepts.
Text == {"old", "new", "oldEdited", "newEdited", "other"}
Edited == {"oldEdited", "newEdited", "other"}
Unpatched == {"old", "oldEdited"}
WithPatch == {"new", "newEdited"}

Old == [f \in Files |-> "old"]
Expected == [f \in Files |-> IF f \in Patched THEN "new" ELSE "old"]
Trees == [Files -> Text]

On == [old |-> "new", oldEdited |-> "newEdited"]
Off == [new |-> "old", newEdited |-> "oldEdited"]

CanApply == \A f \in Patched : source[f] \in Unpatched
CanReverse == \A f \in Patched : source[f] \in WithPatch
Forward(S) == [f \in Files |-> IF f \in S THEN On[source[f]] ELSE source[f]]
Backward(S) == [f \in Files |-> IF f \in S THEN Off[source[f]] ELSE source[f]]
PatchedNow == {f \in Files : source[f] \in WithPatch}

\* final-result.json and the result dictionary in memory: its status, whether
\* it says applied_to_source, and the tree verified_source_tree_sha256 names.
Result == [status : {"none", "pending", "complete", "blocked", "canceled"},
           applied : BOOLEAN, proof : Trees \cup {None}]
NoResult == [status |-> "none", applied |-> FALSE, proof |-> None]
Blocked(r) == [r EXCEPT !.status = "blocked"]

\* pre: final-result.json as run_with_bound_proof found it, if it was COMPLETE;
\* delivered: delivery_patch_applied; apply: the apply_on_success of this call;
\* path: which delivery the apply steps belong to.
Memory == [result : Result, pre : Result, delivered : BOOLEAN, apply : BOOLEAN,
           path : {"main", "saved"}]
Blank(a) == [result |-> NoResult, pre |-> NoResult, delivered |-> FALSE,
             apply |-> a, path |-> "main"]

\* Steps inside the try block of run, steps of its handler and of the proof
\* binding around it, and the closeout.
TryPCs == {"enter", "work", "conform", "check", "begin", "verify", "capture", "git",
           "compare", "undo", "restore", "applied", "pend", "phase", "final"}
ProofPCs == {"handle", "clear", "block", "failure", "prove", "persist", "unbind", "unlink",
             "invalidate", "rewrite", "certify"}
ClosePCs == {"close", "removing"}
PCs == {"off", "recover", "recovered", "returned"} \cup TryPCs \cup ProofPCs \cup ClosePCs

TypeOK ==
    /\ source \in Trees
    /\ phase \in {"working", "blocked", "complete"}
    /\ tx \in {"none", "applying", "applied"}
    /\ final \in Result
    /\ conformance \in BOOLEAN
    /\ workspace \in {"absent", "there", "torn"}
    /\ pc \in PCs
    /\ mem \in Memory
    /\ captured \in Trees
    /\ todo \subseteq Files
    /\ headMoved \in BOOLEAN
    /\ faults \in 0 .. MaxFaults
    /\ edits \in 0 .. MaxEdits
    /\ certified \in BOOLEAN

Init ==
    /\ source = Old
    /\ phase = "working"
    /\ tx = "none"
    /\ final = NoResult
    /\ conformance = FALSE
    /\ workspace = "absent"
    /\ pc = "off"
    /\ mem = Blank(FALSE)
    /\ captured = Old
    /\ todo = {}
    /\ headMoved = FALSE
    /\ faults = 0
    /\ edits = 0
    /\ certified = FALSE

-----------------------------------------------------------------------------
Goto(next) == pc' = next
At(step) == pc = step
Fault(kind) == kind \in Faults /\ faults < MaxFaults /\ faults' = faults + 1

sourceUnchanged == UNCHANGED source
diskUnchanged == UNCHANGED disk
scratchUnchanged == UNCHANGED <<captured, todo>>
worldUnchanged == UNCHANGED <<headMoved, faults, edits, certified>>

\* A step of the controller that only decides.
Decide(next, m) ==
    /\ Goto(next)
    /\ mem' = m
    /\ sourceUnchanged /\ diskUnchanged /\ scratchUnchanged /\ worldUnchanged

\* Orchestrator(..., continue_existing) and the entry of run_with_managed_contract.
\* A workspace directory that is no checkout makes the constructor raise.
Start(a) ==
    /\ pc \in {"off", "returned"}
    /\ phase' = IF phase = "complete" THEN "complete" ELSE "working"
    /\ mem' = Blank(a)
    /\ Goto(IF workspace = "torn" THEN "off" ELSE "recover")
    /\ UNCHANGED <<tx, final, conformance, workspace>>
    /\ sourceUnchanged /\ scratchUnchanged /\ worldUnchanged

\* rollback_patch_from_source: reverse the whole patch, then compare the source
\* with the snapshot.
Rollback(ok, okMem, failed) ==
    \/ /\ CanReverse
       /\ source' = Backward(Patched)
       /\ IF source' = Old THEN Goto(ok) /\ mem' = okMem ELSE Goto(failed) /\ UNCHANGED mem
       /\ UNCHANGED faults
    \/ /\ ~CanReverse
       /\ Goto(failed)
       /\ UNCHANGED <<source, mem, faults>>
    \/ /\ CanReverse
       /\ Fault("git")
       /\ \E S \in (SUBSET Patched) \ {Patched} : source' = Backward(S)
       /\ Goto(failed)
       /\ UNCHANGED mem

\* _recover_incomplete_delivery.  It runs before any try block: what it raises
\* ends the process.
KeepTransaction ==
    phase = "complete" /\ final.applied /\ final.status \in {"complete", "pending"}

Recover ==
    /\ At("recover")
    /\ \/ /\ tx = "none" \/ KeepTransaction
          /\ Decide("enter", mem)
       \/ /\ tx # "none"
          /\ ~KeepTransaction
          /\ \/ CanReverse /\ Rollback("recovered", mem, "off")
             \/ /\ ~CanReverse
                /\ Goto(IF source = Old THEN "recovered" ELSE "off")
                /\ UNCHANGED <<source, mem, faults>>
          /\ diskUnchanged /\ scratchUnchanged
          /\ UNCHANGED <<headMoved, edits, certified>>

ForgetTransaction(here, next) ==
    /\ At(here)
    /\ tx' = "none"
    /\ Goto(next)
    /\ UNCHANGED <<phase, final, conformance, workspace, mem>>
    /\ sourceUnchanged /\ scratchUnchanged /\ worldUnchanged

\* Mutant: recovery leaves the record it has dealt with.
Recovered_Keep == At("recovered") /\ Decide("enter", mem)
Recovered == ForgetTransaction("recovered", "enter")

\* run_with_bound_proof reads HEAD and a COMPLETE result; run then delivers a
\* saved patch, answers from the saved result, or works.
Enter ==
    /\ At("enter")
    /\ headMoved' = FALSE
    /\ LET m == [mem EXCEPT !.pre = IF final.status = "complete" THEN final ELSE NoResult]
       IN \/ /\ final.status = "complete" /\ ~final.applied /\ mem.apply
             /\ mem' = [m EXCEPT !.result = final, !.path = "saved"]
             /\ Goto("begin")
             /\ UNCHANGED final
          \/ /\ ~(final.status = "complete" /\ ~final.applied /\ mem.apply)
             /\ IF phase = "complete" /\ final.status # "none"
                THEN /\ final' = IF final.status = "pending"
                                 THEN [final EXCEPT !.status = "complete"] ELSE final
                     /\ mem' = [m EXCEPT !.result = final']
                     /\ Goto("prove")
                ELSE /\ mem' = m
                     /\ Goto("work")
                     /\ UNCHANGED final
    /\ UNCHANGED <<phase, tx, conformance, workspace, faults, edits, certified>>
    /\ sourceUnchanged /\ scratchUnchanged

\* Everything up to the acceptance evidence.  A workspace that was cleaned away
\* is rebuilt, which first requires the source to be unchanged.
Work ==
    /\ At("work")
    /\ \/ /\ workspace = "there" \/ source = Old
          /\ workspace' = "there"
          /\ Goto("conform")
       \/ /\ Goto("handle")
          /\ UNCHANGED workspace
    /\ UNCHANGED <<phase, tx, final, conformance, mem>>
    /\ sourceUnchanged /\ scratchUnchanged /\ worldUnchanged

\* write_json(..., lock=True) refuses a path that is already locked.
Conform ==
    /\ At("conform")
    /\ Goto(IF conformance THEN "handle" ELSE "check")
    /\ conformance' = TRUE
    /\ UNCHANGED <<phase, tx, final, workspace, mem>>
    /\ sourceUnchanged /\ scratchUnchanged /\ worldUnchanged

Check ==
    /\ At("check")
    /\ Decide(IF source # Old THEN "handle" ELSE IF mem.apply THEN "begin" ELSE "pend", mem)

\* Write the transaction record before touching the source.  A saved delivery
\* first looks whether the patch is in the source already, and rebuilds its
\* workspace if need be.

\* Mutant: a saved delivery writes no transaction record.
Begin_Untracked ==
    /\ At("begin")
    /\ \/ /\ mem.path = "saved" /\ CanReverse
          /\ mem' = [mem EXCEPT !.result.applied = TRUE]
          /\ Goto("pend")
          /\ UNCHANGED <<tx, workspace>>
       \/ /\ mem.path = "saved" /\ ~CanReverse /\ workspace = "absent" /\ source # Old
          /\ Goto("handle")
          /\ UNCHANGED <<tx, workspace, mem>>
       \/ /\ mem.path = "main" \/ (~CanReverse /\ (workspace = "there" \/ source = Old))
          /\ tx' = IF mem.path = "main" THEN "applying" ELSE tx
          /\ workspace' = "there"
          /\ Goto("verify")
          /\ UNCHANGED mem
    /\ UNCHANGED <<phase, final, conformance>>
    /\ sourceUnchanged /\ scratchUnchanged /\ worldUnchanged
Begin ==
    /\ At("begin")
    /\ \/ /\ mem.path = "saved" /\ CanReverse
          /\ mem' = [mem EXCEPT !.result.applied = TRUE]
          /\ Goto("pend")
          /\ UNCHANGED <<tx, workspace>>
       \/ /\ mem.path = "saved" /\ ~CanReverse /\ workspace = "absent" /\ source # Old
          /\ Goto("handle")
          /\ UNCHANGED <<tx, workspace, mem>>
       \/ /\ mem.path = "main" \/ (~CanReverse /\ (workspace = "there" \/ source = Old))
          /\ tx' = "applying"
          /\ workspace' = "there"
          /\ Goto("verify")
          /\ UNCHANGED mem
    /\ UNCHANGED <<phase, final, conformance>>
    /\ sourceUnchanged /\ scratchUnchanged /\ worldUnchanged

\* apply_patch_to_source: assert_source_unchanged and git apply --check ...
Verify ==
    /\ At("verify")
    /\ Decide(IF source = Old THEN "capture" ELSE "handle", mem)

\* ... _capture_source_states ...
Capture ==
    /\ At("capture")
    /\ captured' = source
    /\ Goto("git")
    /\ UNCHANGED <<mem, todo>>
    /\ sourceUnchanged /\ diskUnchanged /\ worldUnchanged

\* ... git apply ...
GitApply ==
    /\ At("git")
    /\ \/ CanApply /\ source' = Forward(Patched) /\ Goto("compare") /\ UNCHANGED faults
       \/ ~CanApply /\ Goto("handle") /\ UNCHANGED <<source, faults>>
       \/ /\ CanApply
          /\ Fault("git")
          /\ \E S \in (SUBSET Patched) \ {Patched} : source' = Forward(S)
          /\ Goto("handle")
    /\ UNCHANGED <<mem, headMoved, edits, certified>>
    /\ diskUnchanged /\ scratchUnchanged

\* ... compare the tree with the reviewed workspace ...
Compare ==
    /\ At("compare")
    /\ IF source = Expected
       THEN Decide("applied", IF mem.path = "main"
                              THEN [mem EXCEPT !.delivered = TRUE, !.result.applied = TRUE]
                              ELSE mem)
       ELSE Decide("undo", mem)

\* ... and on a mismatch reverse the whole patch.  When its check refuses, or
\* git breaks off after the check, restore path by path.
Undo ==
    /\ At("undo")
    /\ \/ /\ CanReverse
          /\ source' = Backward(Patched)
          /\ Goto("handle")
          /\ UNCHANGED <<todo, faults>>
       \/ /\ \/ ~CanReverse /\ UNCHANGED <<source, faults>>
             \/ /\ CanReverse
                /\ Fault("git")
                /\ \E S \in (SUBSET Patched) \ {Patched} : source' = Backward(S)
          /\ Goto("restore")
          /\ todo' = {f \in Files : captured[f] # Expected[f]}
    /\ UNCHANGED <<mem, captured, headMoved, edits, certified>>
    /\ diskUnchanged

\* Mutant: a path is restored without looking at what it holds now.
Restorable_Any(f) == TRUE
Restorable(f) == source[f] = Expected[f]

Restore ==
    /\ At("restore")
    /\ IF todo = {}
       THEN Goto("handle") /\ UNCHANGED <<source, todo>>
       ELSE \E f \in todo :
               /\ source' = IF Restorable(f) THEN [source EXCEPT ![f] = captured[f]] ELSE source
               /\ todo' = todo \ {f}
               /\ UNCHANGED pc
    /\ UNCHANGED <<mem, captured>>
    /\ diskUnchanged /\ worldUnchanged

Applied ==
    /\ At("applied")
    /\ tx' = "applied"
    /\ mem' = [mem EXCEPT !.result.applied = TRUE]
    /\ Goto("pend")
    /\ UNCHANGED <<phase, final, conformance, workspace>>
    /\ sourceUnchanged /\ scratchUnchanged /\ worldUnchanged

\* final-result.json before and after the transition to COMPLETE.
Pend ==
    /\ At("pend")
    /\ final' = [mem.result EXCEPT !.status = IF mem.path = "saved" THEN "complete" ELSE "pending"]
    /\ mem' = [mem EXCEPT !.result = final']
    /\ Goto(IF mem.path = "saved" THEN "prove" ELSE "phase")
    /\ UNCHANGED <<phase, tx, conformance, workspace>>
    /\ sourceUnchanged /\ scratchUnchanged /\ worldUnchanged

EnterComplete ==
    /\ At("phase")
    /\ phase' = "complete"
    /\ Goto("final")
    /\ UNCHANGED <<tx, final, conformance, workspace, mem>>
    /\ sourceUnchanged /\ scratchUnchanged /\ worldUnchanged

FinalResult ==
    /\ At("final")
    /\ final' = [mem.result EXCEPT !.status = "complete"]
    /\ mem' = [mem EXCEPT !.result = final']
    /\ Goto("prove")
    /\ UNCHANGED <<phase, tx, conformance, workspace>>
    /\ sourceUnchanged /\ scratchUnchanged /\ worldUnchanged
-----------------------------------------------------------------------------
\* The handler of run: roll an applied patch back, record BLOCKED.

\* Mutant: the transaction is forgotten although the patch could not be reversed.
Handle_Forget ==
    /\ At("handle")
    /\ IF mem.delivered /\ phase # "complete"
       THEN /\ Rollback("clear", [mem EXCEPT !.result.applied = FALSE], "clear")
            /\ diskUnchanged /\ scratchUnchanged
            /\ UNCHANGED <<headMoved, edits, certified>>
       ELSE Decide("block", mem)
Handle ==
    /\ At("handle")
    /\ IF mem.delivered /\ phase # "complete"
       THEN /\ Rollback("clear", [mem EXCEPT !.result.applied = FALSE], "block")
            /\ diskUnchanged /\ scratchUnchanged
            /\ UNCHANGED <<headMoved, edits, certified>>
       ELSE Decide("block", mem)

Clear == ForgetTransaction("clear", "block")

Block ==
    /\ At("block")
    /\ phase' = IF phase = "complete" THEN phase ELSE "blocked"
    /\ Goto("failure")
    /\ UNCHANGED <<tx, final, conformance, workspace, mem>>
    /\ sourceUnchanged /\ scratchUnchanged /\ worldUnchanged

Failure ==
    /\ At("failure")
    /\ mem' = [mem EXCEPT !.result = Blocked(@)]
    /\ final' = IF phase = "complete" THEN final ELSE mem'.result
    /\ Goto("close")
    /\ UNCHANGED <<phase, tx, conformance, workspace>>
    /\ sourceUnchanged /\ scratchUnchanged /\ worldUnchanged
-----------------------------------------------------------------------------
\* run_with_bound_proof.

\* An existing proof is checked again, unless this call applied the patch.
Rebind == mem.pre.status = "none" \/ (~mem.pre.applied /\ mem.result.applied)
\* Mutant: a result without a proof passes.
ProofStands_Missing == mem.result.proof \in {None, source} /\ ~headMoved
ProofStands == mem.result.proof = source /\ ~headMoved

\* The result is blocked also when the tree cannot be digested or the patch
\* file's digest is another.  A new proof needs the workspace to say which patch
\* was reviewed; reading it there raises when it is gone.
Prove ==
    /\ At("prove")
    /\ \/ mem.result.status # "complete" /\ Decide("close", mem)
       \/ /\ mem.result.status = "complete"
          /\ Rebind /\ ~headMoved => workspace = "there"
          /\ Decide("persist", [mem EXCEPT !.result = Blocked(@)])
       \/ /\ mem.result.status = "complete" /\ ~Rebind
          /\ ProofStands
          /\ Decide("persist", mem)
       \/ /\ mem.result.status = "complete" /\ Rebind
          /\ ~headMoved
          /\ IF workspace = "there"
             THEN Decide("persist", [mem EXCEPT !.result.proof = source])
             ELSE Decide("close", [mem EXCEPT !.result = Blocked(@)])

Persist ==
    /\ At("persist")
    /\ final' = mem.result
    /\ Goto(IF mem.result.status = "complete" THEN "certify" ELSE "unbind")
    /\ UNCHANGED <<phase, tx, conformance, workspace, mem>>
    /\ sourceUnchanged /\ scratchUnchanged /\ worldUnchanged

Unbind ==
    /\ At("unbind")
    /\ IF tx # "none" /\ mem.result.applied
       THEN /\ Rollback("unlink", [mem EXCEPT !.result.applied = FALSE], "invalidate")
            /\ diskUnchanged /\ scratchUnchanged
            /\ UNCHANGED <<headMoved, edits, certified>>
       ELSE Decide("invalidate", mem)

Unlink == ForgetTransaction("unlink", "invalidate")

\* Mutant: the phase is overwritten with none of the run's phases.
Invalidate_BadPhase ==
    /\ At("invalidate")
    /\ phase' = "invalid"
    /\ Goto("rewrite")
    /\ UNCHANGED <<tx, final, conformance, workspace, mem>>
    /\ sourceUnchanged /\ scratchUnchanged /\ worldUnchanged
Invalidate ==
    /\ At("invalidate")
    /\ phase' = IF phase = "complete" THEN "blocked" ELSE phase
    /\ Goto("rewrite")
    /\ UNCHANGED <<tx, final, conformance, workspace, mem>>
    /\ sourceUnchanged /\ scratchUnchanged /\ worldUnchanged

Rewrite ==
    /\ At("rewrite")
    /\ final' = mem.result
    /\ Goto("close")
    /\ UNCHANGED <<phase, tx, conformance, workspace, mem>>
    /\ sourceUnchanged /\ scratchUnchanged /\ worldUnchanged

Certify ==
    /\ At("certify")
    /\ tx' = "none"
    /\ certified' = (certified \/ mem.result.applied)
    /\ Goto("close")
    /\ UNCHANGED <<phase, final, conformance, workspace, mem, headMoved, faults, edits>>
    /\ sourceUnchanged /\ scratchUnchanged

\* close_terminal: remove the workspace, enforce retention.  A COMPLETE run
\* whose closeout fails is recorded as BLOCKED.
Close ==
    /\ At("close")
    /\ \/ /\ workspace' = IF workspace = "absent" THEN "absent" ELSE "torn"
          /\ Goto(IF workspace = "absent" THEN "returned" ELSE "removing")
          /\ UNCHANGED <<final, mem, faults>>
       \/ /\ Fault("cleanup")
          /\ Goto("returned")
          /\ IF mem.result.status = "complete"
             THEN mem' = [mem EXCEPT !.result = Blocked(@)] /\ final' = mem'.result
             ELSE UNCHANGED <<mem, final>>
          /\ UNCHANGED workspace
    /\ UNCHANGED <<phase, tx, conformance, headMoved, edits, certified>>
    /\ sourceUnchanged /\ scratchUnchanged

Removed ==
    /\ At("removing")
    /\ workspace' = "absent"
    /\ Goto("returned")
    /\ UNCHANGED <<phase, tx, final, conformance, mem>>
    /\ sourceUnchanged /\ scratchUnchanged /\ worldUnchanged
-----------------------------------------------------------------------------
\* Faults and the operator.

Cut(kind, next, m) ==
    /\ Fault(kind)
    /\ Goto(next)
    /\ mem' = m
    /\ UNCHANGED <<headMoved, edits, certified>>
    /\ sourceUnchanged /\ diskUnchanged /\ scratchUnchanged

Kill ==
    /\ pc \notin {"off", "returned"}
    /\ pc = "removing" => "torn" \in Faults
    /\ Cut("kill", "off", mem)

\* KeyboardInterrupt and SystemExit pass run's handler; the closeout still runs,
\* and runs again when it was cut itself on the way to a COMPLETE return.
Interrupt ==
    /\ pc \in TryPCs \cup ProofPCs \/ (pc \in ClosePCs /\ mem.result.status = "complete")
    /\ Cut("interrupt", "close", [mem EXCEPT !.result.status = "canceled"])

\* A write raises OSError.  RunState is COMPLETE in memory before it is saved,
\* so a failed save of it is not handled by a rollback.
DiskFails ==
    \/ pc \in TryPCs \ {"phase"} /\ Cut("disk", "handle", mem)
    \/ pc = "recovered" /\ Cut("disk", "off", mem)
    \/ pc = "clear" /\ Cut("disk", "block", mem)
    \/ pc = "block" /\ Cut("disk", "failure", mem)
    \/ pc = "unlink" /\ Cut("disk", "invalidate", mem)
    \/ /\ pc \in {"phase", "failure", "prove", "persist", "invalidate", "rewrite", "certify"}
       /\ Cut("disk", "close", [mem EXCEPT !.result = Blocked(@)])

\* The operator edits a file (keeping or breaking the hunks), undoes an edit, or
\* restores the file.
EditTo == [old |-> {"oldEdited", "other"}, oldEdited |-> {"old", "other"},
           new |-> {"newEdited", "other", "old"}, newEdited |-> {"new", "other", "old"},
           other |-> {"old"}]

Operator ==
    /\ edits < MaxEdits
    /\ edits' = edits + 1
    /\ \/ /\ \E f \in Files : \E t \in EditTo[source[f]] : source' = [source EXCEPT ![f] = t]
          /\ UNCHANGED headMoved
       \/ ~headMoved /\ headMoved' = TRUE /\ sourceUnchanged
    /\ UNCHANGED <<pc, mem, faults, certified>>
    /\ diskUnchanged /\ scratchUnchanged

Controller ==
    \/ Recover \/ Recovered \/ Enter \/ Work \/ Conform \/ Check \/ Begin \/ Verify
    \/ Capture \/ GitApply \/ Compare \/ Undo \/ Restore \/ Applied \/ Pend
    \/ EnterComplete \/ FinalResult \/ Handle \/ Clear \/ Block \/ Failure
    \/ Prove \/ Persist \/ Unbind \/ Unlink \/ Invalidate \/ Rewrite \/ Certify
    \/ Close \/ Removed

Next ==
    \/ \E a \in BOOLEAN : Start(a)
    \/ Controller
    \/ Kill \/ Interrupt \/ DiskFails
    \/ Operator

Spec == Init /\ [][Next]_vars

\* The operating system schedules a live controller; the operator continues a
\* run that stopped.
FairSpec == Spec /\ WF_vars(Controller) /\ WF_vars(\E a \in BOOLEAN : Start(a))
-----------------------------------------------------------------------------
\* Until a run has been certified COMPLETE, the patch is in the source only
\* under a transaction record: whatever step the controller stopped at, the
\* next one knows there is something to take back (Begin, the handler, the
\* proof's rollback and recovery all order their two writes so).
PatchAccounted == PatchedNow # {} /\ ~certified => tx # "none"

\* No step of the controller loses an edit of the operator, also when the edit
\* falls between the checks and git apply (_restore_unchanged_source_paths).
OperatorEditsKept ==
    [][<<pc, todo>>' # <<pc, todo>> =>
          \A f \in Files : source[f] \in Edited => source'[f] \in Edited]_vars

\* A run that reports COMPLETE is recorded so: same result on disk, with a proof
\* bound, phase COMPLETE, and no transaction left to roll it back later.
CompleteIsProven ==
    pc = "returned" /\ mem.result.status = "complete" =>
        /\ final = mem.result
        /\ final.proof # None
        /\ phase = "complete"
        /\ tx = "none"

\* A transaction record is eventually resolved: the delivery is certified, or
\* rolled back by a continuation; unless recovery has to refuse, because git
\* broke off and left part of the patch, or the workspace is half removed.
RecoveryRefused == workspace = "torn" \/ (~CanReverse /\ source # Old)
TransactionResolved == tx # "none" ~> (tx = "none" \/ RecoveryRefused)

\* Delivery is atomic through every fault: counting a source with an open
\* transaction as the unpatched one it will be rolled back to, the whole patch
\* arrives in the step that certifies the run, and nothing of it in any other.
Atomic == INSTANCE AtomicDelivery WITH
    tree <- IF tx = "none" THEN PatchedNow ELSE {},
    delivered <- certified
ImplementsAtomic == Atomic!Spec

\* docs/00_START_HERE.md: a continuation of an interrupted or blocked run
\* continues from the recorded project truth, so it can reach delivery again.
ContinuedRunCanDeliver == At("conform") => ~conformance

\* docs/RECOVERY.md: a failed run does not apply its patch.  So a run that is
\* reported as blocked has none of it in the source.
FailedRunUnapplied ==
    At("returned") /\ mem.result.status = "blocked" => PatchedNow = {}
=============================================================================
