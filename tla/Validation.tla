----------------------------- MODULE Validation -----------------------------
(***************************************************************************)
(* How the controller runs somebody else's checks.  GateRunner copies the  *)
(* workspace into a disposable checkout for each gate and refuses a gate   *)
(* that changes it; the disposable services (a Python environment and a    *)
(* PostgreSQL container) are provisioned around a body, and their removal  *)
(* is tried on every way out of it.                                        *)
(***************************************************************************)
EXTENDS Naturals, Sequences

CONSTANTS
    GateList,    \* the selected gates: a sequence of BOOLEAN, TRUE: required
    MaxWrites    \* bound: writes to the workspaceTree while the gates run

ASSUME ValidationAssumption == GateList \in Seq(BOOLEAN) /\ MaxWrites \in Nat

VARIABLES
    workspaceTree, \* versions of the committed, the tracked and the untracked
                 \*   files (what Git ignores is no part of the tree)
    gate,        \* the gate run: where it is, its copy, the verdicts so far
    service,     \* the provisioning: where it is and which error is under way
    container,   \* the PostgreSQL container, outside the controller
    venv         \* the Python environment's directory

validationVars == <<workspaceTree, gate, service, container, venv>>

Version == 0 .. MaxWrites + 1
Tree == [head : Version, tracked : Version, untracked : Version]
NoTree == [head |-> 0, tracked |-> 0, untracked |-> 0]
FirstTree == [head |-> 1, tracked |-> 1, untracked |-> 1]
GatePCs == {"select", "clone", "patch", "untracked", "run", "judge", "close",
            "returned", "raised"}
Outcomes == {"none", "passed", "failed", "changed", "error"}
Verdict == [copy : Tree, outcome : Outcomes]
ServicePCs == {"none", "image", "start", "port", "body", "cleanup", "leave", "returned", "raised"}
Containers == {"absent", "running"}

\* What a repository declares.  Python: pytest is configured and the bounded
\* list of requirements is safe.  Compose: one file at the root with one
\* official PostgreSQL image.  Reset guards: the tests name the guard that
\* the repository's own contract file names, and no other.
PythonContracts == {"none", "safe", "unsafe"}
ComposeContracts == {"none", "one"}
ResetContracts == {"none", "safe", "unsafe"}
Contract == [python : PythonContracts, compose : ComposeContracts, reset : ResetContracts]

ValidationTypeOK ==
    /\ workspaceTree \in Tree
    /\ gate \in [pc : GatePCs, next : Nat, copy : Tree, outcome : Outcomes,
                 failures : SUBSET Nat, seen : Seq(Verdict)]
    /\ service \in [pc : ServicePCs, error : BOOLEAN, owned : BOOLEAN, refused : BOOLEAN,
                    contract : Contract]
    /\ container \in Containers /\ venv \in BOOLEAN

ValidationInit ==
    /\ workspaceTree = FirstTree
    /\ gate = [pc |-> "select", next |-> 1, copy |-> NoTree, outcome |-> "none",
               failures |-> {}, seen |-> <<>>]
    /\ \E c \in Contract :
          service = [pc |-> "none", error |-> FALSE, owned |-> FALSE, refused |-> FALSE,
                     contract |-> c]
    /\ container = "absent" /\ venv = FALSE

GateAt(pc) == gate.pc = pc
ServiceAt(pc) == service.pc = pc
GateOnly == UNCHANGED <<service, container, venv>>
ServiceOnly == UNCHANGED <<workspaceTree, gate>>

-----------------------------------------------------------------------------
(* The gates. *)

\* A process that a lane or a gate of the repository left running writes into
\* the workspace.
OutsideWrite ==
    /\ \E part \in {"head", "tracked", "untracked"} :
          /\ workspaceTree[part] <= MaxWrites
          /\ workspaceTree' = [workspaceTree EXCEPT ![part] = @ + 1]
    /\ gate.next <= Len(GateList) /\ ServiceAt("none")
    /\ UNCHANGED gate /\ GateOnly

\* After the last gate: the failed required ones are raised together.  No
\* gate at all is an error.
SelectGate ==
    /\ GateAt("select") /\ ServiceAt("none")
    /\ gate' = [gate EXCEPT !.pc = IF gate.next <= Len(GateList) THEN "clone"
                                   ELSE IF GateList = <<>> \/ gate.failures # {} THEN "raised"
                                   ELSE "returned",
                            !.copy = NoTree, !.outcome = "none"]
    /\ UNCHANGED workspaceTree /\ GateOnly

\* A clone of HEAD under a name that nothing has yet.
CloneCheckout ==
    /\ GateAt("clone")
    /\ gate' \in {[gate EXCEPT !.pc = "patch", !.copy.head = workspaceTree.head],
                  [gate EXCEPT !.pc = "raised"]}
    /\ UNCHANGED workspaceTree /\ GateOnly

GateStep(g) == gate' \in {g, [gate EXCEPT !.pc = "close", !.outcome = "error"]}

\* The difference to HEAD is taken after the clone; it only applies to the
\* commit that was cloned.
CopyTracked ==
    /\ GateAt("patch")
    /\ IF workspaceTree.head = gate.copy.head
       THEN GateStep([gate EXCEPT !.pc = "untracked", !.copy.tracked = workspaceTree.tracked])
       ELSE \/ gate' = [gate EXCEPT !.pc = "close", !.outcome = "error"]
            \/ gate' = [gate EXCEPT !.pc = "untracked", !.copy.tracked = workspaceTree.tracked]
    /\ UNCHANGED workspaceTree /\ GateOnly

\* Mutant: files Git does not track are not copied.
CopyUntracked_None ==
    /\ GateAt("untracked")
    /\ GateStep([gate EXCEPT !.pc = "run"])
    /\ UNCHANGED workspaceTree /\ GateOnly
CopyUntracked ==
    /\ GateAt("untracked")
    /\ GateStep([gate EXCEPT !.pc = "run", !.copy.untracked = workspaceTree.untracked])
    /\ UNCHANGED workspaceTree /\ GateOnly

\* The command passes, fails or is stopped at its timeout; it may have changed
\* its checkout.
RunGate ==
    /\ GateAt("run")
    /\ \E o \in {"passed", "failed", "changed"} :
          GateStep([gate EXCEPT !.pc = "judge", !.outcome = o])
    /\ UNCHANGED workspaceTree /\ GateOnly

\* Whatever the gate answered, a changed checkout is a failure of the run.
JudgeGate ==
    /\ GateAt("judge")
    /\ gate' = [gate EXCEPT !.pc = "close",
                            !.outcome = IF @ = "changed" THEN "error" ELSE @]
    /\ UNCHANGED workspaceTree /\ GateOnly

\* Mutant: only the failures of diagnostic gates are counted.
FailsRun_Diagnostic == gate.outcome = "failed" /\ ~GateList[gate.next]
FailsRun == gate.outcome = "failed" /\ GateList[gate.next]

\* The patch file and the checkout are removed on every way out: the first
\* removal may raise, and what the second leaves behind is ignored, since the
\* next checkout takes another name.
CloseGate ==
    /\ GateAt("close")
    /\ \/ gate' = [gate EXCEPT !.pc = "raised"]
       \/ /\ gate.outcome # "error"
          /\ gate' = [gate EXCEPT !.pc = "select", !.next = @ + 1,
                           !.seen = Append(@, [copy |-> gate.copy, outcome |-> gate.outcome]),
                           !.failures = IF FailsRun THEN @ \cup {gate.next} ELSE @]
    /\ UNCHANGED workspaceTree /\ GateOnly

-----------------------------------------------------------------------------
(* The disposable services. *)

ServiceGoes(pc) == service' = [service EXCEPT !.pc = pc]
ServiceFails(pc) == service' = [service EXCEPT !.pc = pc, !.error = TRUE]

\* A repository without a Python contract has no environment to make; an
\* unsafe one is refused; a step that fails takes the directory with it, if
\* the directory can be removed.
ProvisionPython ==
    /\ ServiceAt("none") /\ GateAt("select") /\ gate.next = 1 /\ workspaceTree = FirstTree
    /\ CASE service.contract.python = "none" -> venv' = FALSE /\ ServiceGoes("image")
         [] service.contract.python = "unsafe" -> venv' = FALSE /\ ServiceFails("raised")
         [] OTHER -> \/ venv' = TRUE /\ ServiceGoes("image")
                     \/ venv' \in BOOLEAN /\ ServiceFails("raised")
    /\ ServiceOnly /\ UNCHANGED container

\* Without a PostgreSQL contract the body runs with what there is; an image
\* that Docker does not show to be the official one is refused.
VerifyImage ==
    /\ ServiceAt("image")
    /\ CASE service.contract.compose = "none" \/ service.contract.reset = "none" -> ServiceGoes("body")
         [] service.contract.reset = "unsafe" -> ServiceFails("leave")
         [] OTHER -> ServiceGoes("start") \/ ServiceFails("leave")
    /\ ServiceOnly /\ UNCHANGED <<container, venv>>

\* `docker run` stands before the try: when it fails or does not return in
\* time, nobody removes what it may have started.
StartContainer ==
    /\ ServiceAt("start")
    /\ \/ /\ container' = "running"
          /\ service' = [service EXCEPT !.pc = "port", !.owned = TRUE]
       \/ container' \in Containers /\ ServiceFails("leave")
    /\ ServiceOnly /\ UNCHANGED venv

\* The container's id, its port, and readiness within 90 seconds.
AwaitDatabase ==
    /\ ServiceAt("port")
    /\ ServiceGoes("body") \/ ServiceFails("cleanup")
    /\ ServiceOnly /\ UNCHANGED <<container, venv>>

\* Mutant: a body that fails skips the cleanup of the service.
LeaveBody_Raise == IF service.error THEN "leave" ELSE "cleanup"
LeaveBody == IF service.owned THEN "cleanup" ELSE "leave"

\* The body returns, raises or is interrupted; the container may be gone.
RunBody ==
    /\ ServiceAt("body")
    /\ \E e \in BOOLEAN : service' = [service EXCEPT !.pc = "cleanup", !.error = e]
    /\ container' \in {container, "absent"}
    /\ ServiceOnly /\ UNCHANGED venv

\* A failed removal is the error of the call, or a note on the one there is.
RemoveContainer ==
    /\ ServiceAt("cleanup")
    /\ \/ LeaveBody = "cleanup" /\ container' = "absent" /\ ServiceGoes("leave")
       \/ /\ LeaveBody = "cleanup"
          /\ service' = [service EXCEPT !.pc = "leave", !.error = TRUE, !.refused = TRUE]
          /\ UNCHANGED container
       \/ LeaveBody = "leave" /\ ServiceGoes("leave") /\ UNCHANGED container
    /\ ServiceOnly /\ UNCHANGED venv

\* A directory that cannot be removed is an error of the call as well.
RemoveEnvironment ==
    /\ ServiceAt("leave")
    /\ \/ venv' = FALSE /\ ServiceGoes(IF service.error THEN "raised" ELSE "returned")
       \/ venv /\ UNCHANGED venv /\ ServiceFails("raised")
    /\ ServiceOnly /\ UNCHANGED container

ValidationNext ==
    \/ OutsideWrite \/ SelectGate \/ CloneCheckout \/ CopyTracked \/ CopyUntracked
    \/ RunGate \/ JudgeGate \/ CloseGate
    \/ ProvisionPython \/ VerifyImage \/ StartContainer \/ AwaitDatabase
    \/ RunBody \/ RemoveContainer \/ RemoveEnvironment

ValidationSpec == ValidationInit /\ [][ValidationNext]_validationVars

-----------------------------------------------------------------------------
\* A run of gates returns only when every gate has its verdict, each required
\* one passed and none changed its checkout, all on the tree the workspace
\* still has unless someone wrote there meanwhile.  The services return only
\* when nothing of them is left; an error leaves no container that was known
\* to run, unless Docker refused to remove it.
ValidationSettled ==
    /\ GateAt("returned") =>
          /\ Len(gate.seen) = Len(GateList)
          /\ \A i \in DOMAIN gate.seen :
                /\ GateList[i] => gate.seen[i].outcome = "passed"
                /\ gate.seen[i].outcome # "changed"
                /\ workspaceTree = FirstTree => gate.seen[i].copy = workspaceTree
    /\ ServiceAt("returned") => container = "absent" /\ ~venv
    /\ ServiceAt("raised") /\ service.owned /\ ~service.refused => container = "absent"
=============================================================================
