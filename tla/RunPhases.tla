----------------------------- MODULE RunPhases ------------------------------
(***************************************************************************)
(* The phases of one run: the control flow of Orchestrator.run from the    *)
(* first phase to the delivery, over the phase table of state.py.          *)
(*                                                                         *)
(* A worker's answer is any answer the loop tells apart.  Plans and trees  *)
(* are numbered versions.  Workspace recovery is TaskRun's subject, the    *)
(* delivery transaction Delivery's, the product decision Decisions'.       *)
(***************************************************************************)
EXTENDS Naturals

CONSTANTS
    RunTasks,        \* the tasks of every plan
    MaxPlans,        \* bound: plans compiled in one behaviour
    MaxTrees,        \* bound: edits of the workspace
    MaxOpenings,     \* bound: controllers that open the run
    ReviewLimit,     \* max_plan_review_cycles, 0 for none
    RepairLimit,     \* max_repair_cycles, 0 for none
    KillsAllowed     \* whether a controller may be killed at any step

ASSUME RunPhasesAssumption ==
    /\ {MaxPlans, MaxTrees, ReviewLimit, RepairLimit} \subseteq Nat
    /\ MaxOpenings \in Nat \ {0}
    /\ KillsAllowed \in BOOLEAN

VARIABLES
    step,          \* where the controller stands, "off" when none runs
    phase,         \* state.json: the phase
    planCycles,    \* state.json: plan_review_cycles
    repairCycles,  \* state.json: repair_cycles
    planFile,      \* planning/task-plan.json: a plan, or 0
    planReview,    \* planning/plan-review.json: the plan it approves, or 0
    taskDone,      \* tasks whose evidence is recorded
    conformance,   \* verification/intent-conformance.json is written and locked
    tree,          \* the version of the workspace's tree
    delivered,     \* the version in the delivered patch, or 0
    ofRun,         \* the controller's own: plan, gated, reviewed, demonstrated, laneEdited
    history        \* what happened: plans compiled, plans approved, repairs, openings

stateFile == <<phase, planCycles, repairCycles>>
artifacts == <<planFile, planReview, taskDone, conformance>>
runVars == <<step, stateFile, artifacts, tree, delivered, ofRun, history>>

-----------------------------------------------------------------------------
Phases == {"CREATED", "INTAKE", "DISCOVERY", "DECISIONS", "REUSE_RESEARCH", "SYSTEM_MAPPING",
           "PLAN_COMPILE", "PLAN_REVIEW", "CONTRACT_LOCKED", "IMPLEMENTING", "VERIFYING",
           "REVIEWING", "REPAIRING", "DEMONSTRATING", "DELIVERING",
           "WAITING_FOR_PRODUCT_DECISION", "BLOCKED", "COMPLETE"}

\* _ALLOWED: every live phase may also be blocked.
Allowed ==
    [p \in Phases |->
        CASE p = "CREATED"         -> {"INTAKE", "BLOCKED"}
          [] p = "INTAKE"          -> {"DISCOVERY", "BLOCKED"}
          [] p = "DISCOVERY"       -> {"DECISIONS", "BLOCKED"}
          [] p = "DECISIONS"       -> {"REUSE_RESEARCH", "WAITING_FOR_PRODUCT_DECISION", "BLOCKED"}
          [] p = "WAITING_FOR_PRODUCT_DECISION" -> {"DECISIONS", "BLOCKED"}
          [] p = "REUSE_RESEARCH"  -> {"SYSTEM_MAPPING", "BLOCKED"}
          [] p = "SYSTEM_MAPPING"  -> {"PLAN_COMPILE", "BLOCKED"}
          [] p = "PLAN_COMPILE"    -> {"PLAN_REVIEW", "BLOCKED"}
          [] p = "PLAN_REVIEW"     -> {"PLAN_COMPILE", "CONTRACT_LOCKED", "BLOCKED"}
          [] p = "CONTRACT_LOCKED" -> {"IMPLEMENTING", "BLOCKED"}
          [] p = "IMPLEMENTING"    -> {"VERIFYING", "BLOCKED"}
          [] p = "VERIFYING"       -> {"REVIEWING", "REPAIRING", "BLOCKED"}
          [] p = "REVIEWING"       -> {"REPAIRING", "DEMONSTRATING", "BLOCKED"}
          [] p = "REPAIRING"       -> {"VERIFYING", "BLOCKED"}
          [] p = "DEMONSTRATING"   -> {"REPAIRING", "DELIVERING", "BLOCKED"}
          [] p = "DELIVERING"      -> {"COMPLETE", "BLOCKED"}
          [] p = "BLOCKED"         -> {"INTAKE"}
          [] p = "COMPLETE"        -> {}]

\* The phases before the plan, each with the artifacts it writes or reuses.
Prelude ==
    [s \in {"intake", "discovery", "decisions", "reuse", "mapping", "compile"} |->
        CASE s = "intake"    -> <<"INTAKE", "discovery">>
          [] s = "discovery" -> <<"DISCOVERY", "decisions">>
          [] s = "decisions" -> <<"DECISIONS", "reuse">>
          [] s = "reuse"     -> <<"REUSE_RESEARCH", "mapping">>
          [] s = "mapping"   -> <<"SYSTEM_MAPPING", "compile">>
          [] s = "compile"   -> <<"PLAN_COMPILE", "plan">>]

Steps == (DOMAIN Prelude) \cup
    {"off", "refused", "plan", "preflight", "plan_review", "plan_repair", "check_plan",
     "write_plan", "write_review", "lock_phase", "lock", "implement", "verify", "lanes",
     "lanes_done", "review", "findings", "repair", "demonstrate", "accept", "deliver"}

Plans == 0 .. MaxPlans
Trees == 0 .. MaxTrees
Fresh == [plan |-> 0, gated |-> 0, reviewed |-> 0, demonstrated |-> 0, laneEdited |-> FALSE]

RunTypeOK ==
    /\ step \in Steps
    /\ phase \in Phases
    /\ planCycles \in Nat /\ repairCycles \in Nat
    /\ planFile \in Plans /\ planReview \in Plans
    /\ taskDone \subseteq RunTasks
    /\ conformance \in BOOLEAN
    /\ tree \in Trees /\ delivered \in Trees
    /\ ofRun \in [plan : Plans, gated : Trees, reviewed : Trees, demonstrated : Trees,
                  laneEdited : BOOLEAN]
    /\ history.compiled \in Plans /\ history.approved \subseteq Plans
    /\ history.repairs \in Nat /\ history.openings \in 0 .. MaxOpenings

RunInit ==
    /\ step = "intake"
    /\ phase = "CREATED"
    /\ planCycles = 0 /\ repairCycles = 0
    /\ planFile = 0 /\ planReview = 0
    /\ taskDone = {}
    /\ conformance = FALSE
    /\ tree = 0 /\ delivered = 0
    /\ ofRun = Fresh
    /\ history = [compiled |-> 0, approved |-> {}, repairs |-> 0, openings |-> 1]

-----------------------------------------------------------------------------
\* _transition: entering the phase the run is in changes nothing; a phase the
\* table does not allow raises.  A step the table refuses is recorded as such.
Transition(next, then) ==
    IF next \in Allowed[phase] \cup {phase}
    THEN phase' = next /\ step' = then
    ELSE phase' = "BLOCKED" /\ step' = "refused"

\* run's handler: any error blocks the run, and the controller ends.
Blocked == phase' = "BLOCKED" /\ step' = "off"

Stay == UNCHANGED <<planCycles, repairCycles, artifacts, tree, delivered, ofRun, history>>

\* Orchestrator.__init__ of a continuation.

\* Mutant: the counters start again.
OpenRun_Resets ==
    /\ step = "off"
    /\ phase # "COMPLETE"
    /\ history.openings < MaxOpenings
    /\ phase' = "CREATED"
    /\ step' = "intake"
    /\ ofRun' = Fresh
    /\ planCycles' = 0 /\ repairCycles' = 0
    /\ history' = [history EXCEPT !.openings = @ + 1]
    /\ UNCHANGED <<artifacts, tree, delivered>>
OpenRun ==
    /\ step = "off"
    /\ phase # "COMPLETE"
    /\ history.openings < MaxOpenings
    /\ phase' = "CREATED"
    /\ step' = "intake"
    /\ ofRun' = Fresh
    /\ history' = [history EXCEPT !.openings = @ + 1]
    /\ UNCHANGED <<planCycles, repairCycles, artifacts, tree, delivered>>

AdvancePhase ==
    /\ step \in DOMAIN Prelude
    /\ \/ Transition(Prelude[step][1], Prelude[step][2])
       \/ Blocked
    /\ Stay

\* The product model leaves a decision to the operator.
StopForDecision ==
    /\ step = "reuse"
    /\ Transition("WAITING_FOR_PRODUCT_DECISION", "off")
    /\ Stay

\* Both planning artifacts are there, or the plan is compiled.
CompilePlan ==
    /\ step = "plan"
    /\ \/ /\ planFile # 0 /\ planReview # 0
          /\ ofRun' = [ofRun EXCEPT !.plan = planFile]
          /\ step' = "check_plan"
          /\ UNCHANGED history
       \/ /\ planFile = 0 \/ planReview = 0
          /\ history.compiled < MaxPlans
          /\ ofRun' = [ofRun EXCEPT !.plan = history.compiled + 1]
          /\ history' = [history EXCEPT !.compiled = @ + 1]
          /\ step' = "plan_review"
    /\ UNCHANGED <<stateFile, artifacts, tree, delivered>>

\* One round: the reviewer is asked; findings of the preflight overrule it.
ReviewPlan ==
    /\ step = "plan_review"
    /\ \/ /\ Transition("PLAN_REVIEW", "check_plan")
          /\ history' = [history EXCEPT !.approved = @ \cup {ofRun.plan}]
          /\ UNCHANGED planCycles
       \/ /\ planCycles' = planCycles + 1
          /\ IF ReviewLimit > 0 /\ planCycles' >= ReviewLimit
             THEN Blocked
             ELSE Transition("PLAN_REVIEW", "plan_repair")
          /\ UNCHANGED history
    /\ UNCHANGED <<repairCycles, artifacts, tree, delivered, ofRun>>

RepairPlan ==
    /\ step = "plan_repair"
    /\ \/ /\ history.compiled < MaxPlans
          /\ Transition("PLAN_COMPILE", "plan_review")
          /\ ofRun' = [ofRun EXCEPT !.plan = history.compiled + 1]
          /\ history' = [history EXCEPT !.compiled = @ + 1]
       \/ Blocked /\ UNCHANGED <<ofRun, history>>
    /\ UNCHANGED <<planCycles, repairCycles, artifacts, tree, delivered>>

\* Order of the tasks, gate ids, scope patterns and paths.
CheckPlan ==
    /\ step = "check_plan"
    /\ \/ step' = "write_plan" /\ UNCHANGED phase
       \/ Blocked
    /\ Stay

\* _write_or_reuse_json: what is on file stays, and the run ignores it.
WritePlan ==
    /\ step = "write_plan"
    /\ planFile' = IF planFile = 0 THEN ofRun.plan ELSE planFile
    /\ step' = "write_review"
    /\ UNCHANGED <<stateFile, planReview, taskDone, conformance, tree, delivered, ofRun, history>>

WriteReview ==
    /\ step = "write_review"
    /\ planReview' = IF planReview = 0 THEN ofRun.plan ELSE planReview
    /\ step' = "lock_phase"
    /\ UNCHANGED <<stateFile, planFile, taskDone, conformance, tree, delivered, ofRun, history>>

\* A reused review still has to pass through the phase it would be made in.

\* Mutant: it does not.
ReusedReview_Skipped ==
    /\ step = "lock_phase"
    /\ step' = "lock"
    /\ UNCHANGED phase
    /\ Stay
ReusedReview ==
    /\ step = "lock_phase"
    /\ IF phase = "PLAN_COMPILE"
       THEN Transition("PLAN_REVIEW", "lock")
       ELSE step' = "lock" /\ UNCHANGED phase
    /\ Stay

\* verify_locked may refuse.
LockRunContract ==
    /\ step = "lock"
    /\ \/ Transition("CONTRACT_LOCKED", "implement")
       \/ Blocked
    /\ Stay
-----------------------------------------------------------------------------
\* IMPLEMENTING: the tasks without evidence, in order; TaskRun has the steps.
ImplementTask ==
    /\ step = "implement" /\ phase = "IMPLEMENTING"
    /\ taskDone # RunTasks
    /\ \E task \in RunTasks \ taskDone :
          \/ /\ tree < MaxTrees
             /\ tree' = tree + 1
             /\ \/ taskDone' = taskDone \cup {task} /\ UNCHANGED <<step, phase>>
                \/ UNCHANGED taskDone /\ Blocked
          \/ UNCHANGED <<taskDone, tree>> /\ Blocked
    /\ UNCHANGED <<planCycles, repairCycles, planFile, planReview, conformance, delivered, ofRun,
                   history>>

EnterTasks ==
    /\ step = "implement" /\ phase = "CONTRACT_LOCKED"
    /\ Transition("IMPLEMENTING", "implement")
    /\ Stay

EnterVerifying ==
    /\ step = "implement" /\ phase = "IMPLEMENTING" /\ taskDone = RunTasks
    /\ Transition("VERIFYING", "verify")
    /\ Stay

\* _run_gates in a disposable copy of the tree: they pass, or the run blocks.
Gates(next) ==
    \/ ofRun' = [ofRun EXCEPT !.gated = tree] /\ next
    \/ UNCHANGED ofRun /\ Blocked

VerifyTree ==
    /\ step = "verify"
    /\ Gates(step' \in {"lanes", "review"} /\ UNCHANGED phase)
    /\ UNCHANGED <<planCycles, repairCycles, artifacts, tree, delivered, history>>

\* The command-owned review and repair lanes may edit the tree and commit.
RunLanes ==
    /\ step = "lanes"
    /\ \/ /\ Transition("REPAIRING", "lanes_done")
          /\ \/ tree < MaxTrees /\ tree' = tree + 1 /\ ofRun' = [ofRun EXCEPT !.laneEdited = TRUE]
             \/ UNCHANGED tree /\ ofRun' = [ofRun EXCEPT !.laneEdited = FALSE]
       \/ Blocked /\ UNCHANGED <<tree, ofRun>>
    /\ UNCHANGED <<planCycles, repairCycles, artifacts, delivered, history>>

\* The gates run again if the lanes changed a path.

\* Mutant: they do not.
LanesDone_Trusted ==
    /\ step = "lanes_done"
    /\ Transition("VERIFYING", "review")
    /\ Stay
LanesDone ==
    /\ step = "lanes_done"
    /\ IF ofRun.laneEdited
       THEN Gates(Transition("VERIFYING", "review"))
       ELSE Transition("VERIFYING", "review") /\ UNCHANGED ofRun
    /\ UNCHANGED <<planCycles, repairCycles, artifacts, tree, delivered, history>>

\* _perform_review of a clone: approved, findings that block, or an error.
ReviewTree ==
    /\ step = "review"
    /\ \/ /\ Transition("REVIEWING", "demonstrate")
          /\ ofRun' = [ofRun EXCEPT !.reviewed = tree]
       \/ Transition("REVIEWING", "findings") /\ UNCHANGED ofRun
       \/ Blocked /\ UNCHANGED ofRun
    /\ UNCHANGED <<planCycles, repairCycles, artifacts, tree, delivered, history>>

\* The cycle is counted on disk before the repairer is asked.
CountRepair ==
    /\ step = "findings"
    /\ IF RepairLimit > 0 /\ repairCycles >= RepairLimit
       THEN Blocked /\ UNCHANGED repairCycles
       ELSE repairCycles' = repairCycles + 1 /\ Transition("REPAIRING", "repair")
    /\ UNCHANGED <<planCycles, artifacts, tree, delivered, ofRun, history>>

\* The repairer's edits are checked, committed, and gated again.
RepairTree ==
    /\ step = "repair"
    /\ history' = [history EXCEPT !.repairs = @ + 1]
    /\ \/ /\ tree < MaxTrees
          /\ tree' = tree + 1
          /\ \/ /\ Transition("VERIFYING", "review")
                /\ ofRun' = [ofRun EXCEPT !.gated = tree']
             \/ Blocked /\ UNCHANGED ofRun
       \/ UNCHANGED <<tree, ofRun>> /\ Blocked
    /\ UNCHANGED <<planCycles, repairCycles, artifacts, delivered>>

Demonstrate ==
    /\ step = "demonstrate"
    /\ \/ /\ Transition("DEMONSTRATING", "accept")
          /\ ofRun' = [ofRun EXCEPT !.demonstrated = tree]
       \/ Blocked /\ UNCHANGED ofRun
    /\ UNCHANGED <<planCycles, repairCycles, artifacts, tree, delivered, history>>

\* Acceptance and packet audit may refuse; the conformance record is written
\* locked, so a continuation that comes here again cannot write it.
Accept ==
    /\ step = "accept"
    /\ \/ ~conformance /\ conformance' = TRUE /\ step' = "deliver" /\ UNCHANGED phase
       \/ Blocked /\ UNCHANGED conformance
    /\ UNCHANGED <<planCycles, repairCycles, planFile, planReview, taskDone, tree, delivered, ofRun,
                   history>>

\* DELIVERING and COMPLETE: the patch from the baseline to HEAD.
DeliverTree ==
    /\ step = "deliver"
    /\ \/ phase # "DELIVERING" /\ Transition("DELIVERING", "deliver") /\ UNCHANGED delivered
       \/ /\ phase = "DELIVERING"
          /\ delivered' = tree
          /\ Transition("COMPLETE", "off")
       \/ Blocked /\ UNCHANGED delivered
    /\ UNCHANGED <<planCycles, repairCycles, artifacts, tree, ofRun, history>>

KillController ==
    /\ KillsAllowed
    /\ step # "off"
    /\ step' = "off"
    /\ UNCHANGED <<stateFile, artifacts, tree, delivered, ofRun, history>>

ControllerNext ==
    \/ OpenRun \/ AdvancePhase \/ StopForDecision
    \/ CompilePlan \/ ReviewPlan \/ RepairPlan \/ CheckPlan \/ WritePlan \/ WriteReview
    \/ ReusedReview \/ LockRunContract
    \/ EnterTasks \/ ImplementTask \/ EnterVerifying \/ VerifyTree \/ RunLanes \/ LanesDone
    \/ ReviewTree \/ CountRepair \/ RepairTree \/ Demonstrate \/ Accept \/ DeliverTree

RunNext == ControllerNext \/ KillController

RunSpec == RunInit /\ [][RunNext]_runVars
-----------------------------------------------------------------------------
\* What a completed run delivers is the tree that passed the gates, that the
\* review approved and that was demonstrated, whatever edited it in between, and
\* every task of the plan is in it.
CompleteAsVerified ==
    phase = "COMPLETE" =>
        /\ delivered = ofRun.gated
        /\ delivered = ofRun.reviewed
        /\ delivered = ofRun.demonstrated
        /\ taskDone = RunTasks

\* The limits hold over all continuations together: no more repairs are made and
\* no more plans refused than configured (a continuation at the limit asks the
\* reviewer once more before it blocks), and what is implemented was approved.
LimitsAndApproval ==
    /\ RepairLimit > 0 => history.repairs <= RepairLimit
    /\ ReviewLimit > 0 => planCycles <= ReviewLimit + history.openings - 1
    /\ phase \in {"IMPLEMENTING", "COMPLETE"} => ofRun.plan \in history.approved

\* The two together, on every path through run: none asks the phase table for a
\* step it refuses, whichever phase a kill or an error left behind, and whatever
\* is replayed.
DeliveredAsVerified == CompleteAsVerified /\ LimitsAndApproval /\ step # "refused"

\* run: "Product, system map, and task plan are immutable".  The plan that is
\* implemented is the locked one, and the locked review is of that plan.
LockedPlanImplemented ==
    step = "implement" => ofRun.plan = planFile /\ planReview = planFile
=============================================================================
