---------------------------- MODULE MCController ----------------------------
(***************************************************************************)
(* The parts of a controller that answer for their own records, in one     *)
(* run: product decisions, the run's phases, repair lanes, parallel worker *)
(* calls and the gate runner.  They share no variable, so the behaviours   *)
(* of their composition are those of each part beside the others at rest:  *)
(* `part` is the one that moves.  View leaves the parts at rest out of a   *)
(* state's identity.                                                       *)
(***************************************************************************)
EXTENDS Decisions, RunPhases, ExternalRepair, Workers, Validation, TLC

VARIABLE part

TwoProviders == <<"p", "q">>
RequiredAndDiagnostic == <<TRUE, FALSE>>
Symmetry ==
    Permutations(Controllers) \cup Permutations(Sessions) \cup Permutations(Choices)
    \cup Permutations(Runners) \cup Permutations(Threads)

ControllerInit ==
    /\ Init /\ RunInit /\ LaneInit /\ WorkersInit /\ ValidationInit
    /\ part \in {"decisions", "run", "lanes", "workers", "validation"}

ControllerStep ==
    \/ /\ part = "decisions" /\ Next
       /\ UNCHANGED <<runVars, laneVars, workerVars, validationVars>>
    \/ /\ part = "run" /\ RunNext
       /\ UNCHANGED <<vars, laneVars, workerVars, validationVars>>
    \/ /\ part = "lanes" /\ LaneNext
       /\ UNCHANGED <<vars, runVars, workerVars, validationVars>>
    \/ /\ part = "workers" /\ WorkersNext
       /\ UNCHANGED <<vars, runVars, laneVars, validationVars>>
    \/ /\ part = "validation" /\ ValidationNext
       /\ UNCHANGED <<vars, runVars, laneVars, workerVars>>

ControllerSpec ==
    ControllerInit
    /\ [][ControllerStep /\ UNCHANGED part]_<<part, vars, runVars, laneVars, workerVars,
                                              validationVars>>

View == <<part, CASE part = "decisions"  -> vars
                  [] part = "run"        -> runVars
                  [] part = "lanes"      -> laneVars
                  [] part = "workers"    -> workerVars
                  [] part = "validation" -> validationVars>>

\* The records of every part have the shape their readers rely on.
ControllerTypesOK ==
    TypeOK /\ RunTypeOK /\ LaneTypeOK /\ WorkersTypeOK /\ ValidationTypeOK
=============================================================================
