----------------------------- MODULE MCTaskRun -----------------------------
(***************************************************************************)
(* The task loop of a run and, in the same run of TLC, the routing of      *)
(* skills for the worker calls it makes.  They share no variable: `part`   *)
(* is the one that moves, and View leaves the part at rest out of a        *)
(* state's identity.                                                       *)
(***************************************************************************)
EXTENDS TaskRun, Capability, TLC

VARIABLE part

\* Two copies of one skill, a skill the task matches, and one of the controller's
\* own, which it matches as well.
TwoOfOneName == <<"x", "x", "y", "own">>
AskedOrDenied == {[asked |-> {"x", "own"}, denied |-> {}], [asked |-> {}, denied |-> {"x"}]}

Symmetry == Permutations(Calls)

TaskAndRoutingInit == Init /\ CapabilityInit /\ part \in {"tasks", "routing"}
TaskAndRoutingStep ==
    \/ part = "tasks"   /\ Next           /\ UNCHANGED capabilityVars
    \/ part = "routing" /\ CapabilityNext /\ UNCHANGED vars
TaskAndRoutingSpec ==
    TaskAndRoutingInit
    /\ [][TaskAndRoutingStep /\ UNCHANGED part]_<<part, vars, capabilityVars>>

View == <<part, IF part = "tasks" THEN vars ELSE capabilityVars>>
=============================================================================
