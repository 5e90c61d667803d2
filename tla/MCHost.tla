------------------------------- MODULE MCHost -------------------------------
(***************************************************************************)
(* The commands that replace files of the user's machine, in one run: the  *)
(* installer, the stack update, the skill pack, and what a repository      *)
(* keeps under .manageroo.  They share no variable, so the behaviours of   *)
(* their composition are those of each part beside the others at rest:     *)
(* `part` is the one that moves.  View leaves the parts at rest out of a   *)
(* state's identity.                                                       *)
(***************************************************************************)
EXTENDS Installer, StackUpdate, SkillPack, ProjectFiles, TLC

VARIABLE part

\* The parts at rest do not change, so that exchanging two elements of one part
\* and two of another at once is as good as either: it keeps the group small.
Paired(S, T) ==
    LET Swaps(r) == \A x \in DOMAIN r : r[x] # x
        both == {pq \in Permutations(S) \X Permutations(T) : Swaps(pq[1]) <=> Swaps(pq[2])}
    IN  {pq[1] @@ pq[2] : pq \in both}
Symmetry == Paired(Updaters, Commands) \cup Paired(Queues, Presets)

HostInit ==
    /\ InstallerInit /\ StackInit /\ SkillPackInit /\ ProjectInit
    /\ part \in {"installer", "stack", "skills", "project"}

HostStep ==
    \/ part = "installer" /\ InstallerNext /\ UNCHANGED <<stackVars, skillPackVars, projectVars>>
    \/ part = "stack"     /\ StackNext     /\ UNCHANGED <<installerVars, skillPackVars, projectVars>>
    \/ part = "skills"    /\ SkillPackNext /\ UNCHANGED <<installerVars, stackVars, projectVars>>
    \/ part = "project"   /\ ProjectNext   /\ UNCHANGED <<installerVars, stackVars, skillPackVars>>

HostSpec ==
    HostInit
    /\ [][HostStep /\ UNCHANGED part]_<<part, installerVars, stackVars, skillPackVars, projectVars>>

View == <<part, CASE part = "installer" -> installerVars
                  [] part = "stack"     -> stackVars
                  [] part = "skills"    -> skillPackVars
                  [] part = "project"   -> projectVars>>

\* The records of every part have the shape their readers rely on.
HostTypesOK == InstallerTypeOK /\ StackTypeOK /\ SkillPackTypeOK /\ ProjectTypeOK
=============================================================================
