----------------------------- MODULE StackUpdate -----------------------------
(***************************************************************************)
(* stack-update: the tools beside Manageroo are updated in place while     *)
(* they may be running.  The supervisor's environment is updated under the *)
(* lock its runtime gate takes for a queue, after a scan for the queues an *)
(* older launcher started without it; the AUTOREVIEW skill is swapped      *)
(* under a lock of its own while the user moves directories; packages are  *)
(* updated where their manager is proven to own the active command.        *)
(***************************************************************************)
EXTENDS Naturals

CONSTANTS
    Updaters, Queues,
    Nobody,
    BundledGate,   \* GATE_VERSION of the gate Manageroo ships
    RequiredGate,  \* SUPERVISOR_GATE_VERSION that Manageroo asks for
    Legacy,        \* a launcher without a gate
    Packages,      \* tools updated through a package manager
    MaxActs        \* bound: failures, kills and acts of the user

ASSUME StackAssumption ==
    /\ Nobody \notin Updaters \cup Queues /\ Updaters \cap Queues = {}
    /\ Legacy \notin {BundledGate, RequiredGate} /\ MaxActs \in Nat

VARIABLES
    superviseGate,  \* the gate of the supervisor's launcher
    migrated,       \* the migration marker beside it
    runtimeLock,    \* who holds the lock of the supervisor's executable
    queue,          \* [Queues -> a supervisor process]
    updater,        \* [Updaters -> a stack-update process]
    skillLock, skill,        \* the skill's lock, and its directory
    aside, kept,             \* its rollback directories: of each update, and left behind
    package,        \* [Packages -> who installed the active command]
    orphans,        \* pip processes that outlived their updater, without its lock
    acts

supervisorVars == <<superviseGate, migrated, runtimeLock, queue>>
skillVars == <<skillLock, skill, aside, kept>>
stackVars == <<supervisorVars, updater, skillVars, package, orphans, acts>>

\* Directories by identity: the installed one, one the user made, one per update.
NoDir == "none"
Dirs == {NoDir, "old", "user"} \cup Updaters
Gates == {Legacy, BundledGate, RequiredGate}

\* What an updater runs in a process of its own under the runtime lock: the
\* installation of the gate, and that of the packages.
Children == {"gate", "update"}

\* gate, late, beside: the launcher it was started by, whether the migration was
\* recorded then, and whether packages were being installed by an orphan then.
IdleQueue == [pc |-> "idle", gate |-> Legacy, late |-> FALSE, beside |-> FALSE]
IdleUpdater == [pc |-> "idle", planned |-> NoDir, owned |-> {}]

StackTypeOK ==
    /\ superviseGate \in Gates /\ migrated \in BOOLEAN /\ acts \in 0 .. MaxActs
    /\ runtimeLock \in Updaters \cup Queues \cup {Nobody} /\ skillLock \in Updaters \cup {Nobody}
    /\ queue \in [Queues -> [pc : {"idle", "checked", "running"}, gate : Gates, late : BOOLEAN,
                         beside : BOOLEAN]]
    /\ updater \in [Updaters -> [pc : {"idle", "packages", "locked", "gate", "verify", "scan",
                                       "record", "update", "enter", "stage", "move", "moved",
                                       "place", "clean"},
                                 planned : Dirs, owned : SUBSET Packages]]
    /\ skill \in Dirs /\ aside \in [Updaters -> Dirs] /\ kept \subseteq Dirs
    /\ package \in [Packages -> {"manager", "user", "pinned"}]
    /\ orphans \in [Children -> 0 .. MaxActs]
    /\ \A u \in Updaters :
          /\ runtimeLock = u <=> updater[u].pc \in {"locked", "gate", "verify", "scan", "record", "update"}
          /\ skillLock = u <=> updater[u].pc \in {"stage", "move", "moved", "place", "clean"}

StackInit ==
    /\ superviseGate \in Gates /\ migrated = FALSE /\ runtimeLock = Nobody
    /\ queue = [q \in Queues |-> IdleQueue] /\ updater = [u \in Updaters |-> IdleUpdater]
    /\ skillLock = Nobody /\ skill \in {NoDir, "old"} /\ aside = [u \in Updaters |-> NoDir] /\ kept = {}
    /\ package \in [Packages -> {"manager", "user"}] /\ acts = 0
    /\ orphans = [c \in Children |-> 0]

Act == acts < MaxActs /\ acts' = acts + 1
At(u, pc) == updater[u].pc = pc
Move(u, pc) == updater' = [updater EXCEPT ![u].pc = pc]
Done(u) == updater' = [updater EXCEPT ![u] = IdleUpdater]

-----------------------------------------------------------------------------
(* Supervisor queues. *)

\* The gate runs the queue under the runtime lock, or exits when it is busy;
\* an older launcher just runs it.
Launch(q) ==
    /\ queue' = [queue EXCEPT ![q] = [pc |-> "running", gate |-> superviseGate, late |-> migrated,
                                         beside |-> orphans["update"] > 0]]
    /\ IF superviseGate = Legacy THEN UNCHANGED runtimeLock
       ELSE runtimeLock = Nobody /\ runtimeLock' = q
    /\ UNCHANGED <<superviseGate, migrated, updater, skillVars, package, orphans, acts>>

StartQueue(q) == queue[q].pc = "idle" /\ Launch(q)

\* release-sweep asks the launcher for its gate before it invokes it.
CheckSweep(q) ==
    /\ queue[q].pc = "idle" /\ superviseGate = RequiredGate
    /\ queue' = [queue EXCEPT ![q].pc = "checked"]
    /\ UNCHANGED <<superviseGate, migrated, runtimeLock, updater, skillVars, package, orphans, acts>>

InvokeSweep(q) == queue[q].pc = "checked" /\ Launch(q)

\* A busy runtime lock is the transient exit code 75.
SweepBusy(q) ==
    /\ queue[q].pc = "checked" /\ superviseGate # Legacy /\ runtimeLock # Nobody
    /\ queue' = [queue EXCEPT ![q] = IdleQueue]
    /\ UNCHANGED <<superviseGate, migrated, runtimeLock, updater, skillVars, package, orphans, acts>>

EndQueue(q) ==
    /\ queue[q].pc = "running" /\ queue' = [queue EXCEPT ![q] = IdleQueue]
    /\ runtimeLock' = IF runtimeLock = q THEN Nobody ELSE runtimeLock
    /\ UNCHANGED <<superviseGate, migrated, updater, skillVars, package, orphans, acts>>

-----------------------------------------------------------------------------
(* The supervisor's environment. *)

Release(u) == Done(u) /\ runtimeLock' = Nobody

\* The lock is tried once.
LockRuntime(u) ==
    /\ At(u, "idle") /\ runtimeLock = Nobody /\ runtimeLock' = u /\ Move(u, "locked")
    /\ UNCHANGED <<superviseGate, migrated, queue, skillVars, package, orphans, acts>>

GateReady == superviseGate = RequiredGate

\* A gate that answers with the required version, and a marker that says the
\* launchers before it were seen to be gone, need no scan.
ProbeGate(u) ==
    /\ At(u, "locked")
    /\ Move(u, IF ~GateReady THEN "gate" ELSE IF migrated THEN "update" ELSE "scan")
    /\ UNCHANGED <<supervisorVars, skillVars, package, orphans, acts>>

InstallGate(u) ==
    /\ At(u, "gate")
    /\ \/ /\ superviseGate' = BundledGate /\ Move(u, "verify") /\ UNCHANGED <<runtimeLock, acts>>
       \/ /\ Act /\ Release(u) /\ UNCHANGED superviseGate
    /\ UNCHANGED <<migrated, queue, skillVars, package, orphans>>

VerifyGate(u) ==
    /\ At(u, "verify")
    /\ IF GateReady THEN Move(u, "scan") /\ UNCHANGED runtimeLock ELSE Release(u)
    /\ UNCHANGED <<superviseGate, migrated, queue, skillVars, package, orphans, acts>>

\* Mutant: the processes are not looked at.
Blocked_Never == FALSE

\* Any process with the launcher's path in its command line.
UpdateBlocked == \E q \in Queues : queue[q].pc = "running"

ScanQueues(u) ==
    /\ At(u, "scan")
    /\ IF UpdateBlocked THEN Release(u) ELSE Move(u, "record") /\ UNCHANGED runtimeLock
    /\ UNCHANGED <<superviseGate, migrated, queue, skillVars, package, orphans, acts>>

RecordMigration(u) ==
    /\ At(u, "record") /\ migrated' = TRUE /\ Move(u, "update")
    /\ UNCHANGED <<superviseGate, runtimeLock, queue, skillVars, package, orphans, acts>>

\* pip --target writes the packages and leaves the launcher to the gate.
UpdatePackages(u) ==
    /\ At(u, "update") /\ Release(u)
    /\ UNCHANGED <<superviseGate, migrated, queue, skillVars, package, orphans, acts>>

\* While nothing of Manageroo runs, the operator installs a supervisor.
InstallSupervisor ==
    /\ Act /\ \A u \in Updaters : At(u, "idle") /\ \A q \in Queues : queue[q].pc # "checked"
    /\ superviseGate' \in {Legacy, RequiredGate}
    /\ UNCHANGED <<migrated, runtimeLock, queue, updater, skillVars, package, orphans>>

-----------------------------------------------------------------------------
(* The AUTOREVIEW skill. *)

\* Mutant: the lock stays on the way out.
Leave_Locked(u) == Done(u) /\ UNCHANGED skillLock

\* Leaving also unlocks; the stage is removed, a rollback that is not empty stays.
Leave(u) == Done(u) /\ skillLock' = Nobody
SkillStep == UNCHANGED <<supervisorVars, package, orphans>>

PlanSkill(u) ==
    /\ At(u, "idle") /\ skill # NoDir
    /\ updater' = [updater EXCEPT ![u].pc = "enter", ![u].planned = skill]
    /\ SkillStep /\ UNCHANGED <<skillVars, acts>>

SameDir(u) == skill = updater[u].planned

LockSkill(u) ==
    /\ At(u, "enter")
    /\ \/ /\ SameDir(u) /\ skillLock = Nobody /\ skillLock' = u /\ Move(u, "stage")
       \/ ~SameDir(u) /\ Done(u) /\ UNCHANGED skillLock
    /\ SkillStep /\ UNCHANGED <<skill, aside, kept, acts>>

StageSkill(u) ==
    /\ At(u, "stage")
    /\ IF SameDir(u) THEN Move(u, "move") /\ UNCHANGED skillLock ELSE Leave(u)
    /\ SkillStep /\ UNCHANGED <<skill, aside, kept, acts>>

\* The directory is renamed into rollback storage, and looked at there.
MoveAside(u) ==
    /\ At(u, "move")
    /\ IF skill = NoDir THEN Move(u, "place") /\ UNCHANGED aside
       ELSE Move(u, "moved") /\ aside' = [aside EXCEPT ![u] = skill]
    /\ skill' = NoDir /\ kept' = kept \cup {aside[u]}
    /\ SkillStep /\ UNCHANGED <<skillLock, acts>>

\* Mutant: what was moved aside is not looked at.
Moved_Trusted(u) == TRUE

MovedAsPlanned(u) == aside[u] = updater[u].planned

PutBack(u) ==
    IF skill = NoDir THEN skill' = aside[u] /\ aside' = [aside EXCEPT ![u] = NoDir]
    ELSE UNCHANGED <<skill, aside>>

VerifyMoved(u) ==
    /\ At(u, "moved")
    /\ IF MovedAsPlanned(u) THEN Move(u, "place") /\ UNCHANGED <<skillLock, skill, aside>>
       ELSE PutBack(u) /\ Leave(u)
    /\ SkillStep /\ UNCHANGED <<kept, acts>>

\* Renaming the stage fails on a directory that came meanwhile.
PlaceSkill(u) ==
    /\ At(u, "place")
    /\ \/ /\ skill = NoDir /\ skill' = u /\ Move(u, "clean") /\ UNCHANGED <<skillLock, aside, acts>>
       \/ skill # NoDir /\ PutBack(u) /\ Leave(u) /\ UNCHANGED acts
       \/ Act /\ PutBack(u) /\ Leave(u)
    /\ SkillStep /\ UNCHANGED kept

CleanAside(u) ==
    /\ At(u, "clean") /\ aside' = [aside EXCEPT ![u] = NoDir] /\ Leave(u)
    /\ SkillStep /\ UNCHANGED <<skill, kept, acts>>

Held == {skill} \cup {aside[u] : u \in Updaters} \cup kept

\* The user moves a directory of theirs to that place, or moves it away.
UserMovesSkill ==
    /\ Act /\ \/ skill # "user" /\ "user" \notin Held /\ skill' = "user"
              \/ skill' = NoDir
    /\ UNCHANGED <<supervisorVars, updater, skillLock, aside, kept, package, orphans>>

-----------------------------------------------------------------------------
(* Packages. *)

ManagerOwns(p) == package[p] # "user"

\* A command is planned only where the manager owns the active executable.
PlanPackages(u) ==
    /\ At(u, "idle")
    /\ LET owned == {p \in Packages : ManagerOwns(p)}
       IN  owned # {} /\ updater' = [updater EXCEPT ![u].pc = "packages", ![u].owned = owned]
    /\ UNCHANGED <<supervisorVars, skillVars, package, orphans, acts>>

\* The manager writes its own copy: a command of the user's stays in front.
UpdatePackage(u) ==
    /\ At(u, "packages")
    /\ \E p \in updater[u].owned :
          /\ package' = [package EXCEPT ![p] = IF @ = "user" THEN @ ELSE "pinned"]
          /\ updater' = IF updater[u].owned = {p} THEN [updater EXCEPT ![u] = IdleUpdater]
                        ELSE [updater EXCEPT ![u].owned = @ \ {p}]
    /\ UNCHANGED <<supervisorVars, skillVars, orphans, acts>>

\* What the updater runs may die with it (a terminal's interrupt reaches both) or
\* live on; the locks do not, their descriptors are closed on exec.  A package
\* manager that lives on does what it would have done, which nothing here reads.
KillUpdater(u) ==
    /\ ~At(u, "idle") /\ Act /\ Done(u)
    /\ \/ UNCHANGED orphans
       \/ \E c \in Children : At(u, c) /\ orphans' = [orphans EXCEPT ![c] = @ + 1]
    /\ runtimeLock' = IF runtimeLock = u THEN Nobody ELSE runtimeLock
    /\ skillLock' = IF skillLock = u THEN Nobody ELSE skillLock
    /\ UNCHANGED <<superviseGate, migrated, queue, skill, aside, kept, package>>

\* An orphan ends; that of the gate has installed it, or failed.
OrphanEnds(c) ==
    /\ orphans[c] > 0 /\ orphans' = [orphans EXCEPT ![c] = @ - 1]
    /\ superviseGate' \in IF c = "gate" THEN {superviseGate, BundledGate} ELSE {superviseGate}
    /\ UNCHANGED <<migrated, runtimeLock, queue, updater, skillVars, package, acts>>

StackNext ==
    \/ \E q \in Queues :
          StartQueue(q) \/ CheckSweep(q) \/ InvokeSweep(q) \/ SweepBusy(q) \/ EndQueue(q)
    \/ \E u \in Updaters :
          \/ LockRuntime(u) \/ ProbeGate(u) \/ InstallGate(u) \/ VerifyGate(u) \/ ScanQueues(u)
          \/ RecordMigration(u) \/ UpdatePackages(u)
          \/ PlanSkill(u) \/ LockSkill(u) \/ StageSkill(u) \/ MoveAside(u) \/ VerifyMoved(u)
          \/ PlaceSkill(u) \/ CleanAside(u) \/ PlanPackages(u) \/ UpdatePackage(u)
          \/ KillUpdater(u)
    \/ \E c \in Children : OrphanEnds(c)
    \/ InstallSupervisor \/ UserMovesSkill

StackSpec == StackInit /\ [][StackNext]_stackVars

-----------------------------------------------------------------------------
\* The supervisor's packages never change under a queue, except one that a
\* launcher without a gate, put back after the migration, started; and those that
\* a killed update leaves to install change under none but such a queue and those
\* started since.
UpdateExcludesQueues ==
    \A q \in Queues : queue[q].pc = "running" =>
        LET ungated == queue[q].gate = Legacy /\ queue[q].late
        IN  /\ \A u \in Updaters : At(u, "update") => ungated
            /\ orphans["update"] > 0 => ungated \/ queue[q].beside

\* A directory leaves the disk only by the update that planned to replace it
\* and put its own in its place.
ReplacedAsPlanned ==
    [][\A d \in Held \ Held' :
          updater' # updater => d = NoDir \/ \E u \in Updaters : At(u, "clean") /\ d = updater[u].planned
      ]_stackVars

\* Not so: an update that installed the gate it ships goes on to verify it.
InstalledGateVerifies == \A u \in Updaters : At(u, "verify") => GateReady

\* Not so: the lock is held until the installation of the packages has ended.
LockSpansUpdate ==
    orphans["update"] > 0 => \A q \in Queues : queue[q].pc = "running" => queue[q].gate = Legacy

\* Not so: no queue at all runs while the packages change.
NoQueueUpdated ==
    \A u \in Updaters, q \in Queues : ~(At(u, "update") /\ queue[q].pc = "running")
=============================================================================
