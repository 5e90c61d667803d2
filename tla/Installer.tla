------------------------------ MODULE Installer ------------------------------
(***************************************************************************)
(* The installation of Manageroo under a prefix: install.sh, update,       *)
(* repair-install and uninstall, one operation at a time, killed anywhere. *)
(* Every operation that replaces or removes something asks the install     *)
(* lock and the ownership marker of the prefix first.  Meanwhile the       *)
(* source folder is pulled, prefixes are copied and files are the user's.  *)
(***************************************************************************)
EXTENDS Naturals, FiniteSets

CONSTANTS
    Prefixes,     \* installation directories; they share one launcher path
    NoPrefix,
    MaxSources,   \* bound: versions the source folder goes through
    MaxIds,       \* bound: ownership markers written
    MaxEvents     \* bound: kills, failures and acts of the user

ASSUME InstallerAssumption ==
    NoPrefix \notin Prefixes /\ MaxSources \in Nat \ {0} /\ MaxIds \in Nat /\ MaxEvents \in Nat

VARIABLES
    source,       \* the tree in the source folder
    prefix,       \* [Prefixes -> what the directory holds]
    launcher,     \* the manageroo command: whose it is
    codexHooks,   \* groups of the host's hooks.json: the user's and ours
    op,           \* the operation under way
    ids, events   \* bounded counters

installerVars == <<source, prefix, launcher, codexHooks, op, ids, events>>

NoTree == 0
UserTree == MaxSources + 1
Sources == 1 .. MaxSources
Trees == NoTree .. UserTree
Owner == Prefixes \cup {NoPrefix}

NoLock == [id |-> 0, of |-> NoPrefix, app |-> NoTree]
Marker == [id : 0 .. MaxIds, of : Owner]
Empty == [app |-> NoTree, proof |-> NoTree, marker |-> [id |-> 0, of |-> NoPrefix],
          lock |-> NoLock, torn |-> FALSE]
IdleOp == [pc |-> "idle", at |-> NoPrefix, source |-> NoTree, stage |-> NoTree,
           previous |-> NoTree, moved |-> Empty]
Prefix == [app : Trees, proof : Trees, marker : Marker, torn : BOOLEAN,
           lock : [id : 0 .. MaxIds, of : Owner, app : Trees]]

InstallerTypeOK ==
    /\ source \in Sources /\ ids \in 0 .. MaxIds /\ events \in 0 .. MaxEvents
    /\ prefix \in [Prefixes -> Prefix]
    /\ launcher \in {"none", "torn", "user"} \cup Prefixes
    /\ codexHooks \subseteq {"user", "manageroo"}
    /\ op \in [pc : {"idle", "checks", "stage", "swap", "place", "drop", "proof", "launcher",
                     "write", "hooks", "test", "marker", "lock", "restore", "unhook",
                     "runtime", "files"},
               at : Owner, source : Trees, stage : Trees, previous : Trees, moved : Prefix]

InstallerInit ==
    /\ source = 1 /\ ids = 0 /\ events = 0 /\ op = IdleOp
    /\ prefix \in [Prefixes -> {Empty, [Empty EXCEPT !.app = UserTree]}]
    /\ launcher \in {"none", "user"} /\ codexHooks \in {{}, {"user"}}

-----------------------------------------------------------------------------
(* Ownership. *)

Exists(x) == prefix[x] # Empty

\* The lock names a marker by digest and id, and both name this directory.
MarkerBound(x) ==
    /\ prefix[x].lock.id # 0 /\ prefix[x].marker.id = prefix[x].lock.id
    /\ prefix[x].marker.of = x

Owned(x) == prefix[x].lock.of = x /\ MarkerBound(x)

\* A launcher is recognised by its whole text, with the prefix it executes.
AnyLauncher == launcher \in Prefixes
LauncherOf(x) == launcher = x

Goto(pc) == op' = [op EXCEPT !.pc = pc]
Finish == op' = IdleOp
\* What a replaced runtime holds is as the lock says only after the lock.
Tear(p) == [p EXCEPT !.torn = TRUE]
Event == events < MaxEvents /\ events' = events + 1

-----------------------------------------------------------------------------
(* Install and update. *)

Begin(x) ==
    /\ op.pc = "idle"
    /\ op' = [IdleOp EXCEPT !.pc = "checks", !.at = x, !.source = source]
    /\ UNCHANGED <<source, prefix, launcher, codexHooks, ids, events>>

\* update refuses a prefix it does not own before it runs the installer.
BeginUpdate(x) == Owned(x) /\ Begin(x)

\* Proof assets and an application that nothing proves ours are refused, and
\* so is a source folder that changed since it was measured.
Accepts(x) ==
    /\ (prefix[x].app = NoTree /\ prefix[x].proof = NoTree) \/ Owned(x)
    /\ source = op.source

CheckInstall ==
    /\ op.pc = "checks"
    /\ IF Accepts(op.at) THEN Goto("stage") ELSE Finish
    /\ UNCHANGED <<source, prefix, launcher, codexHooks, ids, events>>

\* Mutant: any tree of the repository passes.
Verified_Unbound(stage) == stage \in Sources

\* The staged copy is measured again: what is swapped in is what was bound.
Verified(stage) == stage = op.source

StageApp ==
    /\ op.pc = "stage"
    /\ IF Verified(source) THEN op' = [op EXCEPT !.pc = "swap", !.stage = source] ELSE Finish
    /\ UNCHANGED <<source, prefix, launcher, codexHooks, ids, events>>

SwapOut ==
    /\ op.pc = "swap"
    /\ op' = [op EXCEPT !.pc = "place", !.previous = prefix[op.at].app]
    /\ prefix' = [prefix EXCEPT ![op.at] = [Tear(@) EXCEPT !.app = NoTree]]
    /\ UNCHANGED <<source, launcher, codexHooks, ids, events>>

PlaceApp ==
    /\ op.pc = "place"
    /\ \/ /\ prefix' = [prefix EXCEPT ![op.at].app = op.stage] /\ Goto("drop")
          /\ UNCHANGED events
       \/ /\ Event /\ prefix' = [prefix EXCEPT ![op.at].app = op.previous] /\ Finish
    /\ UNCHANGED <<source, launcher, codexHooks, ids>>

\* The tests and pyproject.toml are deleted and copied, not swapped.
DropProof ==
    /\ op.pc = "drop" /\ Goto("proof")
    /\ prefix' = [prefix EXCEPT ![op.at].proof = NoTree]
    /\ UNCHANGED <<source, launcher, codexHooks, ids, events>>

CopyProof ==
    /\ op.pc = "proof" /\ Goto("launcher")
    /\ prefix' = [prefix EXCEPT ![op.at].proof = source]
    /\ UNCHANGED <<source, launcher, codexHooks, ids, events>>

Replaceable(x) == launcher = "none" \/ LauncherOf(x)

\* The launcher is truncated and then written.
OpenLauncher ==
    /\ op.pc = "launcher"
    /\ IF Replaceable(op.at) THEN launcher' = "torn" /\ Goto("write")
       ELSE UNCHANGED launcher /\ Finish
    /\ UNCHANGED <<source, prefix, codexHooks, ids, events>>

WriteLauncher ==
    /\ op.pc = "write" /\ Goto("hooks") /\ launcher' = op.at
    /\ UNCHANGED <<source, prefix, codexHooks, ids, events>>

\* One group of ours for each event, under the lock of hooks.json; a file
\* that is no object of arrays is an error.
InstallHooks ==
    /\ op.pc = "hooks"
    /\ \/ /\ codexHooks' = codexHooks \cup {"manageroo"} /\ Goto("test") /\ UNCHANGED events
       \/ /\ "user" \in codexHooks /\ Event /\ Finish /\ UNCHANGED codexHooks
    /\ UNCHANGED <<source, prefix, launcher, ids>>

SelfTest ==
    /\ op.pc = "test"
    /\ \/ Goto("marker") /\ UNCHANGED events
       \/ Event /\ Finish
    /\ UNCHANGED <<source, prefix, launcher, codexHooks, ids>>

WriteMarker ==
    /\ op.pc = "marker" /\ ids < MaxIds /\ ids' = ids + 1 /\ Goto("lock")
    /\ prefix' = [prefix EXCEPT ![op.at].marker = [id |-> ids', of |-> op.at]]
    /\ UNCHANGED <<source, launcher, codexHooks, events>>

\* The lock is written twice, the second time with the uninstall plan.
InstallLock ==
    /\ op.pc = "lock" /\ Finish
    /\ prefix' = [prefix EXCEPT ![op.at].torn = FALSE,
                                ![op.at].lock = [id |-> prefix[op.at].marker.id, of |-> op.at,
                                                 app |-> op.source]]
    /\ UNCHANGED <<source, launcher, codexHooks, ids, events>>

-----------------------------------------------------------------------------
(* Repair and uninstall. *)

\* A missing launcher is created exclusively; any other file is left alone.
RepairLauncher(x) ==
    /\ op.pc = "idle" /\ Owned(x)
    /\ op' = [IdleOp EXCEPT !.pc = "restore", !.at = x]
    /\ launcher' = IF launcher = "none" THEN x ELSE launcher
    /\ UNCHANGED <<source, prefix, codexHooks, ids, events>>

RestoreHooks ==
    /\ op.pc = "restore" /\ Finish
    /\ codexHooks' = IF AnyLauncher THEN codexHooks \cup {"manageroo"} ELSE codexHooks
    /\ UNCHANGED <<source, prefix, launcher, ids, events>>

\* Hooks that name the launcher's path can be removed, and a runtime whose
\* ownership is proven, with the launcher that executes it.
Removable(x) ==
    {c \in {"hooks", "runtime"} : IF c = "hooks" THEN "manageroo" \in codexHooks ELSE Owned(x)}
PlannedLauncher(x) == Owned(x) /\ LauncherOf(x)

\* The operator selects components of the inventory and confirms.
BeginUninstall(x) ==
    /\ op.pc = "idle" /\ Exists(x)
    /\ \E selected \in (SUBSET Removable(x)) \ {{}} :
          op' = [IdleOp EXCEPT !.pc = IF "hooks" \in selected THEN "unhook" ELSE "runtime",
                               !.at = x,
                               !.stage = IF "runtime" \in selected THEN prefix[x].lock.app
                                         ELSE NoTree]
    /\ UNCHANGED <<source, prefix, launcher, codexHooks, ids, events>>

RemoveHooks ==
    /\ op.pc = "unhook" /\ codexHooks' = codexHooks \ {"manageroo"}
    /\ IF op.stage # NoTree THEN Goto("runtime") ELSE Finish
    /\ UNCHANGED <<source, prefix, launcher, ids, events>>

\* The plan is made again and the whole directory is renamed away at once.
RemoveRuntime ==
    /\ op.pc = "runtime"
    /\ IF Owned(op.at)
       THEN /\ op' = [op EXCEPT !.pc = "files", !.moved = prefix[op.at],
                                !.previous = IF PlannedLauncher(op.at) THEN UserTree ELSE NoTree]
            /\ prefix' = [prefix EXCEPT ![op.at] = Empty]
       ELSE Finish /\ UNCHANGED prefix
    /\ UNCHANGED <<source, launcher, codexHooks, ids, events>>

\* Then the launcher the plan named; when that fails, the runtime comes back.
RemoveLauncher ==
    /\ op.pc = "files" /\ Finish
    /\ IF op.previous # NoTree
       THEN \/ launcher' = "none" /\ UNCHANGED <<prefix, events>>
            \/ /\ Event /\ prefix' = [prefix EXCEPT ![op.at] = op.moved]
               /\ UNCHANGED launcher
       ELSE UNCHANGED <<prefix, launcher, events>>
    /\ UNCHANGED <<source, codexHooks, ids>>

-----------------------------------------------------------------------------
(* What happens meanwhile. *)

KillInstaller ==
    /\ op.pc # "idle" /\ Event /\ Finish
    /\ UNCHANGED <<source, prefix, launcher, codexHooks, ids>>

PullSource ==
    /\ source < MaxSources /\ source' = source + 1
    /\ UNCHANGED <<prefix, launcher, codexHooks, op, ids, events>>

\* The user copies an installation to another directory (cp -r).
CopyPrefix ==
    /\ op.pc = "idle" /\ Event
    /\ \E x, y \in Prefixes : /\ Exists(x) /\ ~Exists(y)
                              /\ prefix' = [prefix EXCEPT ![y] = prefix[x]]
    /\ UNCHANGED <<source, launcher, codexHooks, op, ids>>

\* The user deletes the command, or puts another of that name there.
ChangeLauncher ==
    /\ op.pc = "idle" /\ Event
    /\ launcher' \in {"none", "user"}
    /\ UNCHANGED <<source, prefix, codexHooks, op, ids>>

InstallerNext ==
    \/ \E x \in Prefixes : Begin(x) \/ BeginUpdate(x) \/ RepairLauncher(x) \/ BeginUninstall(x)
    \/ CheckInstall \/ StageApp \/ SwapOut \/ PlaceApp \/ DropProof \/ CopyProof
    \/ OpenLauncher \/ WriteLauncher \/ InstallHooks \/ SelfTest \/ WriteMarker \/ InstallLock
    \/ RestoreHooks \/ RemoveHooks \/ RemoveRuntime \/ RemoveLauncher
    \/ KillInstaller \/ PullSource \/ CopyPrefix \/ ChangeLauncher

InstallerSpec == InstallerInit /\ [][InstallerNext]_installerVars

-----------------------------------------------------------------------------
\* An owned installation that no later operation broke off in holds the tree
\* its lock records, whatever was pulled into the source folder meanwhile.
InstalledAsRecorded ==
    \A x \in Prefixes :
        op.at # x /\ Owned(x) /\ ~prefix[x].torn => prefix[x].app = prefix[x].lock.app

\* Not so: a run of the installer that was killed can always be repeated (in a
\* prefix that is not another one's copy).
RerunAccepted ==
    \A x \in Prefixes :
        op.pc = "idle" /\ prefix[x].app \in Sources =>
            Owned(x) \/ prefix[x].lock.of \in Prefixes \ {x}

\* Not so: the proof assets are those of the tree the lock records.
ProofAsRecorded ==
    \A x \in Prefixes :
        op.at # x /\ Owned(x) /\ ~prefix[x].torn => prefix[x].proof = prefix[x].lock.app
=============================================================================
