----------------------------- MODULE HostProofs -----------------------------
(***************************************************************************)
(* Theorems about the commands that replace files of the user's machine:   *)
(* the installer, the stack update, the project files and the installed    *)
(* skills.  They share no variable; each section gives a part's inductive  *)
(* invariant, the lemmas that every action keeps it, and the properties    *)
(* that follow.  The last one puts the parts together.                     *)
(***************************************************************************)
EXTENDS MCHost, TLAPS, FiniteSetTheorems

-----------------------------------------------------------------------------
(* The installer: an installation holds the tree its lock records.        *)

\* The stages, and what an operation and an installation's lock are.
Replacing == {"drop", "proof", "launcher", "write", "hooks", "test", "marker", "lock"}
InstallerPCs == {"idle", "checks", "stage", "swap", "place", "restore", "unhook", "runtime", "files"}
                \cup Replacing
LockRecord == [id : 0 .. MaxIds, of : Owner, app : Trees]
Operation == [pc : InstallerPCs, at : Owner, source : Trees, stage : Trees, previous : Trees,
              moved : Prefix]

\* A lock that no operation broke off since records the application.
Recorded(p) == p.lock.id # 0 /\ ~p.torn => p.app = p.lock.app

\* The installation being replaced counts as broken until its lock is written,
\* and holds the tree that was bound once that is placed.
Bound ==
    /\ op.pc # "idle" => op.at \in Prefixes
    /\ op.pc \in {"swap", "place"} \cup Replacing => op.stage = op.source
    /\ op.pc \in {"place"} \cup Replacing => prefix[op.at].torn
    /\ op.pc \in Replacing => prefix[op.at].app = op.source

\* The inductive invariant: the types, and every installation, the one moved
\* aside included, as its lock records it.
InstallerInv ==
    /\ InstallerTypeOK /\ Bound /\ Recorded(op.moved)
    /\ \A x \in Prefixes : Recorded(prefix[x])

\* The records of the installer by name.
LEMMA InstallerTypesByName ==
    InstallerTypeOK <=>
        /\ source \in Sources /\ ids \in 0 .. MaxIds /\ events \in 0 .. MaxEvents
        /\ prefix \in [Prefixes -> Prefix]
        /\ launcher \in {"none", "torn", "user"} \cup Prefixes
        /\ codexHooks \subseteq {"user", "manageroo"}
        /\ op \in Operation
  BY DEF InstallerTypeOK, Operation, InstallerPCs, Replacing

\* The directory that holds nothing, and the operation that is none.
LEMMA EmptyTyped ==
    /\ Empty \in Prefix /\ IdleOp \in Operation /\ IdleOp.pc = "idle" /\ IdleOp.moved = Empty
    /\ Recorded(Empty) /\ NoTree \in Trees /\ UserTree \in Trees /\ Sources \subseteq Trees
<1> USE InstallerAssumption
<1>1. NoTree \in Trees /\ UserTree \in Trees /\ Sources \subseteq Trees
  BY DEF NoTree, UserTree, Trees, Sources
<1>2. Empty \in Prefix /\ Recorded(Empty)
  BY <1>1 DEF Empty, Prefix, Marker, Owner, NoLock, Recorded
<1>3. IdleOp \in Operation /\ IdleOp.pc = "idle" /\ IdleOp.moved = Empty
  BY <1>1, <1>2 DEF IdleOp, Operation, InstallerPCs, Owner
<1> QED
  BY <1>1, <1>2, <1>3

\* What a step of the operation that only moves on leaves to show.
LEMMA GotoDoes ==
    ASSUME NEW to \in InstallerPCs, op \in Operation, Goto(to)
    PROVE  /\ op' \in Operation /\ op'.pc = to
           /\ op'.at = op.at /\ op'.source = op.source /\ op'.stage = op.stage
           /\ op'.previous = op.previous /\ op'.moved = op.moved
  BY DEF Goto, Operation

\* One directory changes.
LEMMA PrefixChanges ==
    ASSUME prefix \in [Prefixes -> Prefix], NEW x \in Prefixes, NEW p \in Prefix,
           prefix' = [prefix EXCEPT ![x] = p]
    PROVE  /\ prefix' \in [Prefixes -> Prefix] /\ prefix'[x] = p
           /\ \A y \in Prefixes \ {x} : prefix'[y] = prefix[y]
  OBVIOUS

\* What a step has to show, part by part.
LEMMA InstallerKept ==
    ASSUME InstallerInv,
           source' \in Sources, ids' \in 0 .. MaxIds, events' \in 0 .. MaxEvents,
           launcher' \in {"none", "torn", "user"} \cup Prefixes,
           codexHooks' \subseteq {"user", "manageroo"},
           op' \in Operation, prefix' \in [Prefixes -> Prefix],
           Bound', Recorded(op'.moved), \A x \in Prefixes : Recorded(prefix'[x])
    PROVE  InstallerInv'
  BY DEF InstallerInv, InstallerTypeOK, Operation, InstallerPCs, Replacing, Recorded

\* A step that ends the operation has nothing to show of it.
LEMMA FinishKeeps ==
    ASSUME InstallerInv, Finish,
           source' \in Sources, ids' \in 0 .. MaxIds, events' \in 0 .. MaxEvents,
           launcher' \in {"none", "torn", "user"} \cup Prefixes,
           codexHooks' \subseteq {"user", "manageroo"},
           prefix' \in [Prefixes -> Prefix], \A x \in Prefixes : Recorded(prefix'[x])
    PROVE  InstallerInv'
<1>1. op' \in Operation /\ op'.pc = "idle" /\ op'.moved = Empty /\ Recorded(op'.moved)
  BY EmptyTyped DEF Finish
<1>2. Bound'
  BY <1>1 DEF Bound, Replacing
<1> QED
  BY <1>1, <1>2, InstallerKept

\* A step that moves the operation on without touching a directory.
LEMMA GotoKeeps ==
    ASSUME InstallerInv, NEW to \in InstallerPCs, Goto(to), UNCHANGED prefix, op.pc # "idle",
           to \in {"swap", "place"} \cup Replacing => op.stage = op.source,
           to = "place" => prefix[op.at].torn,
           to \in Replacing => op.pc \in Replacing,
           source' \in Sources, ids' \in 0 .. MaxIds, events' \in 0 .. MaxEvents,
           launcher' \in {"none", "torn", "user"} \cup Prefixes,
           codexHooks' \subseteq {"user", "manageroo"}
    PROVE  InstallerInv'
<1>0. op \in Operation /\ prefix \in [Prefixes -> Prefix]
  BY InstallerTypesByName DEF InstallerInv
<1>1. /\ op' \in Operation /\ op'.pc = to /\ op'.at = op.at
      /\ op'.source = op.source /\ op'.stage = op.stage /\ op'.moved = op.moved
  BY <1>0, GotoDoes
<1>2. Bound'
  BY <1>1 DEF Bound, InstallerInv
<1>3. Recorded(op'.moved) /\ \A x \in Prefixes : Recorded(prefix'[x])
  BY <1>1 DEF InstallerInv
<1> QED
  BY <1>0, <1>1, <1>2, <1>3, InstallerKept

\* A step that starts an operation.
LEMMA StartKeeps ==
    ASSUME InstallerInv, NEW x \in Prefixes, op' \in Operation, op'.at = x, op'.moved = Empty,
           op'.pc \in {"checks", "restore", "unhook", "runtime"},
           launcher' \in {"none", "torn", "user"} \cup Prefixes,
           UNCHANGED <<source, prefix, codexHooks, ids, events>>
    PROVE  InstallerInv'
<1>1. Bound'
  BY DEF Bound, Replacing
<1>2. Recorded(op'.moved) /\ \A y \in Prefixes : Recorded(prefix'[y])
  BY EmptyTyped DEF InstallerInv
<1> QED
  BY <1>1, <1>2, InstallerTypesByName, InstallerKept DEF InstallerInv

\* Every step of the installer keeps the invariant.
LEMMA InstallerStep == ASSUME InstallerInv, InstallerNext PROVE InstallerInv'
<1> USE InstallerAssumption
<1> DEFINE Rest == /\ source \in Sources /\ ids \in 0 .. MaxIds /\ events \in 0 .. MaxEvents
                   /\ launcher \in {"none", "torn", "user"} \cup Prefixes
                   /\ codexHooks \subseteq {"user", "manageroo"}
           All == \A x \in Prefixes : Recorded(prefix'[x])
<1>0. Rest /\ prefix \in [Prefixes -> Prefix] /\ op \in Operation /\ Bound /\ Recorded(op.moved)
  BY InstallerTypesByName DEF InstallerInv
<1>1. UNCHANGED prefix => prefix' \in [Prefixes -> Prefix] /\ All
  BY <1>0 DEF InstallerInv
<1>2. Event => events' \in 0 .. MaxEvents
  BY <1>0 DEF Event
<1>3. /\ op.source \in Trees /\ op.stage \in Trees /\ op.previous \in Trees /\ op.moved \in Prefix
      /\ op.pc # "idle" => op.at \in Prefixes
  BY <1>0 DEF Operation, Bound
<1>4. \A to \in {"stage", "proof", "launcher", "hooks", "test", "marker", "lock", "write", "drop",
                 "runtime", "place", "swap"} : to \in InstallerPCs
  BY DEF InstallerPCs, Replacing
<1>5. source \in Trees /\ NoTree \in Trees /\ UserTree \in Trees /\ \A x \in Prefixes : x \in Owner
  BY <1>0, EmptyTyped DEF Owner
<1>6. ASSUME NEW x \in Prefixes, NEW p \in Prefix, prefix' = [prefix EXCEPT ![x] = p], Recorded(p)
      PROVE  prefix' \in [Prefixes -> Prefix] /\ All /\ prefix'[x] = p
  BY <1>0, <1>6, PrefixChanges DEF InstallerInv
<1>7. \A x \in Prefixes : prefix[x] \in Prefix /\ Recorded(prefix[x])
  BY <1>0 DEF InstallerInv
<1> HIDE DEF All
<1>a. ASSUME NEW x \in Prefixes, Begin(x) \/ BeginUpdate(x) PROVE InstallerInv'
  <2>1. /\ op' = [IdleOp EXCEPT !.pc = "checks", !.at = x, !.source = source]
        /\ UNCHANGED <<source, prefix, launcher, codexHooks, ids, events>>
    BY <1>a DEF Begin, BeginUpdate
  <2>2. op' \in Operation /\ op'.at = x /\ op'.moved = Empty /\ op'.pc = "checks"
    BY <1>5, <2>1, EmptyTyped DEF Operation, InstallerPCs
  <2> QED
    BY <1>0, <2>1, <2>2, StartKeeps
<1>b. ASSUME NEW x \in Prefixes, RepairLauncher(x) PROVE InstallerInv'
  <2>1. /\ op' = [IdleOp EXCEPT !.pc = "restore", !.at = x]
        /\ UNCHANGED <<source, prefix, codexHooks, ids, events>>
        /\ launcher' \in {"none", "torn", "user"} \cup Prefixes
    BY <1>0, <1>b DEF RepairLauncher
  <2>2. op' \in Operation /\ op'.at = x /\ op'.moved = Empty /\ op'.pc = "restore"
    BY <1>5, <2>1, EmptyTyped DEF Operation, InstallerPCs
  <2> QED
    BY <2>1, <2>2, StartKeeps
<1>c. ASSUME NEW x \in Prefixes, BeginUninstall(x) PROVE InstallerInv'
  <2>1. UNCHANGED <<source, prefix, launcher, codexHooks, ids, events>>
    BY <1>c DEF BeginUninstall
  <2>2. PICK selected \in SUBSET Removable(x) :
            op' = [IdleOp EXCEPT !.pc = IF "hooks" \in selected THEN "unhook" ELSE "runtime",
                                 !.at = x,
                                 !.stage = IF "runtime" \in selected THEN prefix[x].lock.app ELSE NoTree]
    BY <1>c DEF BeginUninstall
  <2>3. prefix[x].lock.app \in Trees
    BY <1>7 DEF Prefix
  <2>4. /\ op' \in Operation /\ op'.at = x /\ op'.moved = Empty /\ op'.pc \in {"unhook", "runtime"}
    BY <1>5, <2>2, <2>3, EmptyTyped DEF Operation, InstallerPCs
  <2> QED
    BY <1>0, <2>1, <2>4, StartKeeps
<1>d. CASE CheckInstall
  BY <1>0, <1>1, <1>4, <1>d, GotoKeeps, FinishKeeps DEF CheckInstall, Replacing, All
<1>e. CASE StageApp
  <2>1. op.pc = "stage" /\ UNCHANGED <<source, prefix, launcher, codexHooks, ids, events>>
    BY <1>e DEF StageApp
  <2>2. CASE Finish
    BY <1>0, <1>1, <2>1, <2>2, FinishKeeps DEF All
  <2>3. CASE source = op.source /\ op' = [op EXCEPT !.pc = "swap", !.stage = source]
    <3>1. /\ op' \in Operation /\ op'.pc = "swap" /\ op'.at = op.at
          /\ op'.source = op.source /\ op'.stage = op.source /\ op'.moved = op.moved
      BY <1>0, <1>5, <2>3 DEF Operation, InstallerPCs
    <3>2. Bound'
      BY <1>3, <2>1, <3>1 DEF Bound, Replacing
    <3> QED
      BY <1>0, <1>1, <2>1, <3>1, <3>2, InstallerKept DEF All
  <2> QED
    BY <1>e, <2>2, <2>3 DEF StageApp, Verified
<1>f. CASE SwapOut
  <2> DEFINE p == [Tear(prefix[op.at]) EXCEPT !.app = NoTree]
  <2>1. /\ op.pc = "swap" /\ UNCHANGED <<source, launcher, codexHooks, ids, events>>
        /\ op' = [op EXCEPT !.pc = "place", !.previous = prefix[op.at].app]
        /\ prefix' = [prefix EXCEPT ![op.at] = p]
    BY <1>3, <1>7, <1>f DEF SwapOut
  <2>2. p \in Prefix /\ p.torn /\ op.at \in Prefixes /\ prefix[op.at].app \in Trees
    BY <1>3, <1>5, <1>7, <2>1 DEF Tear, Prefix
  <2>3. prefix' \in [Prefixes -> Prefix] /\ All /\ prefix'[op.at].torn
    <3> HIDE DEF p
    <3> QED
      BY <1>6, <2>1, <2>2 DEF Recorded
  <2>4. /\ op' \in Operation /\ op'.pc = "place" /\ op'.at = op.at
        /\ op'.source = op.source /\ op'.stage = op.stage /\ op'.moved = op.moved
    BY <1>0, <2>1, <2>2 DEF Operation, InstallerPCs
  <2>5. Bound'
    BY <1>0, <2>1, <2>2, <2>3, <2>4 DEF Bound, Replacing
  <2> QED
    BY <1>0, <2>1, <2>3, <2>4, <2>5, InstallerKept DEF All
<1>g. CASE PlaceApp
  <2>1. op.pc = "place" /\ UNCHANGED <<source, launcher, codexHooks, ids>> /\ op.at \in Prefixes
        /\ prefix[op.at].torn /\ op.stage = op.source
    BY <1>0, <1>g DEF PlaceApp, Bound
  <2>2. ASSUME NEW a \in Trees, prefix' = [prefix EXCEPT ![op.at].app = a]
        PROVE  prefix' \in [Prefixes -> Prefix] /\ All /\ prefix'[op.at].torn /\ prefix'[op.at].app = a
    <3> DEFINE p == [prefix[op.at] EXCEPT !.app = a]
    <3>1. p \in Prefix /\ p.torn /\ p.app = a /\ prefix' = [prefix EXCEPT ![op.at] = p]
      BY <1>0, <1>7, <2>1, <2>2 DEF Prefix
    <3> HIDE DEF p
    <3> QED
      BY <1>6, <2>1, <3>1 DEF Recorded
  <2>3. CASE prefix' = [prefix EXCEPT ![op.at].app = op.stage] /\ Goto("drop") /\ UNCHANGED events
    <3>1. /\ op' \in Operation /\ op'.pc = "drop" /\ op'.at = op.at
          /\ op'.source = op.source /\ op'.stage = op.stage /\ op'.moved = op.moved
      BY <1>0, <1>4, <2>3, GotoDoes
    <3>2. prefix' \in [Prefixes -> Prefix] /\ All /\ prefix'[op.at].torn /\ prefix'[op.at].app = op.stage
      BY <1>3, <2>2, <2>3
    <3>3. Bound'
      BY <2>1, <3>1, <3>2 DEF Bound, Replacing
    <3> QED
      BY <1>0, <2>1, <2>3, <3>1, <3>2, <3>3, InstallerKept DEF All
  <2>4. CASE Event /\ prefix' = [prefix EXCEPT ![op.at].app = op.previous] /\ Finish
    <3>1. prefix' \in [Prefixes -> Prefix] /\ All
      BY <1>3, <2>2, <2>4
    <3> QED
      BY <1>0, <1>2, <2>1, <2>4, <3>1, FinishKeeps DEF All
  <2> QED
    BY <1>g, <2>3, <2>4 DEF PlaceApp
\* The proof assets, and the marker, are written to an installation that counts as broken.
<1>h. ASSUME op.pc \in Replacing, NEW to \in Replacing, Goto(to), NEW p \in Prefix,
             prefix' = [prefix EXCEPT ![op.at] = p], p.torn, p.app = prefix[op.at].app,
             UNCHANGED <<source, launcher, codexHooks, events>>, ids' \in 0 .. MaxIds
      PROVE  InstallerInv'
  <2>1. op.at \in Prefixes /\ op.stage = op.source /\ prefix[op.at].app = op.source /\ op.pc # "idle"
    BY <1>0, <1>h DEF Bound, Replacing
  <2>2. prefix' \in [Prefixes -> Prefix] /\ All /\ prefix'[op.at] = p
    BY <1>6, <1>h, <2>1 DEF Recorded
  <2>3. /\ op' \in Operation /\ op'.pc = to /\ op'.at = op.at
        /\ op'.source = op.source /\ op'.stage = op.stage /\ op'.moved = op.moved
    BY <1>0, <1>h, GotoDoes DEF InstallerPCs
  <2>4. Bound'
    BY <1>h, <2>1, <2>2, <2>3 DEF Bound, Replacing
  <2> QED
    BY <1>0, <1>h, <2>2, <2>3, <2>4, InstallerKept DEF All
<1>8. op.pc \in Replacing => op.at \in Prefixes /\ prefix[op.at].torn /\ op.stage = op.source
                             /\ op.pc # "idle"
  BY <1>0 DEF Bound, Replacing
<1>i. CASE DropProof
  <2> DEFINE p == [prefix[op.at] EXCEPT !.proof = NoTree]
  <2>1. op.pc \in Replacing /\ "proof" \in Replacing
    BY <1>i DEF DropProof, Replacing
  <2>2. p \in Prefix /\ p.torn /\ p.app = prefix[op.at].app /\ prefix' = [prefix EXCEPT ![op.at] = p]
    BY <1>0, <1>5, <1>7, <1>8, <1>i, <2>1 DEF DropProof, Prefix
  <2> HIDE DEF p
  <2> QED
    BY <1>0, <1>h, <1>i, <2>1, <2>2 DEF DropProof
<1>j. CASE CopyProof
  <2> DEFINE p == [prefix[op.at] EXCEPT !.proof = source]
  <2>1. op.pc \in Replacing /\ "launcher" \in Replacing
    BY <1>j DEF CopyProof, Replacing
  <2>2. p \in Prefix /\ p.torn /\ p.app = prefix[op.at].app /\ prefix' = [prefix EXCEPT ![op.at] = p]
    BY <1>0, <1>5, <1>7, <1>8, <1>j, <2>1 DEF CopyProof, Prefix
  <2> HIDE DEF p
  <2> QED
    BY <1>0, <1>h, <1>j, <2>1, <2>2 DEF CopyProof
<1>k. CASE WriteMarker
  <2> DEFINE p == [prefix[op.at] EXCEPT !.marker = [id |-> ids', of |-> op.at]]
  <2>1. op.pc \in Replacing /\ "lock" \in Replacing /\ ids' \in 0 .. MaxIds
    BY <1>0, <1>k DEF WriteMarker, Replacing
  <2>2. p \in Prefix /\ p.torn /\ p.app = prefix[op.at].app /\ prefix' = [prefix EXCEPT ![op.at] = p]
    BY <1>0, <1>5, <1>7, <1>8, <1>k, <2>1 DEF WriteMarker, Prefix, Marker
  <2> HIDE DEF p
  <2> QED
    BY <1>0, <1>h, <1>k, <2>1, <2>2 DEF WriteMarker
<1>l. CASE InstallLock
  <2> DEFINE p == [prefix[op.at] EXCEPT !.torn = FALSE,
                      !.lock = [id |-> prefix[op.at].marker.id, of |-> op.at, app |-> op.source]]
  <2>1. op.pc = "lock" /\ op.pc \in Replacing /\ prefix[op.at].app = op.source
    BY <1>0, <1>l DEF InstallLock, Replacing, Bound
  <2>2. prefix' = [prefix EXCEPT ![op.at] = p]
    BY <1>0, <1>7, <1>8, <1>l, <2>1 DEF InstallLock
  <2>3. p \in Prefix /\ p.app = op.source /\ p.lock.app = op.source
    BY <1>3, <1>5, <1>7, <1>8, <2>1 DEF Prefix, Marker
  <2>4. prefix' \in [Prefixes -> Prefix] /\ All
    <3> HIDE DEF p
    <3> QED
      BY <1>6, <1>8, <2>1, <2>2, <2>3 DEF Recorded
  <2> QED
    BY <1>0, <1>l, <2>4, FinishKeeps DEF InstallLock, All
<1>m. CASE OpenLauncher
  BY <1>0, <1>1, <1>4, <1>8, <1>m, GotoKeeps, FinishKeeps DEF OpenLauncher, Replacing, All
<1>n. CASE WriteLauncher
  BY <1>0, <1>3, <1>4, <1>8, <1>n, GotoKeeps DEF WriteLauncher, Replacing
<1>o. CASE InstallHooks
  BY <1>0, <1>1, <1>2, <1>4, <1>8, <1>o, GotoKeeps, FinishKeeps DEF InstallHooks, Replacing, All
<1>p. CASE SelfTest
  BY <1>0, <1>1, <1>2, <1>4, <1>8, <1>p, GotoKeeps, FinishKeeps DEF SelfTest, Replacing, All
<1>q. CASE RestoreHooks
  BY <1>0, <1>1, <1>q, FinishKeeps DEF RestoreHooks, All
<1>r. CASE RemoveHooks
  BY <1>0, <1>1, <1>4, <1>r, GotoKeeps, FinishKeeps DEF RemoveHooks, Replacing, All
<1>s. CASE RemoveRuntime
  <2>1. op.pc = "runtime" /\ UNCHANGED <<source, launcher, codexHooks, ids, events>> /\ op.at \in Prefixes
    BY <1>3, <1>s DEF RemoveRuntime
  <2>2. CASE Finish /\ UNCHANGED prefix
    BY <1>0, <1>1, <2>1, <2>2, FinishKeeps DEF All
  <2>3. CASE /\ op' = [op EXCEPT !.pc = "files", !.moved = prefix[op.at],
                          !.previous = IF PlannedLauncher(op.at) THEN UserTree ELSE NoTree]
             /\ prefix' = [prefix EXCEPT ![op.at] = Empty]
    <3>1. /\ op' \in Operation /\ op'.pc = "files" /\ op'.at = op.at /\ op'.moved = prefix[op.at]
      BY <1>0, <1>5, <1>7, <2>1, <2>3 DEF Operation, InstallerPCs
    <3>2. prefix' \in [Prefixes -> Prefix] /\ All
      BY <1>6, <2>1, <2>3, EmptyTyped
    <3>3. Bound'
      BY <2>1, <3>1 DEF Bound, Replacing
    <3>4. Recorded(op'.moved)
      BY <1>7, <2>1, <3>1
    <3> QED
      BY <1>0, <2>1, <3>1, <3>2, <3>3, <3>4, InstallerKept DEF All
  <2> QED
    BY <1>s, <2>2, <2>3 DEF RemoveRuntime
<1>t. CASE RemoveLauncher
  <2>1. op.pc = "files" /\ Finish /\ UNCHANGED <<source, codexHooks, ids>> /\ op.at \in Prefixes
    BY <1>3, <1>t DEF RemoveLauncher
  <2>2. launcher' \in {"none", "torn", "user"} \cup Prefixes /\ events' \in 0 .. MaxEvents
    BY <1>0, <1>2, <1>t DEF RemoveLauncher
  <2>3. UNCHANGED prefix \/ prefix' = [prefix EXCEPT ![op.at] = op.moved]
    BY <1>t DEF RemoveLauncher
  <2>4. prefix' \in [Prefixes -> Prefix] /\ All
    BY <1>0, <1>1, <1>3, <1>6, <2>1, <2>3
  <2> QED
    BY <1>0, <2>1, <2>2, <2>4, FinishKeeps DEF All
<1>u. CASE KillInstaller
  BY <1>0, <1>1, <1>2, <1>u, FinishKeeps DEF KillInstaller, All
<1>v. CASE PullSource
  <2>1. source' \in Sources /\ UNCHANGED <<prefix, launcher, codexHooks, op, ids, events>>
    BY <1>0, <1>v DEF PullSource, Sources
  <2>2. Bound'
    BY <1>0, <2>1 DEF Bound
  <2> QED
    BY <1>0, <1>1, <2>1, <2>2, InstallerKept DEF All
<1>w. CASE CopyPrefix
  <2>1. op.pc = "idle" /\ UNCHANGED <<source, launcher, codexHooks, op, ids>> /\ events' \in 0 .. MaxEvents
    BY <1>2, <1>w DEF CopyPrefix
  <2>2. PICK x \in Prefixes, y \in Prefixes : prefix' = [prefix EXCEPT ![y] = prefix[x]]
    BY <1>w DEF CopyPrefix
  <2>3. prefix' \in [Prefixes -> Prefix] /\ All
    BY <1>6, <1>7, <2>2
  <2>4. Bound'
    BY <2>1 DEF Bound, Replacing
  <2> QED
    BY <1>0, <2>1, <2>3, <2>4, InstallerKept DEF All
<1>x. CASE ChangeLauncher
  <2>1. /\ launcher' \in {"none", "torn", "user"} \cup Prefixes /\ events' \in 0 .. MaxEvents
        /\ UNCHANGED <<source, prefix, codexHooks, op, ids>>
    BY <1>2, <1>x DEF ChangeLauncher
  <2>2. Bound'
    BY <1>0, <2>1 DEF Bound
  <2> QED
    BY <1>0, <1>1, <2>1, <2>2, InstallerKept DEF All
<1> QED
  BY <1>a, <1>b, <1>c, <1>d, <1>e, <1>f, <1>g, <1>i, <1>j, <1>k, <1>l, <1>m, <1>n, <1>o, <1>p, <1>q,
     <1>r, <1>s, <1>t, <1>u, <1>v, <1>w, <1>x DEF InstallerNext

\* The invariant of the installer, for any number of prefixes, versions and
\* failures: whatever directory holds a lock, in place, copied or moved away,
\* holds the application the lock records, unless an operation broke off in it.
THEOREM InstallerInvariant == InstallerSpec => []InstallerInv
<1>1. InstallerInit => InstallerInv
  <2> SUFFICES ASSUME InstallerInit PROVE InstallerInv
    OBVIOUS
  <2>1. \A x \in Prefixes : prefix[x] \in {Empty, [Empty EXCEPT !.app = UserTree]}
    BY DEF InstallerInit
  <2>2. [Empty EXCEPT !.app = UserTree] \in Prefix /\ Recorded([Empty EXCEPT !.app = UserTree])
    BY EmptyTyped, InstallerAssumption DEF Prefix, Empty, Marker, NoLock, Recorded
  <2>3. prefix \in [Prefixes -> Prefix] /\ \A x \in Prefixes : Recorded(prefix[x])
    BY <2>1, <2>2, EmptyTyped DEF InstallerInit
  <2>4. op \in Operation /\ op.pc = "idle" /\ Recorded(op.moved)
    BY EmptyTyped DEF InstallerInit
  <2>5. source \in Sources /\ ids \in 0 .. MaxIds /\ events \in 0 .. MaxEvents
    BY InstallerAssumption DEF InstallerInit, Sources
  <2>6. launcher \in {"none", "torn", "user"} \cup Prefixes /\ codexHooks \subseteq {"user", "manageroo"}
    BY DEF InstallerInit
  <2>7. Bound
    BY <2>4 DEF Bound, Replacing
  <2> QED
    BY <2>3, <2>4, <2>5, <2>6, <2>7, InstallerTypesByName DEF InstallerInv
<1>2. InstallerInv /\ [InstallerNext]_installerVars => InstallerInv'
  <2>1. ASSUME InstallerInv, UNCHANGED installerVars PROVE InstallerInv'
    BY <2>1 DEF installerVars, InstallerInv, InstallerTypeOK, Bound, Recorded
  <2> QED
    BY <2>1, InstallerStep
<1> QED
  BY <1>1, <1>2, PTL DEF InstallerSpec

\* An owned installation that no later operation broke off in holds the tree
\* its lock records, whatever was pulled into the source folder meanwhile.
THEOREM InstallationsAsRecorded == InstallerSpec => []InstalledAsRecorded
<1>1. InstallerInv => InstalledAsRecorded
  BY DEF InstallerInv, InstalledAsRecorded, Recorded, Owned, MarkerBound
<1> QED
  BY <1>1, InstallerInvariant, PTL

-----------------------------------------------------------------------------
(* The stack update: who holds the runtime, and what became of a directory. *)

\* The places of a queue and of an update, by the lock they are under.
QueuePCs == {"idle", "checked", "running"}
GatePCs == {"scan", "record", "update"}
RuntimePCs == {"locked", "gate", "verify"} \cup GatePCs
SkillPCs == {"stage", "move", "moved", "place", "clean"}
UpdaterPCs == {"idle", "packages", "enter"} \cup RuntimePCs \cup SkillPCs
QueueRecord == [pc : QueuePCs, gate : Gates, late : BOOLEAN, beside : BOOLEAN]
UpdaterRecord == [pc : UpdaterPCs, planned : Dirs, owned : SUBSET Packages]

\* The types of the two kinds of actors and of what they share.
StackTypes ==
    /\ superviseGate \in Gates /\ migrated \in BOOLEAN /\ acts \in 0 .. MaxActs
    /\ runtimeLock \in Updaters \cup Queues \cup {Nobody} /\ skillLock \in Updaters \cup {Nobody}
    /\ queue \in [Queues -> QueueRecord]
    /\ updater \in [Updaters -> UpdaterRecord]
    /\ skill \in Dirs /\ aside \in [Updaters -> Dirs] /\ kept \subseteq Dirs
    /\ package \in [Packages -> {"manager", "user", "pinned"}]
    /\ orphans \in [Children -> 0 .. MaxActs]

\* Whoever is at a place under a lock holds that lock, and nobody else.
LocksHeld ==
    \A u \in Updaters :
        /\ runtimeLock = u <=> updater[u].pc \in RuntimePCs
        /\ skillLock = u <=> updater[u].pc \in SkillPCs

\* A queue that a gate started runs under the lock of the runtime.
QueuesLocked ==
    \A q \in Queues : queue[q].pc = "running" /\ queue[q].gate # Legacy => runtimeLock = q

\* An update scans and goes on behind a gate, which starts no queue beside it.
GateKept == \A u \in Updaters : updater[u].pc \in GatePCs => superviseGate # Legacy

\* The queues a launcher without a gate started before are seen to be gone.
ScanStands ==
    /\ \A u \in Updaters, q \in Queues : At(u, "record") => queue[q].pc # "running"
    /\ \A u \in Updaters : At(u, "update") => migrated
    /\ migrated => \A q \in Queues : queue[q].pc = "running" => queue[q].late

\* What an update has moved aside is what it planned, or a copy of it is kept.
AsideKept ==
    \A u \in Updaters :
        updater[u].pc \in {"place", "clean"} => aside[u] = updater[u].planned \/ aside[u] \in kept

\* Each orphan is of an update that was killed, and queues beside one that installs
\* packages were started beside it, or by a launcher without a gate.
OrphansKept ==
    /\ \A c \in Children : orphans[c] <= acts
    /\ orphans["update"] > 0 => \A q \in Queues : queue[q].pc = "running" =>
                                   \/ queue[q].gate = Legacy /\ queue[q].late
                                   \/ queue[q].beside

\* The inductive invariant.
StackInv ==
    StackTypes /\ LocksHeld /\ QueuesLocked /\ GateKept /\ ScanStands /\ AsideKept /\ OrphansKept

\* The type invariant of the stack update in these terms.
LEMMA StackTypesEquiv == StackTypeOK <=> StackTypes /\ LocksHeld
  BY DEF StackTypeOK, StackTypes, LocksHeld, QueueRecord, UpdaterRecord, QueuePCs, UpdaterPCs,
         RuntimePCs, SkillPCs, GatePCs

\* An idle updater or queue is one.
LEMMA IdleTyped == IdleQueue \in QueueRecord /\ IdleUpdater \in UpdaterRecord
  BY DEF IdleQueue, IdleUpdater, QueueRecord, UpdaterRecord, QueuePCs, UpdaterPCs, Gates, Dirs

\* What moving an updater on does to the updaters.
LEMMA MoveDoes ==
    ASSUME NEW u \in Updaters, NEW to \in UpdaterPCs, StackTypes, Move(u, to)
    PROVE  /\ updater' \in [Updaters -> UpdaterRecord]
           /\ updater'[u].pc = to /\ updater'[u].planned = updater[u].planned
           /\ \A v \in Updaters \ {u} : updater'[v] = updater[v]
  BY DEF StackTypes, Move, UpdaterRecord

\* What ending an update does to the updaters.
LEMMA DoneDoes ==
    ASSUME NEW u \in Updaters, StackTypes, Done(u)
    PROVE  /\ updater' \in [Updaters -> UpdaterRecord]
           /\ updater'[u].pc = "idle"
           /\ \A v \in Updaters \ {u} : updater'[v] = updater[v]
  BY IdleTyped DEF StackTypes, Done, IdleUpdater

\* What the queue and the updaters of a step are, for a step of a queue.
LEMMA QueueStep ==
    ASSUME StackInv, NEW q \in Queues,
           StartQueue(q) \/ CheckSweep(q) \/ InvokeSweep(q) \/ SweepBusy(q) \/ EndQueue(q)
    PROVE  StackInv'
<1> USE StackAssumption DEF StackInv
<1>1. UNCHANGED <<superviseGate, migrated, updater, skillVars, package, orphans, acts>>
  BY DEF StartQueue, CheckSweep, InvokeSweep, SweepBusy, EndQueue, Launch
<1>2. /\ queue' \in [Queues -> QueueRecord]
      /\ \A r \in Queues \ {q} : queue'[r] = queue[r]
      /\ runtimeLock' \in Updaters \cup Queues \cup {Nobody}
      /\ \/ /\ queue'[q].pc = "running" /\ queue'[q].gate = superviseGate /\ queue'[q].late = migrated
            /\ orphans["update"] > 0 => queue'[q].beside
            /\ IF superviseGate = Legacy THEN UNCHANGED runtimeLock
               ELSE runtimeLock = Nobody /\ runtimeLock' = q
         \/ /\ queue'[q].pc # "running"
            /\ \/ UNCHANGED runtimeLock /\ queue[q].pc # "running"
               \/ /\ queue[q].pc = "running"
                  /\ runtimeLock' = IF runtimeLock = q THEN Nobody ELSE runtimeLock
  <2>1. CASE Launch(q)
    <3>1. (orphans["update"] > 0) \in BOOLEAN
      OBVIOUS
    <3> QED
      BY <2>1, <3>1 DEF Launch, StackTypes, QueueRecord, QueuePCs
  <2>2. CASE CheckSweep(q)
    BY <2>2 DEF CheckSweep, StackTypes, QueueRecord, QueuePCs
  <2>3. CASE SweepBusy(q)
    BY <2>3, IdleTyped DEF SweepBusy, StackTypes, IdleQueue
  <2>4. CASE EndQueue(q)
    BY <2>4, IdleTyped DEF EndQueue, StackTypes, IdleQueue
  <2> QED
    BY <2>1, <2>2, <2>3, <2>4 DEF StartQueue, InvokeSweep
<1>3. StackTypes'
  BY <1>1, <1>2 DEF StackTypes, skillVars
<1>4. LocksHeld'
  BY <1>1, <1>2 DEF LocksHeld, skillVars
<1>5. QueuesLocked'
  BY <1>1, <1>2 DEF QueuesLocked
<1>6. GateKept'
  BY <1>1 DEF GateKept
<1>7. ScanStands'
  <2>1. \A u \in Updaters : updater[u].pc \in GatePCs =>
            runtimeLock = u /\ superviseGate # Legacy
    BY DEF LocksHeld, GateKept, RuntimePCs
  <2> QED
    BY <1>1, <1>2, <2>1 DEF ScanStands, At, GatePCs
<1>8. AsideKept'
  BY <1>1 DEF AsideKept, skillVars
<1>9. OrphansKept'
  BY <1>1, <1>2 DEF OrphansKept
<1> QED
  BY <1>3, <1>4, <1>5, <1>6, <1>7, <1>8, <1>9

\* What a step of an updater u leaves to show: that of the other updaters
\* follows from the locks, which only u takes or gives back.
LEMMA UpdaterStep ==
    ASSUME StackInv, StackTypes', NEW u \in Updaters,
           UNCHANGED queue, OrphansKept',
           \A v \in Updaters \ {u} : updater'[v] = updater[v] /\ aside'[v] = aside[v],
           kept \subseteq kept',
           /\ runtimeLock' = u <=> updater'[u].pc \in RuntimePCs
           /\ runtimeLock' = runtimeLock \/ {runtimeLock, runtimeLock'} = {u, Nobody},
           /\ skillLock' = u <=> updater'[u].pc \in SkillPCs
           /\ skillLock' = skillLock \/ {skillLock, skillLock'} = {u, Nobody},
           superviseGate' = superviseGate \/ updater[u].pc = "gate",
           updater'[u].pc \in GatePCs => superviseGate' # Legacy,
           migrated' = migrated \/ (migrated' = TRUE /\ updater[u].pc = "record"),
           updater'[u].pc = "record" => \A q \in Queues : queue[q].pc # "running",
           updater'[u].pc = "update" => migrated',
           updater'[u].pc \in {"place", "clean"} =>
               aside'[u] = updater'[u].planned \/ aside'[u] \in kept'
    PROVE  StackInv'
<1> USE StackAssumption DEF StackInv
<1>1. LocksHeld'
  <2> SUFFICES ASSUME NEW v \in Updaters, v # u
               PROVE  /\ runtimeLock' = v <=> updater[v].pc \in RuntimePCs
                      /\ skillLock' = v <=> updater[v].pc \in SkillPCs
    BY DEF LocksHeld
  <2> QED
    BY DEF LocksHeld
<1>2. QueuesLocked'
  BY DEF QueuesLocked
<1>3. GateKept'
  <2>1. ASSUME updater[u].pc = "gate" PROVE \A v \in Updaters \ {u} : updater[v].pc \notin GatePCs
    BY <2>1 DEF LocksHeld, RuntimePCs
  <2> QED
    BY <2>1 DEF GateKept
<1>4. ScanStands'
  BY DEF ScanStands, At
<1>5. AsideKept'
  BY DEF AsideKept
<1> QED
  BY <1>1, <1>2, <1>3, <1>4, <1>5

\* A step that leaves queues and orphans alone, whatever it counts.
LEMMA ActsOnly ==
    ASSUME StackInv, UNCHANGED <<queue, orphans>>, acts' = acts \/ acts' = acts + 1
    PROVE  OrphansKept'
<1>1. \A c \in Children : orphans[c] \in Nat /\ orphans[c] <= acts /\ acts \in Nat
  BY DEF StackInv, StackTypes, OrphansKept
<1>2. \A c \in Children : orphans'[c] <= acts'
  BY <1>1
<1> QED
  BY <1>2 DEF StackInv, OrphansKept

\* The update of the supervisor's environment keeps the invariant.
LEMMA RuntimeStep ==
    ASSUME StackInv, NEW u \in Updaters,
           LockRuntime(u) \/ ProbeGate(u) \/ InstallGate(u) \/ VerifyGate(u) \/ ScanQueues(u)
           \/ RecordMigration(u) \/ UpdatePackages(u)
    PROVE  StackInv'
<1> USE StackAssumption
<1>0. StackTypes /\ LocksHeld /\ GateKept /\ ScanStands
  BY DEF StackInv
<1>1. UNCHANGED <<queue, skillVars, package, orphans>>
  BY DEF LockRuntime, ProbeGate, InstallGate, VerifyGate, ScanQueues, RecordMigration, UpdatePackages,
         supervisorVars
<1>6. OrphansKept'
  <2>1. acts' = acts \/ acts' = acts + 1
    BY DEF LockRuntime, ProbeGate, InstallGate, VerifyGate, ScanQueues, RecordMigration, UpdatePackages,
           Act
  <2> QED
    BY <1>1, <2>1, ActsOnly
<1>2. ASSUME NEW to \in UpdaterPCs, Move(u, to), StackTypes', updater[u].pc \notin SkillPCs,
             to \notin SkillPCs,
             runtimeLock' = u <=> to \in RuntimePCs,
             runtimeLock' = runtimeLock \/ {runtimeLock, runtimeLock'} = {u, Nobody},
             superviseGate' = superviseGate \/ updater[u].pc = "gate",
             to \in GatePCs => superviseGate' # Legacy,
             migrated' = migrated \/ (migrated' = TRUE /\ updater[u].pc = "record"),
             to = "record" => \A q \in Queues : queue[q].pc # "running",
             to = "update" => migrated'
      PROVE  StackInv'
  <2>1. updater'[u].pc = to /\ \A v \in Updaters \ {u} : updater'[v] = updater[v]
    BY <1>0, <1>2, MoveDoes
  <2>2. skillLock' = u <=> to \in SkillPCs
    BY <1>0, <1>1, <1>2 DEF LocksHeld, skillVars
  <2>3. UNCHANGED <<aside, kept, skillLock, queue>>
    BY <1>1 DEF skillVars
  <2>4. to \notin {"place", "clean"}
    BY <1>2 DEF SkillPCs
  <2> QED
    BY <1>2, <1>6, <2>1, <2>2, <2>3, <2>4, UpdaterStep
<1>3. ASSUME Release(u), UNCHANGED <<superviseGate, migrated>>, acts' \in 0 .. MaxActs,
             updater[u].pc \in RuntimePCs
      PROVE  StackInv'
  <2>1. /\ updater' \in [Updaters -> UpdaterRecord] /\ updater'[u].pc = "idle"
        /\ \A v \in Updaters \ {u} : updater'[v] = updater[v]
    BY <1>0, <1>3, DoneDoes DEF Release
  <2>2. runtimeLock = u /\ runtimeLock' = Nobody /\ skillLock # u
    BY <1>0, <1>3 DEF Release, LocksHeld, RuntimePCs, SkillPCs, GatePCs
  <2>3. UNCHANGED <<aside, kept, skillLock, queue>>
    BY <1>1 DEF skillVars
  <2>4. StackTypes'
    BY <1>0, <1>1, <1>3, <2>1, <2>2 DEF StackTypes, skillVars
  <2> QED
    BY <1>3, <1>6, <2>1, <2>2, <2>3, <2>4, UpdaterStep DEF RuntimePCs, SkillPCs, GatePCs
<1>4. ASSUME NEW to \in UpdaterPCs, Move(u, to) PROVE updater' \in [Updaters -> UpdaterRecord]
  BY <1>0, <1>4, MoveDoes
<1> DEFINE PCsOf == /\ RuntimePCs \subseteq UpdaterPCs /\ RuntimePCs \cap SkillPCs = {}
                    /\ "idle" \notin RuntimePCs \cup SkillPCs
                    /\ {"locked", "gate", "verify", "scan", "record", "update"} = RuntimePCs
                    /\ GatePCs = {"scan", "record", "update"}
<1>5. PCsOf
  BY DEF UpdaterPCs, RuntimePCs, SkillPCs, GatePCs
<1>a. CASE LockRuntime(u)
  <2>1. /\ Move(u, "locked") /\ runtimeLock = Nobody /\ runtimeLock' = u
        /\ UNCHANGED <<superviseGate, migrated, acts>> /\ updater[u].pc = "idle"
    BY <1>a DEF LockRuntime, At
  <2>2. StackTypes'
    BY <1>0, <1>1, <1>4, <1>5, <2>1 DEF StackTypes, skillVars
  <2> QED
    BY <1>2, <1>5, <2>1, <2>2
<1>b. CASE ProbeGate(u)
  <2> DEFINE to == IF ~GateReady THEN "gate" ELSE IF migrated THEN "update" ELSE "scan"
  <2>1. /\ Move(u, to) /\ UNCHANGED <<superviseGate, migrated, runtimeLock, acts>>
        /\ updater[u].pc = "locked"
    BY <1>b DEF ProbeGate, At, supervisorVars
  <2>2. to \in RuntimePCs /\ (to \in GatePCs => GateReady) /\ to # "record" /\ (to = "update" => migrated)
    BY <1>5
  <2> HIDE DEF to
  <2>3. StackTypes' /\ runtimeLock = u
    BY <1>0, <1>1, <1>4, <1>5, <2>1, <2>2 DEF StackTypes, LocksHeld, skillVars
  <2> QED
    BY <1>2, <1>5, <2>1, <2>2, <2>3 DEF GateReady
<1>c. CASE InstallGate(u)
  <2>1. updater[u].pc = "gate" /\ UNCHANGED migrated
    BY <1>c DEF InstallGate, At
  <2>2. runtimeLock = u
    BY <1>0, <1>5, <2>1 DEF LocksHeld
  <2>3. CASE superviseGate' = BundledGate /\ Move(u, "verify") /\ UNCHANGED <<runtimeLock, acts>>
    <3>1. StackTypes'
      BY <1>0, <1>1, <1>4, <1>5, <2>1, <2>3 DEF StackTypes, skillVars, Gates
    <3> QED
      BY <1>2, <1>5, <2>1, <2>2, <2>3, <3>1
  <2>4. CASE Act /\ Release(u) /\ UNCHANGED superviseGate
    <3>1. acts' \in 0 .. MaxActs
      BY <1>0, <2>4 DEF Act, StackTypes
    <3> QED
      BY <1>3, <1>5, <2>1, <2>4, <3>1
  <2> QED
    BY <1>c, <2>3, <2>4 DEF InstallGate
<1>d. CASE VerifyGate(u)
  <2>1. updater[u].pc = "verify" /\ UNCHANGED <<superviseGate, migrated, acts>>
    BY <1>d DEF VerifyGate, At
  <2>2. runtimeLock = u
    BY <1>0, <1>5, <2>1 DEF LocksHeld
  <2>3. CASE GateReady /\ Move(u, "scan") /\ UNCHANGED runtimeLock
    <3>1. StackTypes'
      BY <1>0, <1>1, <1>4, <1>5, <2>1, <2>3 DEF StackTypes, skillVars
    <3> QED
      BY <1>2, <1>5, <2>1, <2>2, <2>3, <3>1 DEF GateReady
  <2>4. CASE Release(u)
    BY <1>0, <1>3, <1>5, <2>1, <2>4 DEF StackTypes
  <2> QED
    BY <1>d, <2>3, <2>4 DEF VerifyGate
<1>e. CASE ScanQueues(u)
  <2>1. updater[u].pc = "scan" /\ UNCHANGED <<superviseGate, migrated, acts>>
    BY <1>e DEF ScanQueues, At
  <2>2. runtimeLock = u /\ superviseGate # Legacy
    BY <1>0, <1>5, <2>1 DEF LocksHeld, GateKept
  <2>3. CASE ~UpdateBlocked /\ Move(u, "record") /\ UNCHANGED runtimeLock
    <3>1. StackTypes'
      BY <1>0, <1>1, <1>4, <1>5, <2>1, <2>3 DEF StackTypes, skillVars
    <3>2. \A q \in Queues : queue[q].pc # "running"
      BY <2>3 DEF UpdateBlocked
    <3> QED
      BY <1>2, <1>5, <2>1, <2>2, <2>3, <3>1, <3>2
  <2>4. CASE Release(u)
    BY <1>0, <1>3, <1>5, <2>1, <2>4 DEF StackTypes
  <2> QED
    BY <1>e, <2>3, <2>4 DEF ScanQueues
<1>f. CASE RecordMigration(u)
  <2>1. /\ updater[u].pc = "record" /\ UNCHANGED <<superviseGate, runtimeLock, acts>>
        /\ migrated' = TRUE /\ Move(u, "update")
    BY <1>f DEF RecordMigration, At
  <2>2. runtimeLock = u /\ superviseGate # Legacy
    BY <1>0, <1>5, <2>1 DEF LocksHeld, GateKept
  <2>3. StackTypes'
    BY <1>0, <1>1, <1>4, <1>5, <2>1 DEF StackTypes, skillVars
  <2> QED
    BY <1>2, <1>5, <2>1, <2>2, <2>3
<1>g. CASE UpdatePackages(u)
  <2>1. updater[u].pc = "update" /\ UNCHANGED <<superviseGate, migrated, acts>> /\ Release(u)
    BY <1>g DEF UpdatePackages, At
  <2> QED
    BY <1>0, <1>3, <1>5, <2>1 DEF StackTypes
<1> QED
  BY <1>a, <1>b, <1>c, <1>d, <1>e, <1>f, <1>g

\* The replacement of the skill, and the updates of packages, keep it.
LEMMA SkillStepKeeps ==
    ASSUME StackInv, NEW u \in Updaters,
           PlanSkill(u) \/ LockSkill(u) \/ StageSkill(u) \/ MoveAside(u) \/ VerifyMoved(u)
           \/ PlaceSkill(u) \/ CleanAside(u) \/ PlanPackages(u) \/ UpdatePackage(u)
    PROVE  StackInv'
<1> USE StackAssumption
<1>0. StackTypes /\ LocksHeld /\ GateKept /\ ScanStands /\ AsideKept
  BY DEF StackInv
<1>1. UNCHANGED <<supervisorVars, orphans>>
  BY DEF PlanSkill, LockSkill, StageSkill, MoveAside, VerifyMoved, PlaceSkill, CleanAside,
         PlanPackages, UpdatePackage, SkillStep
<1>7. OrphansKept'
  <2>1. acts' = acts \/ acts' = acts + 1
    BY DEF PlanSkill, LockSkill, StageSkill, MoveAside, VerifyMoved, PlaceSkill, CleanAside,
           PlanPackages, UpdatePackage, Act
  <2> QED
    BY <1>1, <2>1, ActsOnly DEF supervisorVars
<1>5. /\ SkillPCs \subseteq UpdaterPCs /\ RuntimePCs \cap SkillPCs = {}
      /\ "idle" \notin RuntimePCs \cup SkillPCs /\ "packages" \notin RuntimePCs \cup SkillPCs
      /\ "enter" \notin RuntimePCs \cup SkillPCs /\ {"idle", "enter", "packages"} \subseteq UpdaterPCs
      /\ {"stage", "move", "moved", "place", "clean"} = SkillPCs
      /\ GatePCs \subseteq RuntimePCs /\ {"record", "update"} \subseteq GatePCs
  BY DEF UpdaterPCs, RuntimePCs, SkillPCs, GatePCs
\* What such a step has to show.
<1>2. ASSUME StackTypes', updater[u].pc \notin RuntimePCs, updater'[u].pc \notin RuntimePCs,
             \A v \in Updaters \ {u} : updater'[v] = updater[v] /\ aside'[v] = aside[v],
             kept \subseteq kept',
             skillLock' = u <=> updater'[u].pc \in SkillPCs,
             skillLock' = skillLock \/ {skillLock, skillLock'} = {u, Nobody},
             updater'[u].pc \in {"place", "clean"} =>
                 aside'[u] = updater'[u].planned \/ aside'[u] \in kept'
      PROVE  StackInv'
  <2>1. runtimeLock' = runtimeLock /\ UNCHANGED <<queue, superviseGate, migrated>>
    BY <1>1 DEF supervisorVars
  <2>2. runtimeLock' = u <=> updater'[u].pc \in RuntimePCs
    BY <1>0, <1>2, <2>1 DEF LocksHeld
  <2> QED
    BY <1>2, <1>5, <1>7, <2>1, <2>2, UpdaterStep
<1>3. ASSUME Leave(u), UNCHANGED package, skill' \in Dirs, aside' \in [Updaters -> Dirs], kept' = kept,
             acts' \in 0 .. MaxActs, updater[u].pc \in SkillPCs,
             \A v \in Updaters \ {u} : aside'[v] = aside[v]
      PROVE  StackInv'
  <2>1. /\ updater' \in [Updaters -> UpdaterRecord] /\ updater'[u].pc = "idle"
        /\ \A v \in Updaters \ {u} : updater'[v] = updater[v]
    BY <1>0, <1>3, DoneDoes DEF Leave
  <2>2. skillLock = u /\ skillLock' = Nobody
    BY <1>0, <1>3 DEF Leave, LocksHeld
  <2>3. StackTypes'
    BY <1>0, <1>1, <1>3, <2>1, <2>2 DEF StackTypes, supervisorVars
  <2> QED
    BY <1>2, <1>3, <1>5, <2>1, <2>2, <2>3
<1>4. PutBack(u) => skill' \in Dirs /\ aside' \in [Updaters -> Dirs]
                    /\ \A v \in Updaters \ {u} : aside'[v] = aside[v]
  BY <1>0 DEF PutBack, StackTypes, Dirs
<1>6. ASSUME NEW to \in SkillPCs, Move(u, to), UNCHANGED package,
             skill' \in Dirs, aside' \in [Updaters -> Dirs], kept \subseteq kept', kept' \subseteq Dirs,
             acts' \in 0 .. MaxActs, updater[u].pc \in SkillPCs, skillLock' = skillLock,
             \A v \in Updaters \ {u} : aside'[v] = aside[v],
             to \in {"place", "clean"} => aside'[u] = updater[u].planned \/ aside'[u] \in kept'
      PROVE  StackInv'
  <2>0. to \in UpdaterPCs
    BY <1>5, <1>6
  <2>1. /\ updater' \in [Updaters -> UpdaterRecord]
        /\ updater'[u].pc = to /\ updater'[u].planned = updater[u].planned
        /\ \A v \in Updaters \ {u} : updater'[v] = updater[v]
    BY <1>0, <1>6, <2>0, MoveDoes
  <2>2. skillLock = u
    BY <1>0, <1>6 DEF LocksHeld
  <2>3. StackTypes'
    BY <1>0, <1>1, <1>6, <2>1, <2>2 DEF StackTypes, supervisorVars
  <2> QED
    BY <1>2, <1>5, <1>6, <2>1, <2>2, <2>3
<1>a. CASE PlanSkill(u)
  <2>1. /\ updater[u].pc = "idle" /\ UNCHANGED <<skillVars, package, acts>>
        /\ updater' = [updater EXCEPT ![u].pc = "enter", ![u].planned = skill]
    BY <1>a DEF PlanSkill, At, SkillStep
  <2>2. /\ updater' \in [Updaters -> UpdaterRecord]
        /\ updater'[u].pc = "enter" /\ \A v \in Updaters \ {u} : updater'[v] = updater[v]
    BY <1>0, <2>1 DEF StackTypes, UpdaterRecord, UpdaterPCs
  <2>3. StackTypes' /\ skillLock # u
    BY <1>0, <1>1, <1>5, <2>1, <2>2 DEF StackTypes, LocksHeld, supervisorVars, skillVars
  <2> QED
    BY <1>2, <1>5, <2>1, <2>2, <2>3 DEF skillVars
<1>b. CASE LockSkill(u)
  <2>1. updater[u].pc = "enter" /\ UNCHANGED <<skill, aside, kept, acts, package>>
    BY <1>b DEF LockSkill, At, SkillStep
  <2>2. CASE skillLock = Nobody /\ skillLock' = u /\ Move(u, "stage")
    <3>1. /\ updater' \in [Updaters -> UpdaterRecord]
          /\ updater'[u].pc = "stage" /\ \A v \in Updaters \ {u} : updater'[v] = updater[v]
      BY <1>0, <1>5, <2>2, MoveDoes
    <3>2. StackTypes'
      BY <1>0, <1>1, <2>1, <2>2, <3>1 DEF StackTypes, supervisorVars
    <3> QED
      BY <1>2, <1>5, <2>1, <2>2, <3>1, <3>2
  <2>3. CASE Done(u) /\ UNCHANGED skillLock
    <3>1. /\ updater' \in [Updaters -> UpdaterRecord]
          /\ updater'[u].pc = "idle" /\ \A v \in Updaters \ {u} : updater'[v] = updater[v]
      BY <1>0, <2>3, DoneDoes
    <3>2. StackTypes' /\ skillLock # u
      BY <1>0, <1>1, <1>5, <2>1, <2>3, <3>1 DEF StackTypes, LocksHeld, supervisorVars
    <3> QED
      BY <1>2, <1>5, <2>1, <2>3, <3>1, <3>2
  <2> QED
    BY <1>b, <2>2, <2>3 DEF LockSkill
<1>c. CASE StageSkill(u)
  <2>1. /\ updater[u].pc = "stage" /\ UNCHANGED <<skill, aside, kept, acts, package>>
        /\ \/ Move(u, "move") /\ UNCHANGED skillLock
           \/ Leave(u)
    BY <1>c DEF StageSkill, At, SkillStep
  <2>2. skill' \in Dirs /\ aside' \in [Updaters -> Dirs] /\ acts' \in 0 .. MaxActs /\ kept' \subseteq Dirs
    BY <1>0, <2>1 DEF StackTypes
  <2>3. CASE Leave(u)
    BY <1>3, <1>5, <2>1, <2>2, <2>3
  <2> QED
    BY <1>6, <1>5, <2>1, <2>2, <2>3
<1>d. CASE MoveAside(u)
  <2>1. /\ updater[u].pc = "move" /\ UNCHANGED <<skillLock, acts, package>>
        /\ kept' = kept \cup {aside[u]} /\ skill' = NoDir
        /\ \/ Move(u, "place") /\ UNCHANGED aside
           \/ Move(u, "moved") /\ aside' = [aside EXCEPT ![u] = skill]
    BY <1>d DEF MoveAside, At, SkillStep
  <2>2. skill' \in Dirs /\ aside' \in [Updaters -> Dirs] /\ acts' \in 0 .. MaxActs /\ kept' \subseteq Dirs
    BY <1>0, <2>1 DEF StackTypes, Dirs
  <2>3. CASE Move(u, "place") /\ UNCHANGED aside
    BY <1>6, <1>5, <2>1, <2>2, <2>3
  <2>4. CASE Move(u, "moved") /\ aside' = [aside EXCEPT ![u] = skill]
    <3>1. \A v \in Updaters \ {u} : aside'[v] = aside[v]
      BY <1>0, <2>4 DEF StackTypes
    <3> QED
      BY <1>6, <1>5, <2>1, <2>2, <2>4, <3>1
  <2> QED
    BY <2>1, <2>3, <2>4
<1>e. CASE VerifyMoved(u)
  <2>1. /\ updater[u].pc = "moved" /\ UNCHANGED <<kept, acts, package>>
    BY <1>e DEF VerifyMoved, At, SkillStep
  <2>2. acts' \in 0 .. MaxActs /\ kept' \subseteq Dirs /\ skill \in Dirs /\ aside \in [Updaters -> Dirs]
    BY <1>0, <2>1 DEF StackTypes
  <2>3. CASE MovedAsPlanned(u) /\ Move(u, "place") /\ UNCHANGED <<skillLock, skill, aside>>
    BY <1>6, <1>5, <2>1, <2>2, <2>3 DEF MovedAsPlanned
  <2>4. CASE PutBack(u) /\ Leave(u)
    BY <1>3, <1>4, <1>5, <2>1, <2>2, <2>4
  <2> QED
    BY <1>e, <2>3, <2>4 DEF VerifyMoved
<1>f. CASE PlaceSkill(u)
  <2>1. updater[u].pc = "place" /\ UNCHANGED <<kept, package>>
    BY <1>f DEF PlaceSkill, At, SkillStep
  <2>2. acts' \in 0 .. MaxActs /\ kept' \subseteq Dirs /\ skill \in Dirs /\ aside \in [Updaters -> Dirs]
    BY <1>0, <1>f, <2>1 DEF StackTypes, PlaceSkill, Act
  <2>3. CASE skill' = u /\ Move(u, "clean") /\ UNCHANGED <<skillLock, aside, acts>>
    <3>1. aside[u] = updater[u].planned \/ aside[u] \in kept
      BY <1>0, <2>1 DEF AsideKept
    <3>2. skill' \in Dirs
      BY <2>3 DEF Dirs
    <3> QED
      BY <1>6, <1>5, <2>1, <2>2, <2>3, <3>1, <3>2
  <2>4. CASE PutBack(u) /\ Leave(u)
    BY <1>3, <1>4, <1>5, <2>1, <2>2, <2>4
  <2> QED
    BY <1>f, <2>3, <2>4 DEF PlaceSkill
<1>g. CASE CleanAside(u)
  <2>1. /\ updater[u].pc = "clean" /\ UNCHANGED <<skill, kept, acts, package>>
        /\ aside' = [aside EXCEPT ![u] = NoDir] /\ Leave(u)
    BY <1>g DEF CleanAside, At, SkillStep
  <2>2. /\ skill' \in Dirs /\ aside' \in [Updaters -> Dirs] /\ acts' \in 0 .. MaxActs
        /\ \A v \in Updaters \ {u} : aside'[v] = aside[v]
    BY <1>0, <2>1 DEF StackTypes, Dirs
  <2> QED
    BY <1>3, <1>5, <2>1, <2>2
<1>h. CASE PlanPackages(u)
  <2>1. updater[u].pc = "idle" /\ UNCHANGED <<skillVars, package, acts>>
    BY <1>h DEF PlanPackages, At
  <2>2. /\ updater' \in [Updaters -> UpdaterRecord]
        /\ updater'[u].pc = "packages" /\ \A v \in Updaters \ {u} : updater'[v] = updater[v]
    BY <1>0, <1>h DEF PlanPackages, StackTypes, UpdaterRecord, UpdaterPCs
  <2>3. StackTypes' /\ skillLock # u
    BY <1>0, <1>1, <1>5, <2>1, <2>2 DEF StackTypes, LocksHeld, supervisorVars, skillVars
  <2> QED
    BY <1>2, <1>5, <2>1, <2>2, <2>3 DEF skillVars
<1>i. CASE UpdatePackage(u)
  <2>1. updater[u].pc = "packages" /\ UNCHANGED <<skillVars, acts>>
    BY <1>i DEF UpdatePackage, At
  <2>2. PICK p \in updater[u].owned :
            /\ package' = [package EXCEPT ![p] = IF @ = "user" THEN @ ELSE "pinned"]
            /\ updater' = IF updater[u].owned = {p} THEN [updater EXCEPT ![u] = IdleUpdater]
                          ELSE [updater EXCEPT ![u].owned = @ \ {p}]
    BY <1>i DEF UpdatePackage
  <2>3. package' \in [Packages -> {"manager", "user", "pinned"}]
    BY <1>0, <2>2 DEF StackTypes, UpdaterRecord
  <2>4. /\ updater' \in [Updaters -> UpdaterRecord]
        /\ updater'[u].pc \in {"idle", "packages"} /\ \A v \in Updaters \ {u} : updater'[v] = updater[v]
    <3>1. CASE updater' = [updater EXCEPT ![u] = IdleUpdater]
      BY <1>0, <3>1, IdleTyped DEF StackTypes, IdleUpdater
    <3>2. CASE updater' = [updater EXCEPT ![u].owned = @ \ {p}]
      BY <1>0, <2>1, <3>2 DEF StackTypes, UpdaterRecord
    <3> QED
      BY <2>2, <3>1, <3>2
  <2>5. StackTypes' /\ skillLock # u
    BY <1>0, <1>1, <1>5, <2>1, <2>3, <2>4 DEF StackTypes, LocksHeld, supervisorVars, skillVars
  <2> QED
    BY <1>2, <1>5, <2>1, <2>4, <2>5 DEF skillVars
<1> QED
  BY <1>a, <1>b, <1>c, <1>d, <1>e, <1>f, <1>g, <1>h, <1>i

\* A killed update gives its locks back, and may leave a child.
LEMMA KillStep ==
    ASSUME StackInv, NEW u \in Updaters, KillUpdater(u)
    PROVE  StackInv'
<1> USE StackAssumption
<1>0. StackTypes /\ LocksHeld /\ QueuesLocked /\ ScanStands /\ OrphansKept
  BY DEF StackInv
<1>1. /\ Done(u) /\ UNCHANGED <<superviseGate, migrated, queue, skill, aside, kept, package>>
      /\ runtimeLock' = IF runtimeLock = u THEN Nobody ELSE runtimeLock
      /\ skillLock' = IF skillLock = u THEN Nobody ELSE skillLock
      /\ acts' = acts + 1 /\ acts' \in 0 .. MaxActs
  BY <1>0 DEF KillUpdater, Act, StackTypes
<1>2. /\ updater' \in [Updaters -> UpdaterRecord] /\ updater'[u].pc = "idle"
      /\ \A v \in Updaters \ {u} : updater'[v] = updater[v]
  BY <1>0, <1>1, DoneDoes
<1>3. orphans' \in [Children -> 0 .. MaxActs] /\ OrphansKept'
  <2>1. CASE UNCHANGED orphans
    BY <1>0, <1>1, <2>1, ActsOnly DEF StackTypes
  <2>2. ASSUME NEW c \in Children, At(u, c), orphans' = [orphans EXCEPT ![c] = @ + 1]
        PROVE  orphans' \in [Children -> 0 .. MaxActs] /\ OrphansKept'
    <3>1. \A d \in Children : orphans[d] \in Nat /\ orphans[d] <= acts /\ acts \in Nat
      BY <1>0 DEF StackTypes, OrphansKept
    <3>2. orphans \in [Children -> 0 .. MaxActs]
      BY <1>0 DEF StackTypes
    <3>3. \A d \in Children : orphans'[d] \in Nat /\ orphans'[d] <= acts'
      BY <1>1, <2>2, <3>1, <3>2
    <3>4. orphans' \in [Children -> 0 .. MaxActs]
      BY <1>1, <2>2, <3>2, <3>3
    <3>5. CASE c = "update"
      <4>1. runtimeLock = u /\ migrated
        BY <1>0, <2>2, <3>5 DEF LocksHeld, ScanStands, At, RuntimePCs, GatePCs
      <4>2. \A q \in Queues : queue[q].pc = "running" => queue[q].gate = Legacy /\ queue[q].late
        BY <1>0, <4>1 DEF QueuesLocked, ScanStands
      <4> QED
        BY <1>1, <3>3, <3>4, <4>2 DEF OrphansKept
    <3>6. CASE c # "update"
      <4>1. orphans'["update"] = orphans["update"]
        BY <2>2, <3>2, <3>6 DEF Children
      <4> QED
        BY <1>0, <1>1, <3>3, <3>4, <4>1 DEF OrphansKept
    <3> QED
      BY <3>5, <3>6
  <2> QED
    BY <2>1, <2>2 DEF KillUpdater
<1>4. StackTypes'
  BY <1>0, <1>1, <1>2, <1>3 DEF StackTypes
<1>5. "idle" \notin RuntimePCs \cup SkillPCs \cup GatePCs
  BY DEF RuntimePCs, SkillPCs, GatePCs
<1> QED
  BY <1>1, <1>2, <1>3, <1>4, <1>5, UpdaterStep

\* An orphan that ends may have replaced the gate by the one that ships.
LEMMA OrphanStep ==
    ASSUME StackInv, NEW c \in Children, OrphanEnds(c)
    PROVE  StackInv'
<1> USE StackAssumption
<1>1. /\ orphans' = [orphans EXCEPT ![c] = @ - 1] /\ orphans[c] > 0
      /\ superviseGate' \in {superviseGate, BundledGate}
      /\ UNCHANGED <<migrated, runtimeLock, queue, updater, skillVars, package, acts>>
  BY DEF OrphanEnds
<1>2. \A d \in Children : orphans[d] \in Nat /\ orphans[d] <= acts /\ acts \in 0 .. MaxActs
  BY DEF StackInv, StackTypes, OrphansKept
<1>3. \A d \in Children : orphans'[d] \in Nat /\ orphans'[d] <= orphans[d] /\ orphans'[d] <= acts
  BY <1>1, <1>2 DEF StackInv, StackTypes
<1>4. orphans' \in [Children -> 0 .. MaxActs]
  BY <1>1, <1>2, <1>3 DEF StackInv, StackTypes
<1>5. StackTypes'
  BY <1>1, <1>4 DEF StackInv, StackTypes, skillVars, Gates
<1>6. OrphansKept'
  <2>1. orphans'["update"] > 0 => orphans["update"] > 0
    BY <1>2, <1>3 DEF Children
  <2> QED
    BY <1>1, <1>3, <2>1 DEF StackInv, OrphansKept
<1>7. GateKept'
  BY <1>1 DEF StackInv, GateKept
<1> QED
  BY <1>1, <1>5, <1>6, <1>7 DEF StackInv, LocksHeld, QueuesLocked, ScanStands, AsideKept, At, skillVars

\* The invariant of the stack update, for any number of updates, queues and
\* packages: under its lock and behind a gate, an update has no queue beside it
\* but those a launcher without a gate started later; and what it has moved
\* aside is what it planned to replace (stack_update.py, supervisor_gate.py).
THEOREM StackInvariant == StackSpec => []StackInv
<1> USE StackAssumption
<1>1. StackInit => StackInv
  <2> SUFFICES ASSUME StackInit PROVE StackInv
    OBVIOUS
  <2>1. StackTypes
    <3>1. queue \in [Queues -> QueueRecord] /\ updater \in [Updaters -> UpdaterRecord]
      BY IdleTyped DEF StackInit
    <3>2. skill \in Dirs /\ aside \in [Updaters -> Dirs] /\ kept \subseteq Dirs
      BY DEF StackInit, Dirs
    <3>3. package \in [Packages -> {"manager", "user", "pinned"}]
      BY DEF StackInit
    <3>4. superviseGate \in Gates /\ acts = 0 /\ runtimeLock = Nobody /\ skillLock = Nobody
      BY DEF StackInit
    <3>5. migrated \in BOOLEAN
      BY DEF StackInit
    <3>6. orphans \in [Children -> 0 .. MaxActs]
      BY DEF StackInit
    <3> QED
      BY <3>1, <3>2, <3>3, <3>4, <3>5, <3>6 DEF StackTypes
  <2>2. \A u \in Updaters : updater[u].pc = "idle"
    BY DEF StackInit, IdleUpdater
  <2>3. \A q \in Queues : queue[q].pc = "idle"
    BY DEF StackInit, IdleQueue
  <2>4. OrphansKept
    BY DEF StackInit, OrphansKept, Children
  <2> QED
    BY <2>1, <2>2, <2>3, <2>4 DEF StackInit, StackInv, LocksHeld, QueuesLocked, GateKept, ScanStands,
       AsideKept, At, RuntimePCs, SkillPCs, GatePCs
<1>2. StackInv /\ [StackNext]_stackVars => StackInv'
  <2> SUFFICES ASSUME StackInv, [StackNext]_stackVars PROVE StackInv'
    OBVIOUS
  <2>1. CASE UNCHANGED stackVars
    BY <2>1 DEF stackVars, supervisorVars, skillVars, StackInv, StackTypes, LocksHeld, QueuesLocked,
       GateKept, ScanStands, AsideKept, OrphansKept, At
  <2>2. ASSUME NEW q \in Queues,
               StartQueue(q) \/ CheckSweep(q) \/ InvokeSweep(q) \/ SweepBusy(q) \/ EndQueue(q)
        PROVE  StackInv'
    BY <2>2, QueueStep
  <2>3. ASSUME NEW u \in Updaters,
               \/ LockRuntime(u) \/ ProbeGate(u) \/ InstallGate(u) \/ VerifyGate(u) \/ ScanQueues(u)
               \/ RecordMigration(u) \/ UpdatePackages(u)
        PROVE  StackInv'
    BY <2>3, RuntimeStep
  <2>4. ASSUME NEW u \in Updaters,
               \/ PlanSkill(u) \/ LockSkill(u) \/ StageSkill(u) \/ MoveAside(u) \/ VerifyMoved(u)
               \/ PlaceSkill(u) \/ CleanAside(u) \/ PlanPackages(u) \/ UpdatePackage(u)
        PROVE  StackInv'
    BY <2>4, SkillStepKeeps
  <2>5. ASSUME NEW u \in Updaters, KillUpdater(u) PROVE StackInv'
    BY <2>5, KillStep
  <2>6. CASE InstallSupervisor
    <3>1. /\ superviseGate' \in Gates /\ acts' \in 0 .. MaxActs
          /\ \A u \in Updaters : updater[u].pc = "idle"
          /\ UNCHANGED <<migrated, runtimeLock, queue, updater, skillVars, package, orphans>>
          /\ acts' = acts + 1
      BY <2>6 DEF InstallSupervisor, Act, At, StackInv, StackTypes, Gates
    <3>4. OrphansKept'
      BY <3>1, ActsOnly
    <3>2. StackTypes'
      BY <3>1 DEF StackInv, StackTypes, skillVars
    <3>3. GateKept'
      BY <3>1 DEF GateKept, GatePCs
    <3> QED
      BY <3>1, <3>2, <3>3, <3>4 DEF StackInv, LocksHeld, QueuesLocked, ScanStands, AsideKept, At, skillVars
  <2>7. CASE UserMovesSkill
    <3>1. /\ skill' \in Dirs /\ acts' \in 0 .. MaxActs
          /\ UNCHANGED <<supervisorVars, updater, skillLock, aside, kept, package, orphans>>
          /\ acts' = acts + 1
      BY <2>7 DEF UserMovesSkill, Act, StackInv, StackTypes, Dirs
    <3>3. OrphansKept'
      BY <3>1, ActsOnly DEF supervisorVars
    <3>2. StackTypes'
      BY <3>1 DEF StackInv, StackTypes, supervisorVars
    <3> QED
      BY <3>1, <3>2, <3>3 DEF StackInv, LocksHeld, QueuesLocked, GateKept, ScanStands, AsideKept,
         At, supervisorVars
  <2>8. ASSUME NEW c \in Children, OrphanEnds(c) PROVE StackInv'
    BY <2>8, OrphanStep
  <2> QED
    BY <2>1, <2>2, <2>3, <2>4, <2>5, <2>6, <2>7, <2>8 DEF StackNext
<1> QED
  BY <1>1, <1>2, PTL DEF StackSpec

\* Type correctness of the stack update.
THEOREM StackTypeCorrect == StackSpec => []StackTypeOK
<1>1. StackInv => StackTypeOK
  BY StackTypesEquiv DEF StackInv
<1> QED
  BY <1>1, StackInvariant, PTL

\* The supervisor's packages never change under a queue, except one that a
\* launcher without a gate, put back after the migration, started; and those that
\* a killed update leaves to install change under none but such a queue and those
\* started since.
THEOREM StackExcludesQueues == StackSpec => []UpdateExcludesQueues
<1>1. StackInv => UpdateExcludesQueues
  <2> SUFFICES ASSUME StackInv, NEW u \in Updaters, NEW q \in Queues,
                      updater[u].pc = "update", queue[q].pc = "running"
               PROVE  queue[q].gate = Legacy /\ queue[q].late
    BY DEF UpdateExcludesQueues, StackInv, OrphansKept, At
  <2>1. runtimeLock = u /\ migrated
    BY DEF StackInv, LocksHeld, ScanStands, At, RuntimePCs, GatePCs
  <2> QED
    BY <2>1, StackAssumption DEF StackInv, QueuesLocked, ScanStands
<1> QED
  BY <1>1, StackInvariant, PTL

\* A directory leaves the disk only by the update that planned to replace it
\* and put its own in its place.
THEOREM StackReplacesAsPlanned == StackSpec => ReplacedAsPlanned
<1> DEFINE Planned(d) == d = NoDir \/ \E u \in Updaters : At(u, "clean") /\ d = updater[u].planned
<1>1. ASSUME StackInv, [StackNext]_stackVars
      PROVE  \A d \in Held \ Held' : updater' # updater => Planned(d)
  <2>1. SUFFICES ASSUME StackNext, updater' # updater PROVE \A d \in Held \ Held' : Planned(d)
    BY <1>1 DEF stackVars
  <2>2. ASSUME UNCHANGED <<skill, aside, kept>> PROVE Held' = Held
    BY <2>2 DEF Held
  <2>3. ASSUME NEW u \in Updaters, PutBack(u), UNCHANGED kept PROVE Held \ Held' \subseteq {NoDir}
    BY <1>1, <2>3 DEF PutBack, Held, StackInv, StackTypes
  <2>4. ASSUME NEW u \in Updaters, MoveAside(u) PROVE Held \ Held' \subseteq {NoDir}
    <3>1. skill' = NoDir /\ kept' = kept \cup {aside[u]} /\ aside \in [Updaters -> Dirs]
      BY <1>1, <2>4 DEF MoveAside, StackInv, StackTypes
    <3>2. CASE skill = NoDir /\ UNCHANGED aside
      BY <3>1, <3>2 DEF Held
    <3>3. CASE aside' = [aside EXCEPT ![u] = skill]
      BY <3>1, <3>3 DEF Held
    <3> QED
      BY <2>4, <3>2, <3>3 DEF MoveAside
  <2>5. ASSUME NEW u \in Updaters, VerifyMoved(u) PROVE Held \ Held' \subseteq {NoDir}
    BY <2>2, <2>3, <2>5 DEF VerifyMoved
  <2>6. ASSUME NEW u \in Updaters, PlaceSkill(u) PROVE Held \ Held' \subseteq {NoDir}
    <3>1. CASE skill = NoDir /\ UNCHANGED <<aside, kept>>
      BY <3>1 DEF Held
    <3> QED
      BY <2>3, <2>6, <3>1 DEF PlaceSkill
  <2>7. ASSUME NEW u \in Updaters, CleanAside(u) PROVE \A d \in Held \ Held' : Planned(d)
    <3>1. /\ aside' = [aside EXCEPT ![u] = NoDir] /\ UNCHANGED <<skill, kept>>
          /\ aside \in [Updaters -> Dirs] /\ At(u, "clean")
          /\ aside[u] = updater[u].planned \/ aside[u] \in kept
      BY <1>1, <2>7 DEF CleanAside, At, StackInv, StackTypes, AsideKept
    <3> QED
      BY <3>1 DEF Held
  <2>8. ASSUME NEW u \in Updaters,
               \/ LockRuntime(u) \/ ProbeGate(u) \/ InstallGate(u) \/ VerifyGate(u) \/ ScanQueues(u)
               \/ RecordMigration(u) \/ UpdatePackages(u) \/ PlanSkill(u) \/ LockSkill(u)
               \/ StageSkill(u) \/ PlanPackages(u) \/ UpdatePackage(u) \/ KillUpdater(u)
        PROVE  Held' = Held
    BY <2>2, <2>8 DEF LockRuntime, ProbeGate, InstallGate, VerifyGate, ScanQueues, RecordMigration,
       UpdatePackages, PlanSkill, LockSkill, StageSkill, PlanPackages, UpdatePackage, KillUpdater,
       skillVars
  <2>9. \A q \in Queues :
            ~(StartQueue(q) \/ CheckSweep(q) \/ InvokeSweep(q) \/ SweepBusy(q) \/ EndQueue(q))
    BY <2>1 DEF StartQueue, CheckSweep, InvokeSweep, SweepBusy, EndQueue, Launch
  <2>10. ~InstallSupervisor /\ ~UserMovesSkill
    BY <2>1 DEF InstallSupervisor, UserMovesSkill
  <2>11. \A c \in Children : ~OrphanEnds(c)
    BY <2>1 DEF OrphanEnds
  <2> QED
    BY <2>1, <2>4, <2>5, <2>6, <2>7, <2>8, <2>9, <2>10, <2>11 DEF StackNext
<1> QED
  BY <1>1, StackInvariant, PTL DEF StackSpec, ReplacedAsPlanned

-----------------------------------------------------------------------------
(* The project files: what a command read under a lock is what is there.  *)

\* The commands by the file they write, and the record of one.
FileKinds == {"init", "agent", "check", "integrate", "note", "save", "apply"}
Kinds == FileKinds \cup {"capture", "read"}
CommandPCs == {"idle", "look", "compare", "open", "wait"} \cup Inside
Arguments == Presets \cup GateIds \cup Notes
             \cup {"installed", "run", "approve", "new", "force", "intent", NoCommand}
CommandRecord == [pc : CommandPCs, kind : Kinds, arg : Arguments, at : Targets,
                  fd : [Targets -> Inodes \cup {0}], seen : Projects,
                  gen : Generations, before : Generations]
Capturing == {"json", "markdown", "undo"}
ConfigKinds == {"agent", "check", "integrate"}

\* The types of the files, the locks and the bounds.
FileTypes ==
    /\ project \in Projects /\ reported \in Projects
    /\ intent \in [json : Generations, markdown : Generations]
    /\ captured \cup answered \subseteq Generations
    /\ lockFile \in [Targets -> Inodes \cup {0}]
    /\ holder \in [Targets -> [Inodes -> Commands \cup {NoCommand}]]
    /\ raced \in BOOLEAN /\ starts \in Nat /\ touches \in Nat

\* A command that applies a card holds the card's lock while it is at the memory.
Applying(r) == r.kind = "apply" /\ r.at = "memory"
Holds(r, f) == (r.pc \in Inside /\ f = r.at) \/ (Applying(r) /\ f = "card")

\* What a command is at its place: which commands come here, at which file, and
\* with which lock file open.
CommandOf(r) ==
    /\ r.pc # "idle" => r.arg \in ArgumentsOf[r.kind]
    /\ r.at = TargetOf[r.kind] \/ Applying(r)
    /\ r.pc = "look" => r.kind \in {"apply", "read"}
    /\ r.pc = "compare" => r.kind = "read" /\ r.gen # 0
    /\ r.pc = "reread" => r.kind \in {"check", "integrate"}
    /\ r.pc = "write" => r.kind \in FileKinds
    /\ r.pc \in Capturing => r.kind = "capture"
    /\ r.pc \in {"wait"} \cup Inside => r.fd[r.at] \in Inodes
    /\ Applying(r) => r.pc \in {"open", "wait", "read", "write"} /\ r.fd["card"] \in Inodes

\* A configuration stays one once the project has it.
ConfigOf(r) ==
    /\ r.pc = "reread" => project.config # NoConfig
    /\ r.pc = "write" /\ r.kind \in ConfigKinds => project.config # NoConfig /\ r.seen.config # NoConfig

\* A lock a command holds is locked by it.
LocksOf(c) == \A f \in Targets : Holds(command[c], f) => holder[f][command[c].fd[f]] = c

\* What holds while the user kept away: the lock file a command holds is the
\* one in place, and what it read under the lock is what is there.
LockedThere(r) == \A f \in Targets : Holds(r, f) => lockFile[f] = r.fd[f]
SeenThere(r) ==
    /\ r.pc = "write" => r.seen[r.at] = project[r.at]
    /\ Applying(r) => r.seen.card = project.card
BeforeStands(r) == r.pc \in Capturing => r.before \in captured \cup {0}

\* Between its two files, the intent is that of the capture under way.
JsonStands ==
    \/ intent.json \in captured \cup {0}
    \/ \E c \in Commands : command[c].pc \in {"markdown", "undo"} /\ intent.json = command[c].gen

\* What holds while the user kept away from files and caches under a command.
Undisturbed ==
    /\ project = reported
    /\ answered \subseteq captured /\ intent.markdown \in captured \cup {0} /\ JsonStands
    /\ \A c \in Commands :
          LockedThere(command[c]) /\ SeenThere(command[c]) /\ BeforeStands(command[c])

\* The inductive invariant.
ProjectInv ==
    /\ FileTypes /\ command \in [Commands -> CommandRecord]
    /\ project.config # NoConfig <=> reported.config # NoConfig
    /\ \A c \in Commands : CommandOf(command[c]) /\ ConfigOf(command[c]) /\ LocksOf(c)
    /\ ~raced => Undisturbed

\* Only one command holds a file's lock, while the user kept away.
LEMMA HoldsAlone ==
    ASSUME ProjectInv, ~raced, NEW c \in Commands, NEW d \in Commands, NEW f \in Targets,
           Holds(command[c], f), Holds(command[d], f)
    PROVE  c = d
  BY DEF ProjectInv, Undisturbed, LockedThere, LocksOf

\* A new lock file has an inode that no command has open.
LEMMA FreshInode ==
    ASSUME command \in [Commands -> CommandRecord], NEW f \in Targets
    PROVE  (CHOOSE i \in Inodes : i \notin Opened(f)) \in Inodes
<1> DEFINE open == [c \in Commands |-> command[c].fd[f]]
<1>1. open \in Surjection(Commands, Opened(f))
  BY DEF Surjection, Opened
<1>2. IsFiniteSet(Opened(f)) /\ Cardinality(Opened(f)) <= Cardinality(Commands)
  BY <1>1, FS_Surjection, ProjectFilesAssumption
<1>3. Cardinality(Commands) \in Nat /\ Cardinality(Opened(f)) \in Nat
  BY <1>2, FS_CardinalityType, ProjectFilesAssumption
<1>4. IsFiniteSet(Inodes) /\ Cardinality(Inodes) = Cardinality(Commands) + 1
  <2> DEFINE last == Cardinality(Commands) + 1
  <2>1. last \in Nat /\ last >= 1
    BY <1>3
  <2> HIDE DEF last
  <2>2. IsFiniteSet(1 .. last) /\ Cardinality(1 .. last) = last
    BY <2>1, FS_Interval
  <2> QED
    BY <2>2 DEF last, Inodes
<1>5. ~(Inodes \subseteq Opened(f))
  BY <1>2, <1>3, <1>4, FS_Subset
<1> QED
  BY <1>5

\* The idle command, and what a command that leaves leaves behind.
LEMMA IdleIs ==
    /\ IdleCommand \in CommandRecord /\ IdleCommand.pc = "idle"
    /\ CommandOf(IdleCommand) /\ ~Applying(IdleCommand)
    /\ \A f \in Targets : ~Holds(IdleCommand, f)
    /\ Blank \in Projects /\ 0 \in Generations
<1>1. 0 \in Generations
  BY ProjectFilesAssumption DEF Generations
<1>2. Blank \in Projects
  BY DEF Blank, Projects, NoConfig, Template, NoCard
<1>3. IdleCommand \in CommandRecord
  BY <1>1, <1>2 DEF IdleCommand, CommandRecord, CommandPCs, Kinds, FileKinds, Arguments, Targets
<1>4. CommandOf(IdleCommand) /\ ~Applying(IdleCommand) /\ IdleCommand.pc = "idle"
  BY DEF CommandOf, Applying, IdleCommand, Inside, Capturing, TargetOf
<1> QED
  BY <1>1, <1>2, <1>3, <1>4 DEF Holds, Inside

\* What freeing locks does.
LEMMA FreeDoes ==
    ASSUME holder \in [Targets -> [Inodes -> Commands \cup {NoCommand}]], NEW c \in Commands, NEW fs
    PROVE  /\ FreeOf(c, fs) \in [Targets -> [Inodes -> Commands \cup {NoCommand}]]
           /\ \A f \in Targets, i \in Inodes : holder[f][i] # c => FreeOf(c, fs)[f][i] = holder[f][i]
           /\ \A f \in Targets \ fs : FreeOf(c, fs)[f] = holder[f]
  BY DEF FreeOf

\* What a command that leaves changes.
LEMMA LeaveDoes ==
    ASSUME ProjectInv, NEW c \in Commands, Leaves(c)
    PROVE  /\ command' \in [Commands -> CommandRecord] /\ command'[c] = IdleCommand
           /\ \A d \in Commands \ {c} : command'[d] = command[d]
           /\ holder' \in [Targets -> [Inodes -> Commands \cup {NoCommand}]]
           /\ \A f \in Targets, i \in Inodes : holder[f][i] # c => holder'[f][i] = holder[f][i]
<1>1. holder \in [Targets -> [Inodes -> Commands \cup {NoCommand}]] /\ command \in [Commands -> CommandRecord]
  BY DEF ProjectInv, FileTypes
<1> QED
  BY <1>1, FreeDoes, IdleIs DEF Leaves

\* What a command's step has to show of itself: the other commands keep their
\* locks, and what they read under them, as only the holder changes a file.
LEMMA CommandStep ==
    ASSUME ProjectInv, FileTypes', NEW c \in Commands,
           command' \in [Commands -> CommandRecord],
           \A d \in Commands \ {c} : command'[d] = command[d],
           raced' = raced, captured \subseteq captured',
           \A f \in Targets, i \in Inodes : \A d \in Commands \ {c} :
               holder[f][i] = d => holder'[f][i] = d,
           \A f \in Targets : lockFile'[f] = lockFile[f] \/ lockFile[f] = 0,
           \A f \in {"config", "memory", "card"} : project'[f] = project[f] \/ Holds(command[c], f),
           project.config # NoConfig => project'.config # NoConfig,
           project'.config # NoConfig <=> reported'.config # NoConfig,
           CommandOf(command'[c]), ConfigOf(command[c])', LocksOf(c)',
           ~raced => /\ project' = reported' /\ answered' \subseteq captured'
                     /\ intent'.markdown \in captured' \cup {0} /\ JsonStands'
                     /\ LockedThere(command[c])' /\ SeenThere(command[c])'
                     /\ BeforeStands(command[c])'
    PROVE  ProjectInv'
<1>0. /\ FileTypes /\ command \in [Commands -> CommandRecord]
      /\ \A d \in Commands : CommandOf(command[d]) /\ ConfigOf(command[d]) /\ LocksOf(d)
      /\ ~raced => Undisturbed
  BY DEF ProjectInv
<1>1. \A d \in Commands : CommandOf(command'[d])
  BY <1>0
<1>2. \A d \in Commands : ConfigOf(command[d])'
  <2>1. ASSUME NEW d \in Commands, d # c PROVE ConfigOf(command[d])'
    BY <1>0, <2>1 DEF ConfigOf
  <2> QED
    BY <2>1
<1>3. \A d \in Commands, f \in Targets : Holds(command[d], f) => command[d].fd[f] \in Inodes
  BY <1>0 DEF Holds, CommandOf
<1>4. \A d \in Commands : LocksOf(d)'
  <2>1. ASSUME NEW d \in Commands, d # c PROVE LocksOf(d)'
    BY <1>0, <1>3, <2>1 DEF LocksOf
  <2> QED
    BY <2>1
<1>5. ASSUME ~raced PROVE \A d \in Commands : /\ LockedThere(command[d])' /\ SeenThere(command[d])'
                                              /\ BeforeStands(command[d])'
  <2>1. ASSUME NEW d \in Commands, d # c
        PROVE  LockedThere(command[d])' /\ SeenThere(command[d])' /\ BeforeStands(command[d])'
    <3>0. command'[d] = command[d] /\ LockedThere(command[d]) /\ SeenThere(command[d])
          /\ BeforeStands(command[d])
      BY <1>0, <1>5, <2>1 DEF Undisturbed
    <3>1. LockedThere(command[d])'
      <4>1. \A f \in Targets : Holds(command[d], f) => lockFile[f] # 0
        BY <1>3, <3>0 DEF LockedThere, Inodes
      <4> QED
        BY <3>0, <4>1 DEF LockedThere
    <3>2. \A f \in {"config", "memory", "card"} : Holds(command[d], f) => project'[f] = project[f]
      BY <1>5, <2>1, HoldsAlone DEF Targets
    <3>3. SeenThere(command[d])'
      <4>1. CommandOf(command[d])
        BY <1>0
      <4>2. command[d].pc = "write" => /\ Holds(command[d], command[d].at)
                                       /\ command[d].at \in {"config", "memory", "card"}
        BY <4>1 DEF CommandOf, Holds, Inside, FileKinds, TargetOf, Applying
      <4>3. Applying(command[d]) => Holds(command[d], "card")
        BY DEF Holds
      <4> QED
        BY <3>0, <3>2, <4>2, <4>3 DEF SeenThere
    <3>4. BeforeStands(command[d])'
      BY <3>0 DEF BeforeStands
    <3> QED
      BY <3>1, <3>3, <3>4
  <2> QED
    BY <1>5, <2>1
<1>6. ~raced' => Undisturbed'
  BY <1>5 DEF Undisturbed
<1> QED
  BY <1>1, <1>2, <1>4, <1>6 DEF ProjectInv

\* The intent between two steps that do not place it.
LEMMA JsonKept ==
    ASSUME JsonStands, NEW c \in Commands, command[c].pc \notin {"markdown", "undo"},
           \A d \in Commands \ {c} : command'[d] = command[d],
           intent'.json = intent.json, captured \subseteq captured'
    PROVE  JsonStands'
<1>1. CASE intent.json \in captured \cup {0}
  BY <1>1 DEF JsonStands
<1>2. ASSUME NEW d \in Commands, command[d].pc \in {"markdown", "undo"}, intent.json = command[d].gen
      PROVE  JsonStands'
  <2>1. d # c
    BY <1>2
  <2> QED
    BY <1>2, <2>1 DEF JsonStands
<1> QED
  BY <1>1, <1>2 DEF JsonStands

\* A command that leaves without having touched a file.
LEMMA LeaveKeeps ==
    ASSUME ProjectInv, NEW c \in Commands, Leaves(c),
           UNCHANGED <<project, reported, answered, lockFile, raced, starts, touches>>,
           intent' \in [json : Generations, markdown : Generations],
           captured' \subseteq Generations, captured \subseteq captured',
           ~raced => intent'.markdown \in captured' \cup {0} /\ JsonStands'
    PROVE  ProjectInv'
<1>1. /\ command' \in [Commands -> CommandRecord] /\ command'[c] = IdleCommand
      /\ \A d \in Commands \ {c} : command'[d] = command[d]
      /\ holder' \in [Targets -> [Inodes -> Commands \cup {NoCommand}]]
      /\ \A f \in Targets, i \in Inodes : holder[f][i] # c => holder'[f][i] = holder[f][i]
  BY LeaveDoes
<1>2. FileTypes'
  BY <1>1 DEF ProjectInv, FileTypes
<1>3. ConfigOf(command[c])' /\ LocksOf(c)' /\ LockedThere(command[c])' /\ SeenThere(command[c])'
      /\ BeforeStands(command[c])'
  BY <1>1, IdleIs DEF ConfigOf, LocksOf, LockedThere, SeenThere, BeforeStands, Capturing
<1>4. ~raced => project' = reported' /\ answered' \subseteq captured'
  BY DEF ProjectInv, Undisturbed
<1>5. project'.config # NoConfig <=> reported'.config # NoConfig
  BY DEF ProjectInv
<1> QED
  BY <1>1, <1>2, <1>3, <1>4, <1>5, IdleIs, CommandStep

\* A command that leaves, and is not between the two files of the intent.
LEMMA LeaveEarly ==
    ASSUME ProjectInv, NEW c \in Commands, Leaves(c), command[c].pc \notin {"markdown", "undo"},
           UNCHANGED <<project, reported, intent, captured, answered, lockFile, raced, starts, touches>>
    PROVE  ProjectInv'
<1>1. \A d \in Commands \ {c} : command'[d] = command[d]
  BY LeaveDoes
<1>2. ~raced => intent'.markdown \in captured' \cup {0} /\ JsonStands'
  BY <1>1, JsonKept DEF ProjectInv, Undisturbed
<1>3. intent' \in [json : Generations, markdown : Generations] /\ captured' \subseteq Generations
  BY DEF ProjectInv, FileTypes
<1> QED
  BY <1>2, <1>3, LeaveKeeps

\* A step that changes nothing but the command's own record.
LEMMA RecordStep ==
    ASSUME ProjectInv, NEW c \in Commands, NEW n \in CommandRecord,
           command' = [command EXCEPT ![c] = n],
           UNCHANGED <<project, reported, intent, captured, answered, lockFile, holder, raced, touches>>,
           starts' \in Nat, command[c].pc \notin {"markdown", "undo"},
           CommandOf(n), ConfigOf(n),
           \A f \in Targets : Holds(n, f) => Holds(command[c], f) /\ n.fd[f] = command[c].fd[f],
           ~raced => SeenThere(n) /\ BeforeStands(n)
    PROVE  ProjectInv'
<1>1. /\ command' \in [Commands -> CommandRecord] /\ command'[c] = n
      /\ \A d \in Commands \ {c} : command'[d] = command[d]
  BY DEF ProjectInv
<1>2. FileTypes'
  BY DEF ProjectInv, FileTypes
<1>3. ConfigOf(command[c])' /\ LocksOf(c)'
  BY <1>1 DEF ProjectInv, ConfigOf, LocksOf
<1>4. ~raced => LockedThere(command[c])' /\ SeenThere(command[c])' /\ BeforeStands(command[c])'
  BY <1>1 DEF ProjectInv, Undisturbed, LockedThere, SeenThere, BeforeStands
<1>5. ~raced => /\ project' = reported' /\ answered' \subseteq captured'
                /\ intent'.markdown \in captured' \cup {0} /\ JsonStands'
  BY <1>1, JsonKept DEF ProjectInv, Undisturbed
<1>6. project'.config # NoConfig <=> reported'.config # NoConfig
  BY DEF ProjectInv
<1> QED
  BY <1>1, <1>2, <1>3, <1>4, <1>5, <1>6, CommandStep

\* The parts of a command's record, as the invariant gives them.
LEMMA RecordIs ==
    ASSUME ProjectInv, NEW c \in Commands
    PROVE  /\ command[c] \in CommandRecord /\ CommandOf(command[c]) /\ ConfigOf(command[c]) /\ LocksOf(c)
           /\ command[c].at \in Targets /\ command[c].kind \in Kinds /\ command[c].pc \in CommandPCs
           /\ command[c].gen \in Generations /\ command[c].before \in Generations
           /\ command[c].seen \in Projects /\ command[c].fd \in [Targets -> Inodes \cup {0}]
           /\ ~raced => Undisturbed /\ LockedThere(command[c]) /\ SeenThere(command[c])
                        /\ BeforeStands(command[c])
<1>1. command[c] \in CommandRecord
  BY DEF ProjectInv
<1>2. CommandOf(command[c]) /\ ConfigOf(command[c]) /\ LocksOf(c)
  BY DEF ProjectInv
<1>3. ~raced => Undisturbed /\ LockedThere(command[c]) /\ SeenThere(command[c])
                /\ BeforeStands(command[c])
  BY DEF ProjectInv, Undisturbed
<1> QED
  BY <1>1, <1>2, <1>3 DEF CommandRecord

\* A command starts.
LEMMA StartStep == ASSUME ProjectInv, NEW c \in Commands, StartCommand(c) PROVE ProjectInv'
<1>a. PICK kind \in DOMAIN ArgumentsOf : \E arg \in ArgumentsOf[kind] :
          command' = [command EXCEPT ![c] = [IdleCommand EXCEPT
                         !.pc = IF kind \in {"apply", "read"} THEN "look" ELSE "open",
                         !.kind = kind, !.arg = arg, !.at = TargetOf[kind],
                         !.gen = IF kind = "capture" THEN starts + 1 ELSE 0]]
  BY DEF StartCommand
<1>1. PICK arg \in ArgumentsOf[kind] :
          command' = [command EXCEPT ![c] = [IdleCommand EXCEPT
                         !.pc = IF kind \in {"apply", "read"} THEN "look" ELSE "open",
                         !.kind = kind, !.arg = arg, !.at = TargetOf[kind],
                         !.gen = IF kind = "capture" THEN starts + 1 ELSE 0]]
  BY <1>a
<1>2. /\ command[c].pc = "idle" /\ starts < MaxStarts /\ starts' = starts + 1
      /\ UNCHANGED <<project, reported, intent, captured, answered, lockFile, holder, raced, touches>>
  BY DEF StartCommand, CommandAt
<1>b. starts' \in Nat
  BY <1>2 DEF ProjectInv, FileTypes
<1> DEFINE n == [IdleCommand EXCEPT
                    !.pc = IF kind \in {"apply", "read"} THEN "look" ELSE "open",
                    !.kind = kind, !.arg = arg, !.at = TargetOf[kind],
                    !.gen = IF kind = "capture" THEN starts + 1 ELSE 0]
<1>3. kind \in Kinds /\ TargetOf[kind] \in Targets /\ arg \in Arguments
      /\ (kind = "apply" => TargetOf[kind] = "card")
  BY DEF ArgumentsOf, TargetOf, Kinds, FileKinds, Targets, Arguments
<1>4. starts \in Nat /\ starts + 1 \in Generations /\ 0 \in Generations
  BY <1>2, ProjectFilesAssumption DEF ProjectInv, FileTypes, Generations
<1>5. /\ n.pc \in {"look", "open"} /\ (n.pc = "look" => kind \in {"apply", "read"})
      /\ n.kind = kind /\ n.arg = arg /\ n.at = TargetOf[kind]
  BY DEF IdleCommand
<1>6. n \in CommandRecord
  BY <1>3, <1>4, IdleIs DEF CommandRecord, CommandPCs
<1> HIDE DEF n
<1>7. ~Applying(n) /\ \A f \in Targets : ~Holds(n, f)
  BY <1>3, <1>5 DEF Applying, Holds, Inside
<1>8. CommandOf(n) /\ ConfigOf(n) /\ SeenThere(n) /\ BeforeStands(n)
  BY <1>5, <1>7 DEF CommandOf, ConfigOf, SeenThere, BeforeStands, Inside, Capturing
<1>9. command' = [command EXCEPT ![c] = n]
  BY <1>1 DEF n
<1> QED
  BY <1>2, <1>b, <1>6, <1>7, <1>8, <1>9, RecordStep

\* A command looks, without a lock, at the card or the intent.
LEMMA LookStep ==
    ASSUME ProjectInv, NEW c \in Commands, LookUpCard(c) \/ ReadIntent(c)
    PROVE  ProjectInv'
<1> DEFINE r == command[c]
<1>0. /\ r.pc = "look"
      /\ UNCHANGED <<project, reported, intent, captured, answered, lockFile, holder, raced, starts,
                     touches>>
  BY DEF LookUpCard, ReadIntent, CommandAt
<1>1. starts' \in Nat /\ intent.json \in Generations
  BY <1>0 DEF ProjectInv, FileTypes
<1>2. CASE command' = [command EXCEPT ![c] = IdleCommand]
  BY <1>0, <1>1, <1>2, IdleIs, RecordStep DEF ConfigOf, SeenThere, BeforeStands, Capturing
<1>3. CASE LookUpCard(c) /\ command' = [command EXCEPT ![c] = [@ EXCEPT !.pc = "open"]]
  <2> DEFINE n == [r EXCEPT !.pc = "open"]
  <2>1. /\ command' = [command EXCEPT ![c] = n] /\ n \in CommandRecord
        /\ n.pc = "open" /\ n.kind = r.kind /\ n.at = r.at /\ n.arg = r.arg /\ n.fd = r.fd
    BY <1>3, RecordIs DEF CommandRecord, CommandPCs, ProjectInv
  <2> HIDE DEF n
  <2>2. ~Applying(r)
    BY <1>0, RecordIs DEF CommandOf
  <2>3. ~Applying(n) /\ \A f \in Targets : ~Holds(n, f)
    BY <2>1, <2>2 DEF Applying, Holds, Inside
  <2>4. CommandOf(n) /\ ConfigOf(n) /\ SeenThere(n) /\ BeforeStands(n)
    BY <1>0, <2>1, <2>2, <2>3, RecordIs DEF CommandOf, ConfigOf, SeenThere, BeforeStands, Inside, Capturing
  <2> QED
    BY <1>0, <1>1, <2>1, <2>3, <2>4, RecordStep
<1>4. CASE /\ ReadIntent(c) /\ intent.json # 0
           /\ command' = [command EXCEPT ![c] = [@ EXCEPT !.pc = "compare", !.gen = intent.json]]
  <2> DEFINE n == [r EXCEPT !.pc = "compare", !.gen = intent.json]
  <2>1. /\ command' = [command EXCEPT ![c] = n] /\ n \in CommandRecord /\ n.gen # 0
        /\ n.pc = "compare" /\ n.kind = "read" /\ n.kind = r.kind /\ n.at = r.at /\ n.arg = r.arg
        /\ n.fd = r.fd
    BY <1>1, <1>4, RecordIs DEF CommandRecord, CommandPCs, ProjectInv, ReadIntent
  <2> HIDE DEF n
  <2>2. ~Applying(r) /\ ~Applying(n)
    BY <2>1 DEF Applying
  <2>3. \A f \in Targets : ~Holds(n, f)
    BY <2>1, <2>2 DEF Holds, Inside
  <2>4. CommandOf(n) /\ ConfigOf(n) /\ SeenThere(n) /\ BeforeStands(n)
    BY <1>0, <2>1, <2>2, <2>3, RecordIs DEF CommandOf, ConfigOf, SeenThere, BeforeStands, Inside, Capturing
  <2> QED
    BY <1>0, <1>1, <2>1, <2>3, <2>4, RecordStep
<1> QED
  BY <1>2, <1>3, <1>4 DEF LookUpCard, ReadIntent

\* The lock file is opened, or created where there is none.
LEMMA OpenStep == ASSUME ProjectInv, NEW c \in Commands, OpenLock(c) PROVE ProjectInv'
<1> DEFINE r == command[c]
           f == r.at
<1>0. /\ r.pc = "open"
      /\ UNCHANGED <<project, reported, intent, captured, answered, holder, raced, starts, touches>>
  BY DEF OpenLock, CommandAt
<1>1. PICK inode \in Inodes :
          /\ lockFile[f] # 0 => inode = lockFile[f]
          /\ lockFile' = [lockFile EXCEPT ![f] = inode]
          /\ command' = [command EXCEPT ![c].pc = "wait", ![c].fd[f] = inode]
  <2>1. f \in Targets /\ lockFile[f] \in Inodes \cup {0} /\ command \in [Commands -> CommandRecord]
    BY RecordIs DEF ProjectInv, FileTypes
  <2>2. (CHOOSE i \in Inodes : i \notin Opened(f)) \in Inodes
    BY <2>1, FreshInode
  <2> QED
    BY <2>1, <2>2 DEF OpenLock
<1> DEFINE n == [r EXCEPT !.pc = "wait", !.fd[f] = inode]
<1>2. /\ f \in Targets /\ r \in CommandRecord /\ r.fd \in [Targets -> Inodes \cup {0}]
      /\ command \in [Commands -> CommandRecord]
  BY RecordIs DEF ProjectInv
<1>3. n.fd = [r.fd EXCEPT ![f] = inode] /\ n.fd \in [Targets -> Inodes \cup {0}]
  BY <1>1, <1>2 DEF CommandRecord
<1>4. /\ n \in CommandRecord /\ n.pc = "wait" /\ n.kind = r.kind /\ n.at = r.at /\ n.arg = r.arg
      /\ n.seen = r.seen
  BY <1>2, <1>3 DEF CommandRecord, CommandPCs
<1>5. command' = [command EXCEPT ![c] = n]
  BY <1>1, <1>2
<1>6. n.fd[f] = inode /\ \A g \in Targets \ {f} : n.fd[g] = r.fd[g]
  BY <1>2, <1>3
<1> HIDE DEF n, f
<1>7. /\ command' \in [Commands -> CommandRecord] /\ command'[c] = n
      /\ \A d \in Commands \ {c} : command'[d] = command[d]
  BY <1>2, <1>4, <1>5
<1>8. /\ lockFile' \in [Targets -> Inodes \cup {0}] /\ lockFile'[f] = inode
      /\ \A g \in Targets \ {f} : lockFile'[g] = lockFile[g]
  BY <1>1, <1>2 DEF ProjectInv, FileTypes
<1>9. FileTypes'
  BY <1>0, <1>8 DEF ProjectInv, FileTypes
<1>10. Applying(n) <=> Applying(r)
  BY <1>4 DEF Applying
<1>11. /\ f = r.at /\ n.at = f /\ (Applying(r) => f # "card")
       /\ \A g \in Targets : Holds(n, g) => Holds(r, g) /\ g # f
  BY <1>0, <1>4, <1>10 DEF Holds, Inside, Applying, f
<1>12. CommandOf(n)
  BY <1>0, <1>1, <1>4, <1>6, <1>10, <1>11, RecordIs DEF CommandOf, Inside, Capturing, Targets
<1>13. ConfigOf(command[c])' /\ LocksOf(c)'
  BY <1>0, <1>4, <1>6, <1>7, <1>11, RecordIs DEF ConfigOf, LocksOf
<1>14. ~raced => LockedThere(command[c])' /\ SeenThere(command[c])' /\ BeforeStands(command[c])'
  BY <1>0, <1>4, <1>6, <1>7, <1>8, <1>10, <1>11, RecordIs
     DEF LockedThere, SeenThere, BeforeStands, Capturing
<1>15. ~raced => /\ project' = reported' /\ answered' \subseteq captured'
                 /\ intent'.markdown \in captured' \cup {0} /\ JsonStands'
  BY <1>0, <1>7, JsonKept DEF ProjectInv, Undisturbed
<1>16. \A g \in Targets : lockFile'[g] = lockFile[g] \/ lockFile[g] = 0
  BY <1>1, <1>8
<1>17. project'.config # NoConfig <=> reported'.config # NoConfig
  BY <1>0 DEF ProjectInv
<1> QED
  BY <1>0, <1>7, <1>9, <1>12, <1>13, <1>14, <1>15, <1>16, <1>17, CommandStep

\* The lock is taken, and its file looked at again; or the command gives up.
LEMMA TakeStep == ASSUME ProjectInv, NEW c \in Commands, TakeLock(c) PROVE ProjectInv'
<1> DEFINE r == command[c]
           f == r.at
<1>0. /\ r.pc = "wait" /\ holder[f][r.fd[f]] = NoCommand
      /\ UNCHANGED <<project, reported, intent, captured, answered, lockFile, raced, starts, touches>>
  BY DEF TakeLock, CommandAt
<1>1. CASE Leaves(c)
  BY <1>0, <1>1, LeaveEarly
<1>2. CASE StillThere(c) /\ holder' = [holder EXCEPT ![f][r.fd[f]] = c] /\ Goes(c, "read")
  <2> DEFINE n == [r EXCEPT !.pc = "read"]
  <2>1. /\ f \in Targets /\ r \in CommandRecord /\ r.fd[f] \in Inodes /\ lockFile[f] = r.fd[f]
        /\ command \in [Commands -> CommandRecord]
    BY <1>0, <1>2, RecordIs DEF StillThere, CommandOf, ProjectInv
  <2>2. /\ n \in CommandRecord /\ n.pc = "read" /\ n.kind = r.kind /\ n.at = r.at /\ n.arg = r.arg
        /\ n.seen = r.seen /\ n.fd = r.fd /\ command' = [command EXCEPT ![c] = n]
    BY <1>2, <2>1 DEF CommandRecord, CommandPCs, Inside, Goes
  <2> HIDE DEF n, f
  <2>3. /\ command' \in [Commands -> CommandRecord] /\ command'[c] = n
        /\ \A d \in Commands \ {c} : command'[d] = command[d]
    BY <2>1, <2>2
  <2>4. /\ holder' \in [Targets -> [Inodes -> Commands \cup {NoCommand}]] /\ holder'[f][r.fd[f]] = c
        /\ \A g \in Targets, i \in Inodes : holder'[g][i] = holder[g][i] \/ holder[g][i] = NoCommand
        /\ \A g \in Targets \ {f} : holder'[g] = holder[g]
    BY <1>0, <1>2, <2>1 DEF ProjectInv, FileTypes
  <2>5. FileTypes'
    BY <1>0, <2>4 DEF ProjectInv, FileTypes
  <2>6. /\ f = r.at /\ n.at = f /\ (Applying(n) <=> Applying(r)) /\ (Applying(r) => f # "card")
        /\ \A g \in Targets : Holds(n, g) => g = f \/ (Holds(r, g) /\ g # f)
    BY <1>0, <2>2 DEF Holds, Applying, Inside, f
  <2>7. CommandOf(n)
    BY <1>0, <2>1, <2>2, <2>6, RecordIs DEF CommandOf, Inside, Capturing
  <2>8. ConfigOf(command[c])' /\ LocksOf(c)'
    <3>1. ConfigOf(command[c])'
      BY <1>0, <2>2, <2>3 DEF ConfigOf
    <3>2. \A g \in Targets : Holds(r, g) => holder[g][r.fd[g]] = c
      BY RecordIs DEF LocksOf
    <3>3. \A g \in Targets : Holds(n, g) => holder'[g][n.fd[g]] = c
      BY <2>2, <2>4, <2>6, <3>2
    <3> QED
      BY <2>3, <3>1, <3>3 DEF LocksOf
  <2>9. ~raced => LockedThere(command[c])' /\ SeenThere(command[c])' /\ BeforeStands(command[c])'
    BY <1>0, <2>1, <2>2, <2>3, <2>6, RecordIs DEF LockedThere, SeenThere, BeforeStands, Capturing
  <2>10. ~raced => /\ project' = reported' /\ answered' \subseteq captured'
                   /\ intent'.markdown \in captured' \cup {0} /\ JsonStands'
    BY <1>0, <2>3, JsonKept DEF ProjectInv, Undisturbed
  <2>11. \A g \in Targets, i \in Inodes : \A d \in Commands \ {c} :
             holder[g][i] = d => holder'[g][i] = d
    BY <2>4, ProjectFilesAssumption
  <2>12. project'.config # NoConfig <=> reported'.config # NoConfig
    BY <1>0 DEF ProjectInv
  <2> QED
    BY <1>0, <2>3, <2>5, <2>7, <2>8, <2>9, <2>10, <2>11, <2>12, CommandStep
<1> QED
  BY <1>1, <1>2 DEF TakeLock

\* A command that reads the files, and keeps its locks.
LEMMA ReadStep ==
    ASSUME ProjectInv, NEW c \in Commands,
           \/ ReadProject(c) /\ ~Declined(command[c])
           \/ RereadConfig(c)
    PROVE  ProjectInv'
<1> DEFINE r == command[c]
           f == r.at
           pc == IF r.pc = "read" /\ r.kind \in {"check", "integrate"} THEN "reread" ELSE "write"
           n == [r EXCEPT !.pc = pc, !.seen[f] = project[f]]
<1>0. /\ r.pc \in {"read", "reread"} /\ r.kind \in FileKinds \ {"apply"}
      /\ (r.pc = "reread" => r.kind \in {"check", "integrate"})
      /\ UNCHANGED <<project, reported, intent, captured, answered, lockFile, holder, raced, starts,
                     touches>>
      /\ command' = [command EXCEPT ![c].pc = pc, ![c].seen[f] = project[f]]
  BY RecordIs DEF ReadProject, RereadConfig, Reads, CommandAt, CommandOf, Kinds, FileKinds
<1>1. /\ f \in {"config", "memory", "card"} /\ ~Applying(r)
  BY <1>0, RecordIs DEF CommandOf, TargetOf, FileKinds, Applying
<1>2. /\ r \in CommandRecord /\ command \in [Commands -> CommandRecord] /\ project \in Projects
  BY RecordIs DEF ProjectInv, FileTypes
<1>3. n.seen = [r.seen EXCEPT ![f] = project[f]] /\ n.seen \in Projects /\ n.seen[f] = project[f]
  BY <1>1, <1>2 DEF CommandRecord, Projects
<1>4. /\ n \in CommandRecord /\ n.pc = pc /\ n.kind = r.kind /\ n.at = r.at /\ n.arg = r.arg
      /\ n.fd = r.fd
  BY <1>2, <1>3 DEF CommandRecord, CommandPCs, Inside
<1>5. command' = [command EXCEPT ![c] = n]
  BY <1>0, <1>2
<1>6. starts' \in Nat
  BY <1>0 DEF ProjectInv, FileTypes
<1>7. n.kind \in ConfigKinds => f = "config" /\ project.config # NoConfig
  <2>1. n.kind \in ConfigKinds => f = "config"
    BY <1>0, <1>4, RecordIs DEF CommandOf, TargetOf, ConfigKinds, FileKinds, Applying
  <2>2. n.kind \in ConfigKinds /\ r.pc = "read" => ~Declined(r)
    BY <1>0 DEF RereadConfig, CommandAt
  <2>3. n.kind \in ConfigKinds /\ ~Declined(r) => project.config # NoConfig
    BY <1>4 DEF Declined, Unset, ConfigKinds
  <2>4. r.pc = "reread" => project.config # NoConfig
    BY RecordIs DEF ConfigOf
  <2> QED
    BY <1>0, <2>1, <2>2, <2>3, <2>4
<1> DEFINE to == n.pc
<1>8. /\ to \in {"reread", "write"} /\ (to = "reread" => r.kind \in {"check", "integrate"})
  BY <1>4
<1> HIDE DEF n, pc, to
<1>9. ~Applying(n) /\ \A g \in Targets : Holds(n, g) => Holds(r, g) /\ n.fd[g] = r.fd[g]
  BY <1>0, <1>1, <1>4 DEF Applying, Holds, Inside
<1>10. CommandOf(n)
  <2>1. CommandOf(r)
    BY RecordIs
  <2>2. /\ r.arg \in ArgumentsOf[r.kind] /\ r.at = TargetOf[r.kind] /\ r.fd[r.at] \in Inodes
    BY <1>0, <1>1, <2>1 DEF CommandOf, Inside
  <2> QED
    BY <1>0, <1>4, <1>8, <1>9, <2>2 DEF CommandOf, Inside, Capturing, FileKinds, to
<1>11. ConfigOf(n)
  BY <1>0, <1>3, <1>4, <1>7, <1>8 DEF ConfigOf, ConfigKinds, to
<1>12. SeenThere(n) /\ BeforeStands(n)
  BY <1>3, <1>4, <1>8, <1>9 DEF SeenThere, BeforeStands, Capturing, to
<1> QED
  BY <1>0, <1>4, <1>5, <1>6, <1>9, <1>10, <1>11, <1>12, RecordStep

\* The memory's lock is given back, the card's kept: the card is written next.
LEMMA MemoryGivenBack ==
    ASSUME ProjectInv, NEW c \in Commands, Applying(command[c]), command[c].pc \in {"read", "write"},
           command' = [command EXCEPT ![c] =
                          [command[c] EXCEPT !.pc = "write", !.at = "card", !.fd.memory = 0]],
           holder' = FreeOf(c, {"memory"}),
           UNCHANGED <<intent, captured, answered, lockFile, raced, starts, touches>>,
           project' \in Projects, reported' \in Projects,
           project'.config = project.config, project'.card = project.card,
           reported'.config = reported.config, ~raced => project' = reported'
    PROVE  ProjectInv'
<1> DEFINE r == command[c]
           n == [r EXCEPT !.pc = "write", !.at = "card", !.fd.memory = 0]
<1>1. /\ r \in CommandRecord /\ r.fd \in [Targets -> Inodes \cup {0}] /\ r.kind = "apply" /\ r.at = "memory"
      /\ command \in [Commands -> CommandRecord] /\ r.fd["card"] \in Inodes /\ r.arg \in ArgumentsOf["apply"]
  BY RecordIs DEF ProjectInv, Applying, CommandOf
<1>2. /\ n.fd = [r.fd EXCEPT !["memory"] = 0] /\ n.fd \in [Targets -> Inodes \cup {0}]
      /\ n.fd["card"] = r.fd["card"]
  BY <1>1 DEF CommandRecord, Targets
<1>3. /\ n \in CommandRecord /\ n.pc = "write" /\ n.kind = "apply" /\ n.at = "card" /\ n.arg = r.arg
      /\ n.seen = r.seen
  BY <1>1, <1>2 DEF CommandRecord, CommandPCs, Inside, Targets
<1>4. command' = [command EXCEPT ![c] = n]
  OBVIOUS
<1> HIDE DEF n
<1>5. /\ command' \in [Commands -> CommandRecord] /\ command'[c] = n
      /\ \A d \in Commands \ {c} : command'[d] = command[d]
  BY <1>1, <1>3, <1>4
<1>6. /\ holder' \in [Targets -> [Inodes -> Commands \cup {NoCommand}]]
      /\ \A f \in Targets, i \in Inodes : holder[f][i] # c => holder'[f][i] = holder[f][i]
      /\ holder'["card"] = holder["card"]
  BY FreeDoes DEF ProjectInv, FileTypes, Targets
<1>7. FileTypes'
  BY <1>6 DEF ProjectInv, FileTypes
<1>9. Holds(r, "card") /\ Holds(r, "memory") /\ "card" \in Targets
  BY <1>1 DEF Holds, Applying, Inside, Targets
<1>10. \A f \in Targets : Holds(n, f) => f = "card"
  BY <1>3 DEF Holds, Applying
<1>11. CommandOf(n)
  BY <1>1, <1>2, <1>3 DEF CommandOf, TargetOf, FileKinds, Capturing, Inside, Applying
<1>12. ConfigOf(command[c])'
  BY <1>3, <1>5 DEF ConfigOf, ConfigKinds
<1>13. LocksOf(c)'
  <2>1. holder["card"][r.fd["card"]] = c
    BY <1>9, RecordIs DEF LocksOf
  <2> QED
    BY <1>2, <1>5, <1>6, <1>10, <2>1 DEF LocksOf
<1>14. ~raced => LockedThere(command[c])' /\ SeenThere(command[c])' /\ BeforeStands(command[c])'
  <2>1. ~raced => lockFile["card"] = r.fd["card"] /\ r.seen.card = project.card
    BY <1>9, RecordIs DEF LockedThere, SeenThere
  <2>2. ~raced => LockedThere(command[c])'
    BY <1>2, <1>5, <1>10, <2>1 DEF LockedThere
  <2>3. ~raced => SeenThere(command[c])' /\ BeforeStands(command[c])'
    BY <1>3, <1>5, <2>1 DEF SeenThere, BeforeStands, Capturing, Applying
  <2> QED
    BY <2>2, <2>3
<1>15. ~raced => /\ project' = reported' /\ answered' \subseteq captured'
                 /\ intent'.markdown \in captured' \cup {0} /\ JsonStands'
  BY <1>5, JsonKept DEF ProjectInv, Undisturbed
<1>16. \A f \in {"config", "memory", "card"} : project'[f] = project[f] \/ Holds(r, f)
  BY <1>9
<1>17. /\ project.config # NoConfig => project'.config # NoConfig
       /\ project'.config # NoConfig <=> reported'.config # NoConfig
  BY DEF ProjectInv
<1>18. \A f \in Targets, i \in Inodes : \A d \in Commands \ {c} : holder[f][i] = d => holder'[f][i] = d
  BY <1>6
<1> QED
  BY <1>5, <1>7, <1>11, <1>12, <1>13, <1>14, <1>15, <1>16, <1>17, <1>18, CommandStep

\* apply_learning_card reads the card, and the memory under its lock as well.
LEMMA ApplyStep ==
    ASSUME ProjectInv, NEW c \in Commands, ReadForApply(c)
    PROVE  ProjectInv'
<1> DEFINE r == command[c]
<1>0. /\ r.pc = "read" /\ r.kind = "apply"
      /\ UNCHANGED <<project, reported, intent, captured, answered, lockFile, raced, starts, touches>>
  BY DEF ReadForApply, CommandAt
<1>1. CASE Leaves(c)
  BY <1>0, <1>1, LeaveEarly
<1>2. /\ r \in CommandRecord /\ command \in [Commands -> CommandRecord] /\ project \in Projects
      /\ starts' \in Nat /\ r.fd \in [Targets -> Inodes \cup {0}] /\ r.at \in {"card", "memory"}
      /\ r.arg \in ArgumentsOf[r.kind] /\ r.fd[r.at] \in Inodes
  BY <1>0, RecordIs DEF ProjectInv, FileTypes, CommandOf, TargetOf, Applying, Inside
<1>3. CASE /\ r.at = "card" /\ UNCHANGED holder
           /\ command' = [command EXCEPT ![c].pc = "open", ![c].at = "memory", ![c].seen.card = project.card]
  <2> DEFINE n == [r EXCEPT !.pc = "open", !.at = "memory", !.seen.card = project.card]
  <2>1. n.seen = [r.seen EXCEPT !.card = project.card] /\ n.seen \in Projects
        /\ n.seen.card = project.card
    BY <1>2 DEF CommandRecord, Projects
  <2>2. /\ n \in CommandRecord /\ n.pc = "open" /\ n.kind = r.kind /\ n.at = "memory" /\ n.arg = r.arg
        /\ n.fd = r.fd
    BY <1>2, <2>1 DEF CommandRecord, CommandPCs, Targets
  <2>3. command' = [command EXCEPT ![c] = n]
    BY <1>2, <1>3
  <2> HIDE DEF n
  <2>4. Applying(n) /\ \A g \in Targets : Holds(n, g) => Holds(r, g) /\ n.fd[g] = r.fd[g]
    BY <1>0, <1>3, <2>2 DEF Applying, Holds, Inside
  <2>5. CommandOf(n)
    BY <1>2, <1>3, <2>2, <2>4 DEF CommandOf, Inside, Capturing
  <2>6. ConfigOf(n) /\ SeenThere(n) /\ BeforeStands(n)
    BY <2>1, <2>2 DEF ConfigOf, SeenThere, BeforeStands, Capturing
  <2> QED
    BY <1>0, <1>2, <1>3, <2>2, <2>3, <2>4, <2>5, <2>6, RecordStep
<1>4. CASE r.at = "memory" /\ Reads(c, "write") /\ UNCHANGED holder
  <2> DEFINE n == [r EXCEPT !.pc = "write", !.seen["memory"] = project["memory"]]
  <2>1. /\ n.seen = [r.seen EXCEPT !["memory"] = project["memory"]] /\ n.seen \in Projects
        /\ n.seen["memory"] = project["memory"] /\ n.seen.card = r.seen.card
    BY <1>2 DEF CommandRecord, Projects
  <2>2. /\ n \in CommandRecord /\ n.pc = "write" /\ n.kind = r.kind /\ n.at = "memory" /\ n.arg = r.arg
        /\ n.fd = r.fd
    BY <1>2, <1>4, <2>1 DEF CommandRecord, CommandPCs, Inside
  <2>3. command' = [command EXCEPT ![c] = n]
    BY <1>2, <1>4 DEF Reads
  <2> HIDE DEF n
  <2>4. Applying(n) /\ Applying(r) /\ \A g \in Targets : Holds(n, g) => Holds(r, g) /\ n.fd[g] = r.fd[g]
    BY <1>0, <1>4, <2>2 DEF Applying, Holds, Inside
  <2>5. CommandOf(n)
    BY <1>0, <1>2, <1>4, <2>2, <2>4, RecordIs DEF CommandOf, Inside, Capturing, FileKinds
  <2>6. ConfigOf(n) /\ BeforeStands(n)
    BY <1>0, <2>2 DEF ConfigOf, BeforeStands, Capturing, ConfigKinds
  <2>7. ~raced => SeenThere(n)
    BY <2>1, <2>2, <2>4, RecordIs DEF SeenThere
  <2> QED
    BY <1>0, <1>2, <1>4, <2>2, <2>3, <2>4, <2>5, <2>6, <2>7, RecordStep
\* The memory's lock is given back, the card's kept.
<1>5. CASE /\ r.at = "memory" /\ holder' = FreeOf(c, {"memory"})
           /\ command' = [command EXCEPT ![c].pc = "write", ![c].at = "card", ![c].fd.memory = 0]
  <2>1. Applying(r) /\ project'.card = project.card /\ project' \in Projects /\ reported' \in Projects
    BY <1>0, <1>2, <1>5 DEF Applying, ProjectInv, FileTypes
  <2>2. command' = [command EXCEPT ![c] = [r EXCEPT !.pc = "write", !.at = "card", !.fd.memory = 0]]
    BY <1>2, <1>5
  <2>3. ~raced => project' = reported'
    BY <1>0 DEF ProjectInv, Undisturbed
  <2> QED
    BY <1>0, <1>5, <2>1, <2>2, <2>3, MemoryGivenBack
<1> QED
  BY <1>0, <1>1, <1>2, <1>3, <1>4, <1>5 DEF ReadForApply

\* What each command makes of what it read: one new value for its file.
Cards == [status : {"none", "pending", "applied"}, count : Nat]
FieldOf(f, v) ==
    \/ f = "config" /\ v \in Configs
    \/ f = "memory" /\ v \in SUBSET Notes
    \/ f = "card" /\ v \in Cards

\* What a command makes of a file depends on that file alone.
LEMMA ChangedAt ==
    ASSUME NEW r \in CommandRecord, CommandOf(r), r.pc = "write", NEW base \in Projects,
           r.kind \in ConfigKinds => base.config # NoConfig
    PROVE  \E v : /\ FieldOf(r.at, v)
                  /\ \A b \in Projects :
                        b[r.at] = base[r.at] => Changed(r, b) = [b EXCEPT ![r.at] = v]
<1>0. /\ r.arg \in ArgumentsOf[r.kind] /\ r.kind \in FileKinds
      /\ r.at = TargetOf[r.kind] \/ (r.kind = "apply" /\ r.at = "memory")
      /\ base.config \in Configs \cup {NoConfig} /\ base.memory \in SUBSET Notes
      /\ base.card \in Cards
  BY DEF CommandOf, Applying, Projects, Cards
<1>3. CASE r.kind = "init"
  <2>1. r.at = "config" /\ r.arg \in Presets /\ \A b : Changed(r, b) = [b EXCEPT !.config = Template(r.arg)]
    BY <1>0, <1>3 DEF TargetOf, ArgumentsOf, Changed
  <2>2. Template(r.arg) \in Configs
    BY <2>1 DEF Template, Configs
  <2> QED
    BY <2>1, <2>2 DEF FieldOf
<1>4. CASE r.kind = "agent"
  <2>1. /\ r.at = "config" /\ r.arg \in Presets
        /\ \A b : Changed(r, b) = [b EXCEPT !.config = SetAgent(b.config, r.arg)]
    BY <1>0, <1>4 DEF TargetOf, ArgumentsOf, Changed
  <2>2. SetAgent(base.config, r.arg) \in Configs
    BY <1>0, <1>4, <2>1 DEF SetAgent, Configs, ConfigKinds
  <2> QED
    BY <2>1, <2>2 DEF FieldOf
<1>5. CASE r.kind = "check"
  <2>1. /\ r.at = "config" /\ r.arg \in GateIds
        /\ \A b : Changed(r, b) = [b EXCEPT !.config = AddGate(b.config, r.arg)]
    BY <1>0, <1>5 DEF TargetOf, ArgumentsOf, Changed
  <2>2. AddGate(base.config, r.arg) \in Configs
    BY <1>0, <1>5, <2>1 DEF AddGate, Configs, ConfigKinds
  <2> QED
    BY <2>1, <2>2 DEF FieldOf
<1>6. CASE r.kind = "integrate"
  <2>1. r.at = "config" /\ \A b : Changed(r, b) = [b EXCEPT !.config = SetIntegrations(b.config)]
    BY <1>0, <1>6 DEF TargetOf, Changed
  <2>2. SetIntegrations(base.config) \in Configs
    BY <1>0, <1>6, <2>1 DEF SetIntegrations, Configs, ConfigKinds
  <2> QED
    BY <2>1, <2>2 DEF FieldOf
<1>7. CASE r.kind = "note"
  <2>1. /\ r.at = "memory" /\ r.arg \in Notes
        /\ \A b : Changed(r, b) = [b EXCEPT !.memory = AddNote(b.memory, r.arg)]
    BY <1>0, <1>7 DEF TargetOf, ArgumentsOf, Changed
  <2>2. AddNote(base.memory, r.arg) \in SUBSET Notes
    BY <1>0, <2>1 DEF AddNote
  <2> QED
    BY <2>1, <2>2 DEF FieldOf
<1>8. CASE r.kind = "save"
  <2>1. r.at = "card" /\ \A b : Changed(r, b) = [b EXCEPT !.card = SeenAgain(b.card)]
    BY <1>0, <1>8 DEF TargetOf, Changed
  <2>2. SeenAgain(base.card) \in Cards
    BY <1>0 DEF SeenAgain, Cards
  <2> QED
    BY <2>1, <2>2 DEF FieldOf
<1>9. CASE r.kind = "apply" /\ r.at = "memory"
  <2>1. \A b : Changed(r, b) = [b EXCEPT !.memory = AddNote(b.memory, ProposedNote)]
    BY <1>9 DEF Changed
  <2>2. AddNote(base.memory, ProposedNote) \in SUBSET Notes
    BY <1>0, ProjectFilesAssumption DEF ProposedNote, AddNote
  <2> QED
    BY <1>9, <2>1, <2>2 DEF FieldOf
<1>10. CASE r.kind = "apply" /\ r.at = "card"
  <2>1. \A b : Changed(r, b) = [b EXCEPT !.card = [b.card EXCEPT !.status = "applied"]]
    BY <1>10 DEF Changed
  <2> DEFINE new == [base.card EXCEPT !.status = "applied"]
  <2>2. new \in Cards
    BY <1>0 DEF Cards
  <2>3. ASSUME NEW b \in Projects, b["card"] = base["card"]
        PROVE  Changed(r, b) = [b EXCEPT !["card"] = new]
    <3>1. b.card = base.card
      BY <2>3
    <3> QED
      BY <2>1, <3>1
  <2> HIDE DEF new
  <2>4. FieldOf("card", new) /\ r.at = "card"
    BY <1>10, <2>2 DEF FieldOf
  <2> QED
    BY <2>3, <2>4
<1> QED
  <2>1. r.kind = "apply" => r.at \in {"card", "memory"}
    BY <1>0 DEF TargetOf
  <2> QED
    BY <1>0, <1>3, <1>4, <1>5, <1>6, <1>7, <1>8, <1>9, <1>10, <2>1 DEF FileKinds

\* The rest of the project stays, and the same file read gives the same file.
LEMMA ChangedIs ==
    ASSUME NEW r \in CommandRecord, CommandOf(r), r.pc = "write", NEW base \in Projects,
           r.kind \in ConfigKinds => base.config # NoConfig
    PROVE  /\ r.at \in {"config", "memory", "card"} /\ Changed(r, base) \in Projects
           /\ \A f \in {"config", "memory", "card"} \ {r.at} : Changed(r, base)[f] = base[f]
           /\ r.at = "config" => Changed(r, base).config # NoConfig
           /\ \A other \in Projects :
                  other[r.at] = base[r.at] => Changed(r, other)[r.at] = Changed(r, base)[r.at]
<1>1. PICK v : /\ FieldOf(r.at, v)
               /\ \A b \in Projects : b[r.at] = base[r.at] => Changed(r, b) = [b EXCEPT ![r.at] = v]
  BY ChangedAt
<1>2. NoConfig \notin Configs
  BY ProjectFilesAssumption DEF Template, NoConfig, Configs
<1>3. r.at \in {"config", "memory", "card"} /\ (r.at = "config" => v # NoConfig)
  BY <1>1, <1>2 DEF FieldOf
<1>4. /\ Changed(r, base) = [base EXCEPT ![r.at] = v] /\ Changed(r, base)[r.at] = v
      /\ Changed(r, base) \in Projects
  BY <1>1, <1>3 DEF FieldOf, Projects, Cards
<1>5. \A f \in {"config", "memory", "card"} \ {r.at} : Changed(r, base)[f] = base[f]
  BY <1>3, <1>4 DEF Projects
<1>6. ASSUME NEW other \in Projects, other[r.at] = base[r.at]
      PROVE  Changed(r, other)[r.at] = Changed(r, base)[r.at]
  BY <1>1, <1>3, <1>4, <1>6 DEF Projects
<1> QED
  BY <1>3, <1>4, <1>5, <1>6

\* A command writes its file: under the lock, what it makes of what it read is
\* what it makes of what is there.
LEMMA WriteStep == ASSUME ProjectInv, NEW c \in Commands, WriteProject(c) PROVE ProjectInv'
<1> DEFINE r == command[c]
<1>0. /\ r.pc = "write" /\ project' = [project EXCEPT ![r.at] = Changed(r, r.seen)[r.at]]
      /\ reported' = Changed(r, reported)
      /\ UNCHANGED <<intent, captured, answered, lockFile, raced, starts, touches>>
  BY DEF WriteProject, CommandAt
<1>1. /\ r \in CommandRecord /\ CommandOf(r) /\ r.seen \in Projects /\ project \in Projects
      /\ reported \in Projects /\ (project.config # NoConfig <=> reported.config # NoConfig)
      /\ r.kind \in ConfigKinds => r.seen.config # NoConfig /\ project.config # NoConfig
  BY <1>0, RecordIs DEF ProjectInv, FileTypes, ConfigOf
<1> DEFINE mine == Changed(r, r.seen)
<1>2. /\ r.at \in {"config", "memory", "card"} /\ mine \in Projects
      /\ r.at = "config" => mine.config # NoConfig
  BY <1>0, <1>1, ChangedIs
<1>3. /\ reported' \in Projects
      /\ \A f \in {"config", "memory", "card"} \ {r.at} : reported'[f] = reported[f]
      /\ r.at = "config" => reported'.config # NoConfig
  BY <1>0, <1>1, ChangedIs
<1>4. reported[r.at] = r.seen[r.at] => reported'[r.at] = mine[r.at]
  BY <1>0, <1>1, ChangedIs
<1> HIDE DEF mine
<1>5. /\ project' \in Projects /\ project'[r.at] = mine[r.at]
      /\ \A f \in {"config", "memory", "card"} \ {r.at} : project'[f] = project[f]
  BY <1>0, <1>1, <1>2 DEF Projects, mine
<1>6. ~raced => project' = reported'
  <2>1. ASSUME ~raced PROVE \A f \in {"config", "memory", "card"} : project'[f] = reported'[f]
    <3>1. project = reported /\ r.seen[r.at] = project[r.at]
      BY <1>0, <2>1, RecordIs DEF Undisturbed, SeenThere
    <3> QED
      BY <1>3, <1>4, <1>5, <3>1
  <2> QED
    BY <1>3, <1>5, <2>1 DEF Projects
<1>7. /\ project.config # NoConfig => project'.config # NoConfig
      /\ project'.config # NoConfig <=> reported'.config # NoConfig
  BY <1>1, <1>2, <1>3, <1>5
<1>8. CASE /\ Applying(r) /\ holder' = FreeOf(c, {"memory"})
           /\ command' = [command EXCEPT ![c].at = "card", ![c].fd.memory = 0]
  <2>1. command' = [command EXCEPT ![c] = [r EXCEPT !.pc = "write", !.at = "card", !.fd.memory = 0]]
    BY <1>0, <1>1, <1>8 DEF CommandRecord, ProjectInv
  <2>2. project'.config = project.config /\ project'.card = project.card /\ reported'.config = reported.config
    BY <1>3, <1>5, <1>8 DEF Applying
  <2> QED
    BY <1>0, <1>3, <1>5, <1>6, <1>8, <2>1, <2>2, MemoryGivenBack
<1>9. CASE Leaves(c)
  <2>1. /\ command' \in [Commands -> CommandRecord] /\ command'[c] = IdleCommand
        /\ \A d \in Commands \ {c} : command'[d] = command[d]
        /\ holder' \in [Targets -> [Inodes -> Commands \cup {NoCommand}]]
        /\ \A f \in Targets, i \in Inodes : holder[f][i] # c => holder'[f][i] = holder[f][i]
    BY <1>9, LeaveDoes
  <2>2. FileTypes'
    BY <1>0, <1>3, <1>5, <2>1 DEF ProjectInv, FileTypes
  <2>3. ConfigOf(command[c])' /\ LocksOf(c)' /\ LockedThere(command[c])' /\ SeenThere(command[c])'
        /\ BeforeStands(command[c])' /\ CommandOf(command'[c])
    BY <2>1, IdleIs DEF ConfigOf, LocksOf, LockedThere, SeenThere, BeforeStands, Capturing
  <2>4. \A f \in {"config", "memory", "card"} : project'[f] = project[f] \/ Holds(r, f)
    BY <1>0, <1>5 DEF Holds, Inside
  <2>5. ~raced => /\ answered' \subseteq captured' /\ intent'.markdown \in captured' \cup {0}
                  /\ JsonStands'
    BY <1>0, <2>1, JsonKept DEF ProjectInv, Undisturbed
  <2>6. \A f \in Targets, i \in Inodes : \A d \in Commands \ {c} : holder[f][i] = d => holder'[f][i] = d
    BY <2>1
  <2> QED
    BY <1>0, <1>6, <1>7, <2>1, <2>2, <2>3, <2>4, <2>5, <2>6, CommandStep
<1> QED
  BY <1>8, <1>9 DEF WriteProject, Applying

\* Nobody else is between the two files of the intent while a command holds
\* its lock and is not itself.
LEMMA IntentAlone ==
    ASSUME ProjectInv, ~raced, NEW c \in Commands, Holds(command[c], "intent"),
           command[c].pc \notin {"markdown", "undo"}
    PROVE  intent.json \in captured \cup {0}
<1>1. ASSUME NEW d \in Commands, command[d].pc \in {"markdown", "undo"} PROVE Holds(command[d], "intent")
  BY <1>1, RecordIs DEF CommandOf, Capturing, Holds, Inside, TargetOf, Applying
<1>2. JsonStands /\ "intent" \in Targets
  BY DEF ProjectInv, Undisturbed, Targets
<1> QED
  BY <1>1, <1>2, HoldsAlone DEF JsonStands

\* A capture that took effect: the command leaves with its generation in place.
LEMMA CaptureLeaves ==
    ASSUME ProjectInv, NEW c \in Commands, Leaves(c), captured' = captured \cup {command[c].gen},
           intent' \in [json : Generations, markdown : Generations], intent'.json = intent.json,
           intent'.markdown \in {intent.markdown, command[c].gen},
           UNCHANGED <<project, reported, answered, lockFile, raced, starts, touches>>
    PROVE  ProjectInv'
<1>1. \A d \in Commands \ {c} : command'[d] = command[d]
  BY LeaveDoes
<1>2. ~raced => JsonStands'
  <2>1. ~raced => JsonStands
    BY DEF ProjectInv, Undisturbed
  <2> QED
    BY <1>1, <2>1 DEF JsonStands
<1>3. captured' \subseteq Generations
  BY RecordIs DEF ProjectInv, FileTypes
<1>4. ~raced => intent'.markdown \in captured' \cup {0}
  BY DEF ProjectInv, Undisturbed
<1> QED
  BY <1>2, <1>3, <1>4, LeaveKeeps

\* capture_intent_lock stages its two files.
LEMMA StageIntentStep == ASSUME ProjectInv, NEW c \in Commands, StageIntent(c) PROVE ProjectInv'
<1> DEFINE r == command[c]
<1>0. /\ r.pc = "read" /\ r.kind = "capture"
      /\ UNCHANGED <<project, reported, intent, captured, answered, lockFile, raced, starts, touches>>
  BY DEF StageIntent, CommandAt
<1>1. CASE Leaves(c)
  BY <1>0, <1>1, LeaveEarly
<1>2. CASE command' = [command EXCEPT ![c].pc = "json", ![c].before = intent.json] /\ UNCHANGED holder
  <2> DEFINE n == [r EXCEPT !.pc = "json", !.before = intent.json]
  <2>1. /\ r \in CommandRecord /\ command \in [Commands -> CommandRecord] /\ intent.json \in Generations
        /\ starts' \in Nat /\ CommandOf(r)
    BY <1>0, RecordIs DEF ProjectInv, FileTypes
  <2>2. /\ n \in CommandRecord /\ n.pc = "json" /\ n.kind = r.kind /\ n.at = r.at /\ n.arg = r.arg
        /\ n.fd = r.fd /\ n.before = intent.json
    BY <2>1 DEF CommandRecord, CommandPCs, Inside
  <2>3. command' = [command EXCEPT ![c] = n]
    BY <1>2, <2>1
  <2> HIDE DEF n
  <2>4. r.at = "intent" /\ Holds(r, "intent") /\ ~Applying(n)
    BY <1>0, <2>1, <2>2 DEF CommandOf, TargetOf, Applying, Holds, Inside
  <2>5. CommandOf(n) /\ ConfigOf(n)
    BY <1>0, <2>1, <2>2, <2>4 DEF CommandOf, ConfigOf, Inside, Capturing, TargetOf
  <2>6. \A g \in Targets : Holds(n, g) => Holds(r, g) /\ n.fd[g] = r.fd[g]
    BY <2>2, <2>4 DEF Holds
  <2>7. ~raced => SeenThere(n) /\ BeforeStands(n)
    BY <1>0, <2>2, <2>4, IntentAlone DEF SeenThere, BeforeStands
  <2> QED
    BY <1>0, <1>2, <2>1, <2>2, <2>3, <2>5, <2>6, <2>7, RecordStep
<1> QED
  BY <1>1, <1>2 DEF StageIntent

\* Between the two files: the command goes on to the next of them.
LEMMA CaptureGoes ==
    ASSUME ProjectInv, NEW c \in Commands, NEW pc \in {"markdown", "undo"},
           command[c].pc \in {"json", "markdown"}, Goes(c, pc),
           intent' \in [json : Generations, markdown : Generations], intent'.markdown = intent.markdown,
           intent'.json = command[c].gen \/ (intent'.json = intent.json /\ command[c].pc = "markdown"),
           UNCHANGED <<project, reported, captured, answered, lockFile, holder, raced, starts, touches>>
    PROVE  ProjectInv'
<1> DEFINE r == command[c]
           n == [r EXCEPT !.pc = pc]
<1>1. r \in CommandRecord /\ command \in [Commands -> CommandRecord] /\ CommandOf(r)
  BY RecordIs DEF ProjectInv
<1>2. /\ n \in CommandRecord /\ n.pc = pc /\ n.kind = r.kind /\ n.at = r.at /\ n.arg = r.arg
      /\ n.fd = r.fd /\ n.before = r.before /\ n.gen = r.gen
  BY <1>1 DEF CommandRecord, CommandPCs, Inside
<1>3. command' = [command EXCEPT ![c] = n]
  BY <1>1 DEF Goes
<1> HIDE DEF n
<1>4. /\ command' \in [Commands -> CommandRecord] /\ command'[c] = n
      /\ \A d \in Commands \ {c} : command'[d] = command[d]
  BY <1>1, <1>2, <1>3
<1>5. r.kind = "capture" /\ r.at = "intent" /\ ~Applying(n) /\ ~Applying(r)
  BY <1>1, <1>2 DEF CommandOf, Capturing, Applying, TargetOf
<1>6. CommandOf(n)
  BY <1>1, <1>2, <1>5 DEF CommandOf, Capturing, Inside, TargetOf
<1>7. \A f \in Targets : Holds(n, f) => Holds(r, f)
  BY <1>2, <1>5 DEF Holds, Inside
<1>8. ConfigOf(command[c])'
  BY <1>2, <1>4 DEF ConfigOf
<1>9. LocksOf(c)'
  BY <1>2, <1>4, <1>7, RecordIs DEF LocksOf
<1>10. ~raced => LockedThere(command[c])' /\ SeenThere(command[c])' /\ BeforeStands(command[c])'
  BY <1>2, <1>4, <1>5, <1>7, RecordIs DEF LockedThere, SeenThere, BeforeStands, Capturing
<1>11. ~raced => JsonStands'
  <2>1. CASE intent'.json = r.gen
    BY <1>2, <1>4, <2>1 DEF JsonStands
  <2>2. CASE intent'.json = intent.json /\ r.pc = "markdown"
    <3>1. ~raced => JsonStands
      BY DEF ProjectInv, Undisturbed
    <3> QED
      BY <1>2, <1>4, <2>2, <3>1 DEF JsonStands
  <2> QED
    BY <2>1, <2>2
<1>12. /\ FileTypes' /\ (project'.config # NoConfig <=> reported'.config # NoConfig)
       /\ ~raced => /\ project' = reported' /\ answered' \subseteq captured'
                    /\ intent'.markdown \in captured' \cup {0}
  BY DEF ProjectInv, FileTypes, Undisturbed
<1> QED
  BY <1>4, <1>2, <1>6, <1>8, <1>9, <1>10, <1>11, <1>12, CommandStep

\* The first of the two files is in place.
LEMMA PlaceJsonStep == ASSUME ProjectInv, NEW c \in Commands, PlaceJson(c) PROVE ProjectInv'
<1>1. /\ command[c].pc = "json" /\ Goes(c, "markdown") /\ intent' = [intent EXCEPT !.json = command[c].gen]
      /\ UNCHANGED <<project, reported, captured, answered, lockFile, holder, raced, starts, touches>>
  BY DEF PlaceJson, CommandAt
<1>2. intent \in [json : Generations, markdown : Generations] /\ command[c].gen \in Generations
  BY RecordIs DEF ProjectInv, FileTypes
<1>3. /\ intent' \in [json : Generations, markdown : Generations] /\ intent'.markdown = intent.markdown
      /\ intent'.json = command[c].gen
  BY <1>1, <1>2
<1> QED
  BY <1>1, <1>3, CaptureGoes

\* The second is in place, or is not and the first is taken back next.
LEMMA PlaceMarkdownStep == ASSUME ProjectInv, NEW c \in Commands, PlaceMarkdown(c) PROVE ProjectInv'
<1>0. /\ command[c].pc = "markdown"
      /\ UNCHANGED <<project, reported, answered, lockFile, raced, starts, touches>>
  BY DEF PlaceMarkdown, CommandAt
<1>1. intent \in [json : Generations, markdown : Generations] /\ command[c].gen \in Generations
  BY RecordIs DEF ProjectInv, FileTypes
<1>2. CASE /\ intent' = [intent EXCEPT !.markdown = command[c].gen]
           /\ captured' = captured \cup {command[c].gen} /\ Leaves(c)
  <2>1. /\ intent' \in [json : Generations, markdown : Generations] /\ intent'.json = intent.json
        /\ intent'.markdown = command[c].gen
    BY <1>1, <1>2
  <2> QED
    BY <1>0, <1>2, <2>1, CaptureLeaves
<1>3. CASE Goes(c, "undo") /\ UNCHANGED <<intent, captured, holder>>
  BY <1>0, <1>1, <1>3, CaptureGoes
<1> QED
  BY <1>2, <1>3 DEF PlaceMarkdown

\* The rollback puts the copy back, which is a capture that took effect.
LEMMA UndoStep == ASSUME ProjectInv, NEW c \in Commands, UndoIntent(c) PROVE ProjectInv'
<1>0. /\ command[c].pc = "undo" /\ Leaves(c)
      /\ UNCHANGED <<project, reported, answered, lockFile, raced, starts, touches>>
  BY DEF UndoIntent, CommandAt
<1>1. /\ intent \in [json : Generations, markdown : Generations] /\ captured \subseteq Generations
      /\ command[c].before \in Generations
  BY RecordIs DEF ProjectInv, FileTypes
<1>2. CASE intent' = [intent EXCEPT !.json = command[c].before] /\ UNCHANGED captured
  <2>1. /\ intent' \in [json : Generations, markdown : Generations] /\ intent'.json = command[c].before
        /\ intent'.markdown = intent.markdown
    BY <1>1, <1>2
  <2>2. ~raced => command[c].before \in captured \cup {0} /\ intent.markdown \in captured \cup {0}
    BY <1>0, RecordIs DEF BeforeStands, Capturing, Undisturbed
  <2>3. ~raced => intent'.markdown \in captured' \cup {0} /\ JsonStands'
    BY <1>2, <2>1, <2>2 DEF JsonStands
  <2> QED
    BY <1>0, <1>1, <1>2, <2>1, <2>3, LeaveKeeps
<1>3. CASE captured' = captured \cup {command[c].gen} /\ UNCHANGED intent
  BY <1>0, <1>1, <1>3, CaptureLeaves
<1> QED
  BY <1>2, <1>3 DEF UndoIntent

\* A reader compares the pair it has read without the lock.
LEMMA CompareStep == ASSUME ProjectInv, NEW c \in Commands, ComparePair(c) PROVE ProjectInv'
<1> DEFINE r == command[c]
<1>0. /\ r.pc = "compare"
      /\ UNCHANGED <<project, reported, intent, captured, lockFile, holder, raced, starts, touches>>
  BY DEF ComparePair, CommandAt
<1>1. /\ r \in CommandRecord /\ CommandOf(r) /\ r.kind = "read" /\ r.gen # 0 /\ r.gen \in Generations
      /\ command \in [Commands -> CommandRecord] /\ ~Applying(r)
  BY <1>0, RecordIs DEF CommandOf, Applying, ProjectInv
<1>2. CASE /\ intent.markdown = r.gen /\ answered' = answered \cup {r.gen}
           /\ command' = [command EXCEPT ![c] = IdleCommand]
  <2>1. /\ command' \in [Commands -> CommandRecord] /\ command'[c] = IdleCommand
        /\ \A d \in Commands \ {c} : command'[d] = command[d]
    BY <1>1, <1>2, IdleIs
  <2>2. FileTypes'
    BY <1>0, <1>1, <1>2 DEF ProjectInv, FileTypes
  <2>3. ConfigOf(command[c])' /\ LocksOf(c)' /\ LockedThere(command[c])' /\ SeenThere(command[c])'
        /\ BeforeStands(command[c])' /\ CommandOf(command'[c])
    BY <2>1, IdleIs DEF ConfigOf, LocksOf, LockedThere, SeenThere, BeforeStands, Capturing
  <2>4. ~raced => JsonStands'
    BY <1>0, <2>1, JsonKept DEF ProjectInv, Undisturbed
  <2>5. ~raced => /\ project' = reported' /\ answered' \subseteq captured'
                  /\ intent'.markdown \in captured' \cup {0}
    BY <1>0, <1>1, <1>2 DEF ProjectInv, Undisturbed
  <2>6. project'.config # NoConfig <=> reported'.config # NoConfig
    BY <1>0 DEF ProjectInv
  <2> QED
    BY <1>0, <2>1, <2>2, <2>3, <2>4, <2>5, <2>6, CommandStep
<1>3. CASE Goes(c, "open") /\ UNCHANGED answered
  <2> DEFINE n == [r EXCEPT !.pc = "open"]
  <2>1. /\ n \in CommandRecord /\ n.pc = "open" /\ n.kind = r.kind /\ n.at = r.at /\ n.arg = r.arg
    BY <1>1 DEF CommandRecord, CommandPCs
  <2>2. command' = [command EXCEPT ![c] = n]
    BY <1>1, <1>3 DEF Goes
  <2> HIDE DEF n
  <2>3. CommandOf(n) /\ ConfigOf(n) /\ SeenThere(n) /\ BeforeStands(n) /\ \A g \in Targets : ~Holds(n, g)
    BY <1>0, <1>1, <2>1 DEF CommandOf, ConfigOf, SeenThere, BeforeStands, Holds, Inside, Capturing, Applying
  <2>4. starts' \in Nat
    BY <1>0 DEF ProjectInv, FileTypes
  <2> QED
    BY <1>0, <1>3, <2>1, <2>2, <2>3, <2>4, RecordStep
<1> QED
  BY <1>2, <1>3 DEF ComparePair

\* The rendering is made again under the lock, of a capture that took effect.
LEMMA RegenerateStep == ASSUME ProjectInv, NEW c \in Commands, RegenerateMarkdown(c) PROVE ProjectInv'
<1> DEFINE r == command[c]
<1>0. /\ r.pc = "read" /\ r.kind = "read" /\ Leaves(c)
      /\ intent' = [intent EXCEPT !.markdown = intent.json]
      /\ answered' = IF intent.json = 0 THEN answered ELSE answered \cup {intent.json}
      /\ UNCHANGED <<project, reported, captured, lockFile, raced, starts, touches>>
  BY DEF RegenerateMarkdown, CommandAt
<1>1. /\ intent \in [json : Generations, markdown : Generations]
      /\ captured \cup answered \subseteq Generations
  BY DEF ProjectInv, FileTypes
<1>2. /\ intent' \in [json : Generations, markdown : Generations] /\ intent'.json = intent.json
      /\ intent'.markdown = intent.json
  BY <1>0, <1>1
<1>3. Holds(r, "intent")
  BY <1>0, RecordIs DEF CommandOf, TargetOf, Applying, Holds, Inside
<1>4. ~raced => intent.json \in captured \cup {0}
  BY <1>0, <1>3, IntentAlone
<1>5. /\ command' \in [Commands -> CommandRecord] /\ command'[c] = IdleCommand
      /\ \A d \in Commands \ {c} : command'[d] = command[d]
      /\ holder' \in [Targets -> [Inodes -> Commands \cup {NoCommand}]]
      /\ \A f \in Targets, i \in Inodes : holder[f][i] # c => holder'[f][i] = holder[f][i]
  BY <1>0, LeaveDoes
<1>6. FileTypes'
  BY <1>0, <1>1, <1>2, <1>5 DEF ProjectInv, FileTypes
<1>7. ConfigOf(command[c])' /\ LocksOf(c)' /\ LockedThere(command[c])' /\ SeenThere(command[c])'
      /\ BeforeStands(command[c])' /\ CommandOf(command'[c])
  BY <1>5, IdleIs DEF ConfigOf, LocksOf, LockedThere, SeenThere, BeforeStands, Capturing
<1>8. ~raced => /\ project' = reported' /\ answered' \subseteq captured'
                /\ intent'.markdown \in captured' \cup {0} /\ JsonStands'
  BY <1>0, <1>2, <1>4 DEF ProjectInv, Undisturbed, JsonStands
<1>9. project'.config # NoConfig <=> reported'.config # NoConfig
  BY <1>0 DEF ProjectInv
<1>10. \A f \in Targets, i \in Inodes : \A d \in Commands \ {c} : holder[f][i] = d => holder'[f][i] = d
  BY <1>5
<1> QED
  BY <1>0, <1>5, <1>6, <1>7, <1>8, <1>9, <1>10, CommandStep

\* Killed: a capture whose first file is in place took effect.
LEMMA StopStep == ASSUME ProjectInv, NEW c \in Commands, StopCommand(c) PROVE ProjectInv'
<1>0. Leaves(c) /\ UNCHANGED <<project, reported, intent, answered, lockFile, raced, starts, touches>>
  BY DEF StopCommand
<1>1. CASE command[c].pc \in {"markdown", "undo"}
  <2>1. captured' = captured \cup {command[c].gen}
    BY <1>1 DEF StopCommand
  <2>2. intent \in [json : Generations, markdown : Generations]
    BY DEF ProjectInv, FileTypes
  <2> QED
    BY <1>0, <2>1, <2>2, CaptureLeaves
<1>2. CASE command[c].pc \notin {"markdown", "undo"}
  <2>1. captured' = captured
    BY <1>2 DEF StopCommand
  <2> QED
    BY <1>0, <1>2, <2>1, LeaveEarly
<1> QED
  BY <1>1, <1>2

\* What the user does to files and caches: no command under a lock of theirs
\* was disturbed, or raced says so.
LEMMA TouchStep ==
    ASSUME ProjectInv, FileTypes', NEW fs \in SUBSET Targets, UserTouch(fs),
           intent'.json = intent.json, intent'.markdown \in {intent.markdown, 0},
           \A f \in Targets \ fs : lockFile'[f] = lockFile[f],
           \A f \in {"config", "memory", "card"} \ fs : project'[f] = project[f],
           project.config # NoConfig => project'.config # NoConfig,
           project'.config # NoConfig <=> reported'.config # NoConfig,
           project = reported => project' = reported'
    PROVE  ProjectInv'
<1>0. /\ FileTypes /\ command \in [Commands -> CommandRecord]
      /\ \A d \in Commands : CommandOf(command[d]) /\ ConfigOf(command[d]) /\ LocksOf(d)
      /\ ~raced => Undisturbed
  BY DEF ProjectInv
<1>1. UNCHANGED <<captured, answered, holder, command>> /\ raced' = (raced \/ \E f \in fs : UnderLock(f))
  BY DEF UserTouch
<1>2. \A d \in Commands : CommandOf(command'[d]) /\ LocksOf(d)'
  BY <1>0, <1>1 DEF LocksOf
<1>3. \A d \in Commands : ConfigOf(command[d])'
  BY <1>0, <1>1 DEF ConfigOf
<1>4. ASSUME ~raced' PROVE Undisturbed'
  <2>1. ~raced /\ \A f \in fs : ~UnderLock(f)
    BY <1>1, <1>4 DEF FileTypes
  <2>2. ASSUME NEW d \in Commands, NEW f \in fs PROVE ~Holds(command[d], f)
    <3>1. f \in Targets /\ (Holds(command[d], f) => command[d].fd[f] \in Inodes)
      BY <1>0 DEF Holds, CommandOf
    <3>2. d # NoCommand
      BY ProjectFilesAssumption
    <3> QED
      BY <1>0, <2>1, <3>1, <3>2 DEF LocksOf, UnderLock
  <2>3. ASSUME NEW d \in Commands
        PROVE  LockedThere(command[d])' /\ SeenThere(command[d])' /\ BeforeStands(command[d])'
    <3>0. LockedThere(command[d]) /\ SeenThere(command[d]) /\ BeforeStands(command[d]) /\ CommandOf(command[d])
      BY <1>0, <2>1 DEF Undisturbed
    <3>1. LockedThere(command[d])'
      BY <1>1, <2>2, <3>0 DEF LockedThere
    <3>2. command[d].pc = "write" => /\ Holds(command[d], command[d].at)
                                     /\ command[d].at \in {"config", "memory", "card"}
      BY <3>0 DEF CommandOf, Holds, Inside, FileKinds, TargetOf, Applying
    <3>3. Applying(command[d]) => Holds(command[d], "card")
      BY DEF Holds
    <3>4. SeenThere(command[d])'
      BY <1>1, <2>2, <3>0, <3>2, <3>3 DEF SeenThere
    <3> QED
      BY <1>1, <3>0, <3>1, <3>4 DEF BeforeStands
  <2>4. JsonStands'
    BY <1>0, <1>1, <2>1 DEF Undisturbed, JsonStands
  <2> QED
    BY <1>0, <1>1, <2>1, <2>3, <2>4 DEF Undisturbed
<1> QED
  BY <1>0, <1>1, <1>2, <1>3, <1>4 DEF ProjectInv

\* The user edits a file or clears a cache.
LEMMA UserStep ==
    ASSUME ProjectInv, EditConfig \/ EditMemory \/ EditMarkdown \/ ClearCache \/ ClearIntentCache
    PROVE  ProjectInv'
<1>0. /\ FileTypes /\ project \in Projects /\ reported \in Projects
      /\ project.config # NoConfig <=> reported.config # NoConfig
  BY DEF ProjectInv, FileTypes
<1>1. CASE EditConfig
  <2>1. PICK new \in {[project.config EXCEPT !.integrations = "edited"]}
                  \cup {[project.config EXCEPT !.gates = gs] : gs \in SUBSET GateIds} :
          /\ project' = [project EXCEPT !.config = new] /\ reported' = [reported EXCEPT !.config = new]
    BY <1>1 DEF EditConfig
  <2>2. /\ UserTouch({"config"}) /\ project.config \in Configs
        /\ UNCHANGED <<intent, lockFile, captured, answered, holder>> /\ touches' \in Nat /\ starts' = starts
        /\ raced' \in BOOLEAN
    BY <1>0, <1>1 DEF EditConfig, UserTouch, Projects, FileTypes
  <2>3. new \in Configs
    BY <2>2 DEF Configs
  <2>4. new # NoConfig
    BY <2>3, ProjectFilesAssumption DEF Configs, NoConfig, Template
  <2>5. /\ project' \in Projects /\ reported' \in Projects /\ project'.config = new /\ reported'.config = new
        /\ \A f \in {"config", "memory", "card"} \ {"config"} : project'[f] = project[f]
        /\ project = reported => project' = reported'
    BY <1>0, <2>1, <2>3 DEF Projects
  <2>6. FileTypes'
    BY <1>0, <2>2, <2>5 DEF FileTypes
  <2> QED
    BY <2>2, <2>4, <2>5, <2>6, TouchStep DEF Targets
<1>2. CASE EditMemory
  <2>1. PICK notes \in SUBSET Notes :
          project' = [project EXCEPT !.memory = notes] /\ reported' = [reported EXCEPT !.memory = notes]
    BY <1>2 DEF EditMemory
  <2>2. /\ UserTouch({"memory"}) /\ raced' \in BOOLEAN
        /\ UNCHANGED <<intent, lockFile, captured, answered, holder>> /\ touches' \in Nat /\ starts' = starts
    BY <1>0, <1>2 DEF EditMemory, UserTouch, FileTypes
  <2>3. /\ project' \in Projects /\ reported' \in Projects /\ project'.config = project.config
        /\ reported'.config = reported.config
        /\ \A f \in {"config", "memory", "card"} \ {"memory"} : project'[f] = project[f]
        /\ project = reported => project' = reported'
    BY <1>0, <2>1 DEF Projects
  <2>4. FileTypes'
    BY <1>0, <2>2, <2>3 DEF FileTypes
  <2> QED
    BY <1>0, <2>2, <2>3, <2>4, TouchStep DEF Targets
<1>3. CASE EditMarkdown
  <2>1. /\ UserTouch({}) /\ intent' = [intent EXCEPT !.markdown = 0] /\ raced' \in BOOLEAN
        /\ UNCHANGED <<project, reported, lockFile, captured, answered, holder>>
        /\ touches' \in Nat /\ starts' = starts
    BY <1>0, <1>3 DEF EditMarkdown, UserTouch, FileTypes
  <2>2. /\ intent' \in [json : Generations, markdown : Generations] /\ intent'.json = intent.json
        /\ intent'.markdown = 0
    BY <1>0, <2>1, IdleIs DEF FileTypes
  <2>3. FileTypes'
    BY <1>0, <2>1, <2>2 DEF FileTypes
  <2> QED
    BY <1>0, <2>1, <2>2, <2>3, TouchStep
<1>4. CASE ClearCache
  <2>1. /\ UserTouch({"config", "memory", "card"}) /\ raced' \in BOOLEAN
        /\ project' = [project EXCEPT !.card = NoCard] /\ reported' = [reported EXCEPT !.card = NoCard]
        /\ lockFile' = [f \in Targets |-> IF f = "intent" THEN lockFile[f] ELSE 0]
        /\ UNCHANGED <<intent, captured, answered, holder>> /\ touches' \in Nat /\ starts' = starts
    BY <1>0, <1>4 DEF ClearCache, UserTouch, FileTypes
  <2>2. /\ project' \in Projects /\ reported' \in Projects /\ project'.config = project.config
        /\ reported'.config = reported.config
        /\ project = reported => project' = reported'
    BY <1>0, <2>1 DEF Projects, NoCard
  <2>3. lockFile' \in [Targets -> Inodes \cup {0}] /\ lockFile'["intent"] = lockFile["intent"]
    BY <1>0, <2>1 DEF FileTypes, Targets
  <2>4. FileTypes'
    BY <1>0, <2>1, <2>2, <2>3 DEF FileTypes
  <2> QED
    BY <1>0, <2>1, <2>2, <2>3, <2>4, TouchStep DEF Targets
<1>5. CASE ClearIntentCache
  <2>1. /\ UserTouch({"intent"}) /\ lockFile' = [lockFile EXCEPT !["intent"] = 0] /\ raced' \in BOOLEAN
        /\ UNCHANGED <<project, reported, intent, captured, answered, holder>>
        /\ touches' \in Nat /\ starts' = starts
    BY <1>0, <1>5 DEF ClearIntentCache, UserTouch, FileTypes
  <2>2. FileTypes' /\ \A f \in Targets \ {"intent"} : lockFile'[f] = lockFile[f]
    BY <1>0, <2>1 DEF FileTypes
  <2> QED
    BY <1>0, <2>1, <2>2, TouchStep DEF Targets
<1> QED
  BY <1>1, <1>2, <1>3, <1>4, <1>5

\* The invariant holds at the start, in a project that has a configuration or not.
LEMMA ProjectStarts == ProjectInit => ProjectInv
<1> SUFFICES ASSUME ProjectInit PROVE ProjectInv
  OBVIOUS
<1>1. PICK config \in {NoConfig} \cup {Template(a) : a \in Presets} :
          project = [Blank EXCEPT !.config = config]
  BY DEF ProjectInit
<1>2. /\ reported = project /\ intent = [json |-> 0, markdown |-> 0] /\ captured = {} /\ answered = {}
      /\ lockFile = [f \in Targets |-> 0] /\ holder = [f \in Targets |-> [i \in Inodes |-> NoCommand]]
      /\ command = [c \in Commands |-> IdleCommand] /\ raced = FALSE /\ starts = 0 /\ touches = 0
  BY DEF ProjectInit
<1>3. project \in Projects
  BY <1>1, IdleIs DEF Projects, Configs, Template
<1>4. command \in [Commands -> CommandRecord] /\ \A c \in Commands : command[c] = IdleCommand
  BY <1>2, IdleIs
<1>5. FileTypes
  BY <1>2, <1>3, IdleIs DEF FileTypes
<1>6. \A c \in Commands : CommandOf(command[c]) /\ ConfigOf(command[c]) /\ LocksOf(c)
  BY <1>4, IdleIs DEF ConfigOf, LocksOf
<1>7. Undisturbed
  BY <1>2, <1>4, IdleIs DEF Undisturbed, LockedThere, SeenThere, BeforeStands, JsonStands, Capturing
<1> QED
  BY <1>2, <1>4, <1>5, <1>6, <1>7 DEF ProjectInv

\* The invariant is inductive: one step per action.
LEMMA ProjectStep == ProjectInv /\ [ProjectNext]_projectVars => ProjectInv'
<1> SUFFICES ASSUME ProjectInv, [ProjectNext]_projectVars PROVE ProjectInv'
  OBVIOUS
<1>1. ASSUME NEW c \in Commands,
             \/ StartCommand(c) \/ OpenLock(c) \/ TakeLock(c) \/ WaitTimesOut(c)
             \/ LookUpCard(c) \/ ReadIntent(c) \/ RereadConfig(c)
      PROVE  ProjectInv'
  <2>1. WaitTimesOut(c) => ProjectInv'
    BY LeaveEarly DEF WaitTimesOut, CommandAt
  <2> QED
    BY <1>1, <2>1, StartStep, OpenStep, TakeStep, LookStep, ReadStep
<1>2. ASSUME NEW c \in Commands, ReadProject(c) PROVE ProjectInv'
  <2>1. CASE Declined(command[c])
    BY <1>2, <2>1, LeaveEarly DEF ReadProject, CommandAt
  <2> QED
    BY <1>2, <2>1, ReadStep
<1>3. ASSUME NEW c \in Commands,
             \/ ReadForApply(c) \/ WriteProject(c) \/ StageIntent(c) \/ PlaceJson(c) \/ PlaceMarkdown(c)
             \/ UndoIntent(c) \/ ComparePair(c) \/ RegenerateMarkdown(c) \/ StopCommand(c)
      PROVE  ProjectInv'
  BY <1>3, ApplyStep, WriteStep, StageIntentStep, PlaceJsonStep, PlaceMarkdownStep, UndoStep, CompareStep,
     RegenerateStep, StopStep
<1>4. CASE UNCHANGED projectVars
  BY <1>4 DEF projectVars, ProjectInv, FileTypes, ConfigOf, LocksOf, Undisturbed, LockedThere, SeenThere,
     BeforeStands, JsonStands, Holds, Applying, CommandOf
<1> QED
  BY <1>1, <1>2, <1>3, <1>4, UserStep DEF ProjectNext

\* The inductive invariant of the commands on the project's files.
THEOREM ProjectInvariant == ProjectSpec => []ProjectInv
  BY ProjectStarts, ProjectStep, PTL DEF ProjectSpec

\* The records of the commands have the shape their readers rely on, and who is
\* inside a command's lock holds it.
THEOREM ProjectTypeCorrect == ProjectSpec => []ProjectTypeOK
<1>1. ProjectInv => ProjectTypeOK
  <2> SUFFICES ASSUME ProjectInv PROVE ProjectTypeOK
    OBVIOUS
  <2>1. ASSUME NEW c \in Commands
        PROVE  LET r == command[c] IN
                 /\ r.pc \in {"idle", "look", "compare", "open", "wait"} \cup Inside
                 /\ r.pc # "idle" => r.arg \in ArgumentsOf[r.kind]
                 /\ r.pc \in Inside => holder[r.at][r.fd[r.at]] = c
                 /\ r.seen \in Projects /\ r.gen \in Generations /\ r.before \in Generations
    BY RecordIs DEF CommandOf, CommandPCs, LocksOf, Holds
  <2> QED
    BY <2>1 DEF ProjectTypeOK, ProjectInv, FileTypes
<1> QED
  BY <1>1, ProjectInvariant, PTL

\* Commands that run at the same time do not lose each other's work, and a reader
\* of the intent is not given a capture that was taken back (config_lock.py).
THEOREM CompletedWritesKept == ProjectSpec => []CompletedWritesStand
<1>1. ProjectInv => CompletedWritesStand
  BY DEF ProjectInv, Undisturbed, CompletedWritesStand
<1> QED
  BY <1>1, ProjectInvariant, PTL

-----------------------------------------------------------------------------
(* The installed skills: what the rollback would make of each is what was. *)

\* The stages of a transaction, and its record.
PackPCs == {"idle", "retire", "snapshot", "install", "swap", "save", "finish", "undo",
            "failed", "remove", "drop", "unremove"}
SkillTrees == [Skills -> Digests]
BeforeRecord == [tree : SkillTrees, ledger : SkillTrees, mode : BOOLEAN]
PackRecord == [pc : PackPCs, todo : SUBSET Skills, ledger : SkillTrees, moved : SkillTrees, snap : SkillTrees,
               absent : SUBSET Skills, written : SkillTrees, at : Skills \cup {NoSkill}, saved : BOOLEAN,
               before : BeforeRecord, touched : SUBSET Skills]
ImportRecord == [pc : {"idle", "scanned", "place"}, at : Skills \cup {NoSkill},
                 scanned : Digests, backup : Digests]

\* The types of the skills, the ledger, the transaction and the import.
SkillTypes ==
    /\ tree \in SkillTrees /\ ledger \in SkillTrees /\ tokenMode \in BOOLEAN
    /\ edits \in 0 .. MaxEdits /\ failures \in 0 .. MaxFailures
    /\ pack \in PackRecord /\ (pack.pc = "swap" => pack.at \in Skills)
    /\ import \in ImportRecord /\ (import.pc # "idle" => import.at \in Skills)

\* The ledger is the one from before until it is saved, then the transaction's.
LedgerKept ==
    pack.pc # "idle" =>
        /\ tokenMode = pack.before.mode
        /\ pack.saved => pack.pc \in {"finish", "drop", "undo", "unremove", "failed"}
        /\ ledger = IF pack.saved /\ pack.pc # "failed" THEN pack.ledger ELSE pack.before.ledger

\* The skills a stage has still to do are those it is for.
TodoOf ==
    /\ pack.pc = "retire" => pack.todo \subseteq RetiredSkills
    /\ pack.pc \in {"snapshot", "install", "swap"} => pack.todo \subseteq CoreSkills

\* The step for this skill has not been taken; its copy is there, if it is ours.
Untried(s) ==
    /\ tree[s] = pack.before.tree[s] /\ s \notin pack.absent
    /\ pack.moved[s] = NoTreeOf /\ pack.written[s] = NoTreeOf /\ pack.snap[s] = NoTreeOf
Copied(s) ==
    /\ tree[s] = pack.before.tree[s] /\ (s \in pack.absent <=> tree[s] = NoTreeOf)
    /\ pack.moved[s] = NoTreeOf /\ pack.written[s] = NoTreeOf
    /\ pack.snap[s] = IF Ours(s, pack.ledger) THEN tree[s] ELSE NoTreeOf
\* Its old tree is aside, and the new one not in place.
Aside(s) ==
    /\ tree[s] = NoTreeOf /\ pack.moved[s] = pack.before.tree[s] /\ pack.written[s] = NoTreeOf
    /\ pack.snap[s] = pack.before.tree[s] /\ pack.before.tree[s] # NoTreeOf

\* What the rollback of a removal makes of a skill.
Unremoved(s) == IF tree[s] = NoTreeOf THEN pack.moved[s] ELSE tree[s]

\* What the rollback would make of a skill is what was there.
Restorable(s) ==
    LET was == pack.before.tree[s] IN
    /\ pack.pc = "retire" /\ s \in CoreSkills \cup pack.todo => Untried(s)
    /\ pack.pc = "snapshot" /\ s \in CoreSkills => IF s \in pack.todo THEN Untried(s) ELSE Copied(s)
    /\ pack.pc = "install" /\ s \in pack.todo => Copied(s)
    /\ pack.pc = "swap" => IF s = pack.at THEN Aside(s) ELSE s \in pack.todo => Copied(s)
    /\ pack.pc \in {"retire", "snapshot", "install", "save", "finish"} => Undone(s) = was
    /\ pack.pc = "swap" /\ s # pack.at => Undone(s) = was
    /\ pack.pc = "undo" => (IF s \in pack.todo THEN Undone(s) ELSE tree[s]) = was
    /\ pack.pc = "remove" /\ s \in pack.todo => tree[s] = was /\ pack.moved[s] = NoTreeOf
    /\ pack.pc \in {"remove", "drop"} => Unremoved(s) = was
    /\ pack.pc = "unremove" => (IF s \in pack.todo THEN Unremoved(s) ELSE tree[s]) = was
    /\ pack.pc = "failed" => tree[s] = was

\* What is set aside can be deleted, as the runs suppose.
Deletable == "cleanup" \notin PackFailures

\* The inductive invariant.
SkillInv ==
    /\ SkillTypes /\ LedgerKept /\ TodoOf
    /\ Deletable => \A s \in Skills \ pack.touched : Restorable(s)

\* The digests, the idle transaction and the idle import.
LEMMA IdlePackIs ==
    /\ NoTreeOf \in Digests /\ Earlier \in Digests /\ Bundled \in Digests
    /\ \A e \in 0 .. MaxEdits : Bundled + e \in Digests
    /\ NoneOf \in SkillTrees /\ IdlePack \in PackRecord /\ IdlePack.pc = "idle"
    /\ IdleImport \in ImportRecord /\ IdleImport.pc = "idle"
<1>1. /\ NoTreeOf \in Digests /\ Earlier \in Digests /\ Bundled \in Digests
      /\ \A e \in 0 .. MaxEdits : Bundled + e \in Digests
  BY SkillAssumption DEF Digests, NoTreeOf, Earlier, Bundled
<1>2. NoneOf \in SkillTrees
  BY <1>1 DEF NoneOf, SkillTrees
<1>3. NoBefore \in BeforeRecord
  BY <1>2 DEF NoBefore, BeforeRecord
<1>4. IdlePack \in PackRecord /\ IdlePack.pc = "idle"
  BY <1>2, <1>3 DEF IdlePack, PackRecord, PackPCs
<1>5. IdleImport \in ImportRecord /\ IdleImport.pc = "idle"
  BY <1>1 DEF IdleImport, ImportRecord
<1> QED
  BY <1>1, <1>2, <1>4, <1>5

\* The parts of the transaction's record.
LEMMA PackIs ==
    ASSUME SkillInv
    PROVE  /\ pack \in PackRecord /\ tree \in SkillTrees /\ ledger \in SkillTrees /\ tokenMode \in BOOLEAN
           /\ edits \in 0 .. MaxEdits /\ failures \in 0 .. MaxFailures
           /\ import \in ImportRecord /\ (import.pc # "idle" => import.at \in Skills)
           /\ pack.pc \in PackPCs /\ pack.todo \subseteq Skills /\ pack.ledger \in SkillTrees
           /\ pack.moved \in SkillTrees /\ pack.snap \in SkillTrees /\ pack.written \in SkillTrees
           /\ pack.absent \subseteq Skills /\ pack.before \in BeforeRecord /\ pack.before.tree \in SkillTrees
           /\ pack.before.ledger \in SkillTrees
           /\ pack.touched \subseteq Skills /\ LedgerKept /\ TodoOf
           /\ (pack.pc = "swap" => pack.at \in Skills)
           /\ (Deletable => \A s \in Skills \ pack.touched : Restorable(s))
  BY DEF SkillInv, SkillTypes, PackRecord, BeforeRecord

\* A failure that is considered is counted.
LEMMA FailingCounts ==
    ASSUME SkillInv, NEW kind, Failing(kind) \/ UNCHANGED failures
    PROVE  failures' \in 0 .. MaxFailures
  BY SkillAssumption, PackIs DEF Failing

\* A step for one skill leaves what is known of another.
LEMMA Beside ==
    ASSUME NEW t \in Skills, tree'[t] = tree[t], pack'.before = pack.before,
           pack'.moved[t] = pack.moved[t], pack'.snap[t] = pack.snap[t],
           pack'.written[t] = pack.written[t], pack'.ledger[t] = pack.ledger[t],
           t \in pack'.absent <=> t \in pack.absent
    PROVE  /\ Untried(t)' <=> Untried(t)
           /\ Copied(t)' <=> Copied(t)
           /\ Undone(t)' = Undone(t)
           /\ Unremoved(t)' = Unremoved(t)
  BY DEF Untried, Copied, Ours, Undone, SameTree, Unremoved

\* A transaction or a removal begins with what is there.
LEMMA BeginStep ==
    ASSUME SkillInv, NEW pc \in {"retire", "remove"}, NEW todo \in SUBSET Skills, pack.pc = "idle",
           pc = "retire" => todo = RetiredSkills,
           pack' = [IdlePack EXCEPT !.pc = pc, !.todo = todo, !.ledger = ReadLedger,
                       !.before = [tree |-> tree, ledger |-> ledger, mode |-> tokenMode]],
           UNCHANGED <<tree, ledger, tokenMode, failures>>, Others
    PROVE  SkillInv'
<1>0. UNCHANGED <<tree, ledger, tokenMode, failures, import, edits>>
  BY DEF Others
<1>1. ReadLedger \in SkillTrees
  BY PackIs, IdlePackIs DEF ReadLedger, SkillTrees
<1> DEFINE b == [tree |-> tree, ledger |-> ledger, mode |-> tokenMode]
<1>2. b \in BeforeRecord /\ b.tree = tree /\ b.ledger = ledger /\ b.mode = tokenMode
  BY PackIs DEF BeforeRecord
<1>a. pack' = [IdlePack EXCEPT !.pc = pc, !.todo = todo, !.ledger = ReadLedger, !.before = b]
  OBVIOUS
<1> HIDE DEF b
<1>3. /\ pack'.pc = pc /\ pack'.todo = todo /\ pack'.before = b
      /\ pack'.moved = NoneOf /\ pack'.snap = NoneOf /\ pack'.written = NoneOf /\ pack'.absent = {}
      /\ pack'.saved = FALSE
  BY <1>a DEF IdlePack
<1>b. pack' \in PackRecord
  BY <1>1, <1>2, <1>a, IdlePackIs DEF PackRecord, PackPCs
<1>4. SkillTypes'
  BY <1>0, <1>3, <1>b, PackIs DEF SkillTypes
<1>5. LedgerKept' /\ TodoOf'
  BY <1>0, <1>2, <1>3 DEF LedgerKept, TodoOf
<1>6. ASSUME NEW s \in Skills PROVE Restorable(s)'
  <2>1. Untried(s)'
    BY <1>0, <1>2, <1>3 DEF Untried, NoneOf
  <2>2. /\ Undone(s)' = pack'.before.tree[s] /\ Unremoved(s)' = pack'.before.tree[s]
        /\ pack'.moved[s] = NoTreeOf /\ tree'[s] = pack'.before.tree[s]
    BY <2>1 DEF Untried, Undone, SameTree, Unremoved
  <2> QED
    BY <1>3, <2>1, <2>2 DEF Restorable
<1> QED
  BY <1>4, <1>5, <1>6 DEF SkillInv

\* What a stage leaves of the record.
LEMMA GoalIs ==
    ASSUME SkillInv, NEW pc, NEW todo, Goal(pc, todo)
    PROVE  /\ pack'.pc = pc /\ pack'.todo = todo /\ pack'.before = pack.before
           /\ pack'.moved = pack.moved /\ pack'.snap = pack.snap /\ pack'.written = pack.written
           /\ pack'.ledger = pack.ledger /\ pack'.absent = pack.absent /\ pack'.touched = pack.touched
           /\ pack'.at = pack.at /\ pack'.saved = pack.saved
  BY PackIs DEF Goal, PackRecord

\* The transaction goes on to another stage, or one skill leaves its list, and
\* nothing else of its record changes.
LEMMA GoalStep ==
    ASSUME SkillInv, NEW pc \in PackPCs, NEW todo \in SUBSET Skills, Goal(pc, todo), pack.pc # "idle",
           pc \notin {"idle", "swap"}, pack.saved => pc \in {"undo", "unremove", "failed"},
           pc = "retire" => todo \subseteq RetiredSkills,
           pc \in {"snapshot", "install"} => todo \subseteq CoreSkills,
           tree' \in SkillTrees, ledger' \in SkillTrees, failures' \in 0 .. MaxFailures,
           UNCHANGED <<tokenMode, import, edits>>,
           ledger' = IF pack.saved /\ pc # "failed" THEN pack.ledger ELSE pack.before.ledger,
           Deletable => \A s \in Skills \ pack.touched : Restorable(s)'
    PROVE  SkillInv'
<1>1. /\ pack'.pc = pc /\ pack'.todo = todo /\ pack'.before = pack.before
      /\ pack'.saved = pack.saved /\ pack'.ledger = pack.ledger /\ pack'.touched = pack.touched
  BY GoalIs
<1>a. pack' \in PackRecord
  BY PackIs DEF Goal, PackRecord
<1>2. SkillTypes'
  BY <1>1, <1>a, PackIs DEF SkillTypes
<1>3. LedgerKept' /\ TodoOf'
  BY <1>1, PackIs DEF LedgerKept, TodoOf
<1> QED
  BY <1>1, <1>2, <1>3 DEF SkillInv

\* A step that fails hands every skill to the rollback.
LEMMA FailStep ==
    ASSUME SkillInv, pack.pc \in {"install", "save", "finish"}, Goal("undo", Skills),
           UNCHANGED <<tree, ledger, tokenMode, import, edits>>, failures' \in 0 .. MaxFailures
    PROVE  SkillInv'
<1>1. ASSUME Deletable, NEW s \in Skills \ pack.touched PROVE Restorable(s)'
  <2>1. Undone(s) = pack.before.tree[s]
    BY <1>1, PackIs DEF Restorable
  <2>2. Undone(s)' = Undone(s)
    BY GoalIs, Beside
  <2> QED
    BY <2>1, <2>2, GoalIs DEF Restorable
<1> QED
  BY <1>1, PackIs, GoalStep DEF LedgerKept, PackPCs

\* The ledger is saved.
LEMMA SavedStep ==
    ASSUME SkillInv, NEW pc \in {"finish", "drop"}, pack.pc = IF pc = "finish" THEN "save" ELSE "remove",
           ledger' = pack.ledger, pack' = [pack EXCEPT !.pc = pc, !.saved = TRUE],
           UNCHANGED <<tree, tokenMode, failures, import, edits>>
    PROVE  SkillInv'
<1>1. /\ pack'.pc = pc /\ pack'.todo = pack.todo /\ pack'.before = pack.before
      /\ pack'.moved = pack.moved /\ pack'.snap = pack.snap /\ pack'.written = pack.written
      /\ pack'.ledger = pack.ledger /\ pack'.absent = pack.absent /\ pack'.touched = pack.touched
      /\ pack'.saved = TRUE
  BY PackIs DEF PackRecord
<1>2. pack' \in PackRecord
  BY PackIs DEF PackRecord, PackPCs
<1>3. SkillTypes'
  BY <1>1, <1>2, PackIs DEF SkillTypes
<1>4. LedgerKept' /\ TodoOf'
  BY <1>1, PackIs DEF LedgerKept, TodoOf
<1>5. ASSUME Deletable, NEW s \in Skills \ pack.touched PROVE Restorable(s)'
  <2>1. Restorable(s)
    BY <1>5, PackIs
  <2>2. Undone(s)' = Undone(s) /\ Unremoved(s)' = Unremoved(s)
    BY <1>1, Beside
  <2> QED
    BY <1>1, <2>1, <2>2 DEF Restorable
<1> QED
  BY <1>1, <1>3, <1>4, <1>5 DEF SkillInv

\* A skill this release no longer ships is moved aside, if it is ours.
LEMMA RetireStep == ASSUME SkillInv, RetireSkill PROVE SkillInv'
<1>0. /\ pack.pc = "retire" /\ UNCHANGED <<ledger, tokenMode, failures, import, edits>>
  BY DEF RetireSkill, Others
<1>1. CASE pack.todo = {} /\ Goal("snapshot", CoreSkills) /\ UNCHANGED tree
  <2>1. ASSUME Deletable, NEW s \in Skills \ pack.touched PROVE Restorable(s)'
    <3>1. Restorable(s)
      BY <2>1, PackIs
    <3>2. /\ Undone(s)' = Undone(s) /\ (Untried(s)' <=> Untried(s))
      BY <1>1, GoalIs, Beside
    <3> QED
      BY <1>0, <1>1, <3>1, <3>2, GoalIs DEF Restorable
  <2> QED
    BY <1>0, <1>1, <2>1, PackIs, GoalStep DEF LedgerKept, PackPCs, Skills
<1>2. ASSUME NEW s \in pack.todo,
             tree' = [tree EXCEPT ![s] = IF Ours(s, pack.ledger) THEN NoTreeOf ELSE @],
             pack' = [pack EXCEPT !.todo = @ \ {s}, !.ledger[s] = NoTreeOf,
                                  !.moved[s] = IF Ours(s, pack.ledger) THEN tree[s] ELSE NoTreeOf]
      PROVE  SkillInv'
  <2>0. s \in Skills /\ s \in RetiredSkills /\ s \notin CoreSkills
    BY <1>0, PackIs, SkillAssumption DEF TodoOf
  <2>1. /\ pack'.pc = "retire" /\ pack'.todo = pack.todo \ {s} /\ pack'.before = pack.before
        /\ pack'.snap = pack.snap /\ pack'.written = pack.written /\ pack'.absent = pack.absent
        /\ pack'.touched = pack.touched /\ pack'.saved = pack.saved
        /\ pack'.ledger = [pack.ledger EXCEPT ![s] = NoTreeOf]
        /\ pack'.moved = [pack.moved EXCEPT ![s] = IF Ours(s, pack.ledger) THEN tree[s] ELSE NoTreeOf]
    BY <1>0, <1>2, PackIs DEF PackRecord
  <2>2. pack' \in PackRecord /\ tree' \in SkillTrees
    BY <1>2, <2>0, PackIs, IdlePackIs DEF PackRecord, SkillTrees
  <2>3. SkillTypes'
    BY <1>0, <2>1, <2>2, PackIs DEF SkillTypes
  <2>4. LedgerKept' /\ TodoOf'
    BY <1>0, <2>1, PackIs DEF LedgerKept, TodoOf
  <2>5. ASSUME Deletable, NEW t \in Skills \ pack.touched PROVE Restorable(t)'
    <3>1. Restorable(t)
      BY <2>5, PackIs
    <3>2. CASE t # s
      <4>1. /\ tree'[t] = tree[t] /\ pack'.ledger[t] = pack.ledger[t] /\ pack'.moved[t] = pack.moved[t]
        BY <1>2, <2>1, <3>2, PackIs DEF SkillTrees
      <4>2. Undone(t)' = Undone(t) /\ (Untried(t)' <=> Untried(t))
        BY <2>1, <4>1, Beside
      <4> QED
        BY <1>0, <2>1, <3>1, <4>2 DEF Restorable
    <3>3. CASE t = s
      <4>1. Untried(s)
        BY <1>0, <3>1, <3>3 DEF Restorable
      <4>2. /\ tree'[s] = (IF Ours(s, pack.ledger) THEN NoTreeOf ELSE tree[s])
            /\ pack'.moved[s] = IF Ours(s, pack.ledger) THEN tree[s] ELSE NoTreeOf
        BY <1>2, <2>0, <2>1, PackIs DEF SkillTrees
      <4>3. Undone(s)' = pack'.before.tree[s]
        BY <2>1, <4>1, <4>2 DEF Untried, Undone, SameTree
      <4> QED
        BY <1>0, <2>0, <2>1, <3>3, <4>3 DEF Restorable
    <3> QED
      BY <3>2, <3>3
  <2> QED
    BY <2>1, <2>3, <2>4, <2>5 DEF SkillInv
<1> QED
  BY <1>1, <1>2 DEF RetireSkill

\* A skill that is ours is copied.
LEMMA SnapshotStep == ASSUME SkillInv, SnapshotSkill PROVE SkillInv'
<1>0. /\ pack.pc = "snapshot" /\ UNCHANGED <<tree, ledger, tokenMode, failures, import, edits>>
  BY DEF SnapshotSkill, Others
<1>1. CASE pack.todo = {} /\ Goal("install", CoreSkills)
  <2>1. ASSUME Deletable, NEW s \in Skills \ pack.touched PROVE Restorable(s)'
    <3>1. Restorable(s)
      BY <2>1, PackIs
    <3>2. /\ Undone(s)' = Undone(s) /\ (Copied(s)' <=> Copied(s))
      BY <1>0, <1>1, GoalIs, Beside
    <3> QED
      BY <1>0, <1>1, <3>1, <3>2, GoalIs DEF Restorable
  <2> QED
    BY <1>0, <1>1, <2>1, PackIs, GoalStep DEF LedgerKept, PackPCs, Skills
<1>2. ASSUME NEW s \in pack.todo,
             pack' = [pack EXCEPT !.todo = @ \ {s},
                                  !.absent = IF tree[s] = NoTreeOf THEN @ \cup {s} ELSE @,
                                  !.snap[s] = IF Ours(s, pack.ledger) THEN tree[s] ELSE NoTreeOf]
      PROVE  SkillInv'
  <2>0. s \in Skills /\ s \in CoreSkills
    BY <1>0, PackIs DEF TodoOf
  <2>1. /\ pack'.pc = "snapshot" /\ pack'.todo = pack.todo \ {s} /\ pack'.before = pack.before
        /\ pack'.moved = pack.moved /\ pack'.written = pack.written /\ pack'.ledger = pack.ledger
        /\ pack'.touched = pack.touched /\ pack'.saved = pack.saved
        /\ pack'.absent = (IF tree[s] = NoTreeOf THEN pack.absent \cup {s} ELSE pack.absent)
        /\ pack'.snap = [pack.snap EXCEPT ![s] = IF Ours(s, pack.ledger) THEN tree[s] ELSE NoTreeOf]
    BY <1>0, <1>2, PackIs DEF PackRecord
  <2>2. pack' \in PackRecord
    BY <1>2, <2>0, PackIs, IdlePackIs DEF PackRecord, SkillTrees
  <2>3. SkillTypes'
    BY <1>0, <2>1, <2>2, PackIs DEF SkillTypes
  <2>4. LedgerKept' /\ TodoOf'
    BY <1>0, <2>1, PackIs DEF LedgerKept, TodoOf
  <2>5. ASSUME Deletable, NEW t \in Skills \ pack.touched PROVE Restorable(t)'
    <3>1. Restorable(t)
      BY <2>5, PackIs
    <3>2. CASE t # s
      <4>1. /\ pack'.snap[t] = pack.snap[t] /\ (t \in pack'.absent <=> t \in pack.absent)
        BY <2>1, <3>2, PackIs DEF SkillTrees
      <4>2. Undone(t)' = Undone(t) /\ (Untried(t)' <=> Untried(t)) /\ (Copied(t)' <=> Copied(t))
        BY <1>0, <2>1, <4>1, Beside
      <4> QED
        BY <1>0, <2>1, <3>1, <3>2, <4>2 DEF Restorable
    <3>3. CASE t = s
      <4>1. Untried(s)
        BY <1>0, <2>0, <3>1, <3>3 DEF Restorable
      <4>2. /\ pack'.snap[s] = (IF Ours(s, pack.ledger) THEN tree[s] ELSE NoTreeOf)
            /\ (s \in pack'.absent <=> (tree[s] = NoTreeOf \/ s \in pack.absent))
        BY <2>0, <2>1, PackIs DEF SkillTrees
      <4>3. Copied(s)'
        BY <1>0, <2>1, <4>1, <4>2 DEF Untried, Copied, Ours
      <4>4. Undone(s)' = pack'.before.tree[s]
        BY <4>3 DEF Copied, Undone, SameTree
      <4> QED
        BY <1>0, <2>0, <2>1, <3>3, <4>3, <4>4 DEF Restorable
    <3> QED
      BY <3>2, <3>3
  <2> QED
    BY <2>1, <2>3, <2>4, <2>5 DEF SkillInv
<1> QED
  BY <1>1, <1>2 DEF SnapshotSkill

\* A skill is done: what was written is noted, and taken back if it must be.
LEMMA InstalledStep ==
    ASSUME SkillInv, pack.pc = "install", NEW s \in pack.todo, NEW record \in Digests,
           InstalledSkill(s, record), NEW new \in Digests, tree' = [tree EXCEPT ![s] = new],
           \/ new = tree[s]
           \/ tree[s] = NoTreeOf /\ new # NoTreeOf,
           UNCHANGED <<ledger, tokenMode, failures, import, edits>>
    PROVE  SkillInv'
<1>0. s \in Skills /\ s \in CoreSkills /\ tree'[s] = new /\ tree' \in SkillTrees
  BY PackIs DEF TodoOf, SkillTrees
<1>1. /\ pack'.pc = "install" /\ pack'.todo = pack.todo \ {s} /\ pack'.before = pack.before
      /\ pack'.moved = pack.moved /\ pack'.snap = pack.snap /\ pack'.absent = pack.absent
      /\ pack'.touched = pack.touched /\ pack'.saved = pack.saved
      /\ pack'.ledger = [pack.ledger EXCEPT ![s] = record]
      /\ pack'.written = [pack.written EXCEPT ![s] = new]
  BY <1>0, PackIs DEF PackRecord, InstalledSkill
<1>2. pack' \in PackRecord
  BY <1>0, PackIs, IdlePackIs DEF PackRecord, PackPCs, SkillTrees, InstalledSkill
<1>3. SkillTypes'
  BY <1>0, <1>1, <1>2, PackIs DEF SkillTypes
<1>4. LedgerKept' /\ TodoOf'
  BY <1>1, PackIs DEF LedgerKept, TodoOf
<1>5. ASSUME Deletable, NEW t \in Skills \ pack.touched PROVE Restorable(t)'
  <2>1. Restorable(t)
    BY <1>5, PackIs
  <2>2. CASE t # s
    <3>1. /\ tree'[t] = tree[t] /\ pack'.ledger[t] = pack.ledger[t] /\ pack'.written[t] = pack.written[t]
      BY <1>1, <2>2, PackIs DEF SkillTrees
    <3>2. Undone(t)' = Undone(t) /\ (Copied(t)' <=> Copied(t))
      BY <1>1, <3>1, Beside
    <3> QED
      BY <1>1, <2>1, <3>2 DEF Restorable
  <2>3. CASE t = s
    <3>1. Copied(s)
      BY <2>1, <2>3 DEF Restorable
    <3>2. pack'.written[s] = new
      BY <1>0, <1>1, PackIs DEF SkillTrees
    <3>3. Undone(s)' = pack'.before.tree[s]
      BY <1>0, <1>1, <3>1, <3>2 DEF Copied, Undone, SameTree, Ours
    <3> QED
      BY <1>1, <2>3, <3>3 DEF Restorable
  <2> QED
    BY <2>2, <2>3
<1> QED
  BY <1>1, <1>3, <1>4, <1>5 DEF SkillInv

\* A skill is installed, or is left, or the step fails.
LEMMA InstallStep == ASSUME SkillInv, InstallSkill PROVE SkillInv'
<1>0. /\ pack.pc = "install" /\ UNCHANGED <<ledger, tokenMode, import, edits>>
  BY DEF InstallSkill, Others
<1>1. CASE pack.todo = {} /\ Goal("save", {}) /\ UNCHANGED <<tree, failures>>
  <2>1. ASSUME Deletable, NEW s \in Skills \ pack.touched PROVE Restorable(s)'
    <3>1. Restorable(s)
      BY <2>1, PackIs
    <3>2. Undone(s)' = Undone(s)
      BY <1>0, <1>1, GoalIs, Beside
    <3> QED
      BY <1>0, <1>1, <3>1, <3>2, GoalIs DEF Restorable
  <2> QED
    BY <1>0, <1>1, <2>1, PackIs, GoalStep DEF LedgerKept, PackPCs, Skills
<1>2. CASE Failing("install") /\ Goal("undo", Skills) /\ UNCHANGED tree
  BY <1>0, <1>2, FailStep, FailingCounts
<1>3. ASSUME NEW s \in pack.todo, UNCHANGED failures,
             \/ /\ tree[s] # NoTreeOf /\ ~Ours(s, pack.ledger) /\ UNCHANGED tree
                /\ InstalledSkill(s, NoTreeOf)
             \/ tree[s] = Bundled /\ UNCHANGED tree /\ InstalledSkill(s, Bundled)
             \/ tree[s] = NoTreeOf /\ s \in elsewhere /\ UNCHANGED tree
                /\ InstalledSkill(s, pack.ledger[s])
      PROVE  SkillInv'
  <2>1. s \in Skills /\ tree' = [tree EXCEPT ![s] = tree[s]] /\ tree[s] \in Digests /\ pack.ledger[s] \in Digests
    BY <1>3, PackIs DEF SkillTrees
  <2> QED
    BY <1>0, <1>3, <2>1, InstalledStep, IdlePackIs
<1>4. ASSUME NEW s \in pack.todo, UNCHANGED failures,
             tree[s] = NoTreeOf, tree' = [tree EXCEPT ![s] = Bundled], InstalledSkill(s, Bundled)
      PROVE  SkillInv'
  <2>1. Bundled \in Digests /\ Bundled # NoTreeOf
    BY IdlePackIs DEF Bundled, NoTreeOf
  <2> QED
    BY <1>0, <1>4, <2>1, InstalledStep
\* The old tree is renamed away first.
<1>5. ASSUME NEW s \in pack.todo, UNCHANGED failures,
             tree[s] # Bundled, Ours(s, pack.ledger), tree' = [tree EXCEPT ![s] = NoTreeOf],
             pack' = [pack EXCEPT !.pc = "swap", !.at = s, !.moved[s] = tree[s]]
      PROVE  SkillInv'
  <2>0. s \in Skills /\ s \in CoreSkills /\ tree'[s] = NoTreeOf /\ tree' \in SkillTrees /\ tree[s] \in Digests
    BY <1>0, <1>5, PackIs, IdlePackIs DEF TodoOf, SkillTrees
  <2>1. /\ pack'.pc = "swap" /\ pack'.at = s /\ pack'.todo = pack.todo /\ pack'.before = pack.before
        /\ pack'.written = pack.written /\ pack'.snap = pack.snap /\ pack'.absent = pack.absent
        /\ pack'.touched = pack.touched /\ pack'.saved = pack.saved /\ pack'.ledger = pack.ledger
        /\ pack'.moved = [pack.moved EXCEPT ![s] = tree[s]]
    BY <1>5, PackIs DEF PackRecord
  <2>2. pack' \in PackRecord
    BY <1>5, <2>0, PackIs DEF PackRecord, PackPCs, SkillTrees
  <2>3. SkillTypes'
    BY <1>0, <1>5, <2>0, <2>1, <2>2, PackIs DEF SkillTypes
  <2>4. LedgerKept' /\ TodoOf'
    BY <1>0, <2>1, PackIs DEF LedgerKept, TodoOf
  <2>5. ASSUME Deletable, NEW t \in Skills \ pack.touched PROVE Restorable(t)'
    <3>1. Restorable(t)
      BY <2>5, PackIs
    <3>2. CASE t # s
      <4>1. tree'[t] = tree[t] /\ pack'.moved[t] = pack.moved[t]
        BY <1>5, <2>1, <3>2, PackIs DEF SkillTrees
      <4>2. Undone(t)' = Undone(t) /\ (Copied(t)' <=> Copied(t))
        BY <2>1, <4>1, Beside
      <4> QED
        BY <1>0, <2>1, <3>1, <3>2, <4>2 DEF Restorable
    <3>3. CASE t = s
      <4>1. Copied(s)
        BY <1>0, <3>1, <3>3 DEF Restorable
      <4>2. pack'.moved[s] = tree[s]
        BY <2>0, <2>1, PackIs DEF SkillTrees
      <4>3. Aside(s)'
        BY <1>5, <2>0, <2>1, <4>1, <4>2 DEF Copied, Aside, Ours
      <4> QED
        BY <2>1, <3>3, <4>3 DEF Restorable
    <3> QED
      BY <3>2, <3>3
  <2> QED
    BY <2>1, <2>3, <2>4, <2>5 DEF SkillInv
<1> QED
  BY <1>1, <1>2, <1>3, <1>4, <1>5 DEF InstallSkill

\* The stage is in place, or the old tree is back, or the old one cannot be deleted.
LEMMA SwapStep == ASSUME SkillInv, SwapSkill PROVE SkillInv'
<1>a. PICK s \in Skills : s = pack.at
  BY PackIs DEF SwapSkill
<1> DEFINE undo == [pack EXCEPT !.pc = "undo", !.todo = Skills, !.at = NoSkill, !.moved[s] = NoTreeOf]
<1>0. /\ pack.pc = "swap" /\ UNCHANGED <<ledger, tokenMode, import, edits>>
  BY DEF SwapSkill, Others
<1>1. CASE /\ tree[s] = NoTreeOf /\ tree' = [tree EXCEPT ![s] = Bundled] /\ UNCHANGED failures
           /\ pack' = [pack EXCEPT !.pc = "install", !.at = NoSkill, !.todo = @ \ {s},
                                   !.ledger[s] = Bundled, !.written[s] = Bundled,
                                   !.moved[s] = NoTreeOf]
  <2>1. /\ pack'.pc = "install" /\ pack'.todo = pack.todo \ {s} /\ pack'.before = pack.before
        /\ pack'.snap = pack.snap /\ pack'.absent = pack.absent
        /\ pack'.touched = pack.touched /\ pack'.saved = pack.saved
        /\ pack'.ledger = [pack.ledger EXCEPT ![s] = Bundled]
        /\ pack'.written = [pack.written EXCEPT ![s] = Bundled]
        /\ pack'.moved = [pack.moved EXCEPT ![s] = NoTreeOf]
    BY <1>1, PackIs DEF PackRecord
  <2>2. pack' \in PackRecord /\ tree' \in SkillTrees
    BY <1>0, <1>1, PackIs, IdlePackIs DEF PackRecord, PackPCs, SkillTrees
  <2>3. SkillTypes'
    BY <1>0, <1>1, <2>1, <2>2, PackIs DEF SkillTypes
  <2>4. LedgerKept' /\ TodoOf'
    BY <1>0, <2>1, PackIs DEF LedgerKept, TodoOf
  <2>5. ASSUME Deletable, NEW t \in Skills \ pack.touched PROVE Restorable(t)'
    <3>1. Restorable(t)
      BY <2>5, PackIs
    <3>2. CASE t # s
      <4>1. /\ tree'[t] = tree[t] /\ pack'.moved[t] = pack.moved[t] /\ pack'.ledger[t] = pack.ledger[t]
            /\ pack'.written[t] = pack.written[t]
        BY <1>1, <2>1, <3>2, PackIs DEF SkillTrees
      <4>2. Undone(t)' = Undone(t) /\ (Copied(t)' <=> Copied(t))
        BY <2>1, <4>1, Beside
      <4> QED
        BY <1>a, <1>0, <2>1, <3>1, <3>2, <4>2 DEF Restorable
    <3>3. CASE t = s
      <4>1. Aside(s)
        BY <1>a, <1>0, <3>1, <3>3 DEF Restorable
      <4>2. tree'[s] = Bundled /\ pack'.written[s] = Bundled
        BY <1>0, <1>1, <2>1, PackIs DEF SkillTrees
      <4>3. Undone(s)' = pack'.before.tree[s]
        BY <2>1, <4>1, <4>2 DEF Aside, Undone, SameTree, Bundled, NoTreeOf
      <4> QED
        BY <2>1, <3>3, <4>3 DEF Restorable
    <3> QED
      BY <3>2, <3>3
  <2> QED
    BY <2>1, <2>3, <2>4, <2>5 DEF SkillInv
<1>2. ASSUME pack' = undo, failures' \in 0 .. MaxFailures,
             \/ tree[s] # NoTreeOf /\ UNCHANGED tree
             \/ tree[s] = NoTreeOf /\ tree' = [tree EXCEPT ![s] = pack.moved[s]]
             \/ ~Deletable /\ tree' = [tree EXCEPT ![s] = Bundled]
      PROVE  SkillInv'
  <2>1. /\ pack'.pc = "undo" /\ pack'.todo = Skills /\ pack'.before = pack.before
        /\ pack'.snap = pack.snap /\ pack'.absent = pack.absent /\ pack'.written = pack.written
        /\ pack'.touched = pack.touched /\ pack'.saved = pack.saved /\ pack'.ledger = pack.ledger
        /\ pack'.moved = [pack.moved EXCEPT ![s] = NoTreeOf]
    BY <1>2, PackIs DEF PackRecord
  <2>2. pack' \in PackRecord
    BY <1>2, PackIs, IdlePackIs DEF PackRecord, PackPCs, SkillTrees
  <2>a. tree' \in SkillTrees
    <3>1. pack.moved[s] \in Digests
      BY PackIs DEF SkillTrees
    <3> QED
      BY <1>2, <3>1, PackIs, IdlePackIs DEF SkillTrees
  <2>3. SkillTypes'
    BY <1>0, <1>2, <2>1, <2>2, <2>a, PackIs DEF SkillTypes
  <2>4. LedgerKept' /\ TodoOf'
    BY <1>0, <2>1, PackIs DEF LedgerKept, TodoOf
  <2>5. ASSUME Deletable, NEW t \in Skills \ pack.touched PROVE Restorable(t)'
    <3>1. Restorable(t)
      BY <2>5, PackIs
    <3>2. CASE t # s
      <4>1. /\ tree'[t] = tree[t] /\ pack'.moved[t] = pack.moved[t]
        BY <1>2, <2>1, <2>5, <3>2, PackIs DEF SkillTrees
      <4>2. Undone(t)' = Undone(t)
        BY <2>1, <4>1, Beside
      <4> QED
        BY <1>a, <1>0, <2>1, <3>1, <3>2, <4>2 DEF Restorable
    <3>3. CASE t = s
      <4>1. Aside(s)
        BY <1>a, <1>0, <3>1, <3>3 DEF Restorable
      <4>2. tree'[s] = pack.before.tree[s] /\ tree'[s] # NoTreeOf /\ pack'.written[s] = NoTreeOf
        BY <1>0, <1>2, <2>1, <2>5, <4>1, PackIs DEF SkillTrees, Aside
      <4>3. Undone(s)' = pack'.before.tree[s]
        BY <2>1, <4>2 DEF Undone, SameTree
      <4> QED
        BY <2>1, <3>3, <4>3 DEF Restorable
    <3> QED
      BY <3>2, <3>3
  <2> QED
    BY <2>1, <2>3, <2>4, <2>5 DEF SkillInv
<1>3. CASE tree[s] # NoTreeOf /\ pack' = undo /\ UNCHANGED <<tree, failures>>
  BY <1>2, <1>3, FailingCounts
<1>4. CASE /\ tree[s] = NoTreeOf /\ Failing("install")
           /\ tree' = [tree EXCEPT ![s] = pack.moved[s]] /\ pack' = undo
  BY <1>2, <1>4, FailingCounts
<1>5. CASE /\ tree[s] = NoTreeOf /\ Failing("cleanup")
           /\ tree' = [tree EXCEPT ![s] = Bundled] /\ pack' = undo
  BY <1>2, <1>5, FailingCounts DEF Deletable, Failing
<1> QED
  BY <1>a, <1>1, <1>3, <1>4, <1>5 DEF SwapSkill

\* The ledger is saved, or cannot be.
LEMMA SaveStep == ASSUME SkillInv, SaveLedger PROVE SkillInv'
<1>0. /\ pack.pc = "save" /\ UNCHANGED <<tree, tokenMode, import, edits>>
  BY DEF SaveLedger, Others
<1>1. CASE /\ ledger' = pack.ledger /\ pack' = [pack EXCEPT !.pc = "finish", !.saved = TRUE]
           /\ UNCHANGED failures
  BY <1>0, <1>1, SavedStep
<1>2. CASE Failing("ledger") /\ Goal("undo", Skills) /\ UNCHANGED ledger
  BY <1>0, <1>2, FailStep, FailingCounts
<1> QED
  BY <1>1, <1>2 DEF SaveLedger

\* Nothing is under way: there is nothing to restore.
LEMMA IdleStep ==
    ASSUME SkillInv, pack' = IdlePack, tree' \in SkillTrees, ledger' \in SkillTrees, tokenMode' \in BOOLEAN,
           failures' \in 0 .. MaxFailures, UNCHANGED <<import, edits>>
    PROVE  SkillInv'
<1>1. pack'.pc = "idle" /\ pack' \in PackRecord
  BY IdlePackIs
<1>2. SkillTypes'
  BY <1>1, PackIs DEF SkillTypes
<1>3. LedgerKept' /\ TodoOf'
  BY <1>1 DEF LedgerKept, TodoOf
<1>4. \A s \in Skills : Restorable(s)'
  BY <1>1 DEF Restorable
<1> QED
  BY <1>2, <1>3, <1>4 DEF SkillInv

\* The token mode is written, or cannot be.
LEMMA FinishStep == ASSUME SkillInv, FinishPack PROVE SkillInv'
<1>0. /\ pack.pc = "finish" /\ UNCHANGED <<tree, ledger, import, edits>>
  BY DEF FinishPack, Others
<1>1. CASE tokenMode' = TRUE /\ pack' = IdlePack /\ UNCHANGED failures
  BY <1>0, <1>1, IdleStep, PackIs
<1>2. CASE Failing("finish") /\ Goal("undo", Skills) /\ UNCHANGED tokenMode
  BY <1>0, <1>2, FailStep, FailingCounts
<1> QED
  BY <1>1, <1>2 DEF FinishPack

\* The last step of a rollback: the ledger is the one from before.
LEMMA RolledBackStep ==
    ASSUME SkillInv, pack.pc \in {"undo", "unremove"}, pack.todo = {}, Goal("failed", {}),
           ledger' = IF pack.saved /\ ledger = pack.ledger THEN pack.before.ledger ELSE ledger,
           UNCHANGED <<tree, tokenMode, failures, import, edits>>
    PROVE  SkillInv'
<1>1. ASSUME Deletable, NEW s \in Skills \ pack.touched PROVE Restorable(s)'
  <2>1. tree[s] = pack.before.tree[s]
    BY <1>1, PackIs DEF Restorable
  <2> QED
    BY <2>1, GoalIs DEF Restorable
<1>2. ledger' = pack.before.ledger /\ ledger' \in SkillTrees
  BY PackIs DEF LedgerKept
<1> QED
  BY <1>1, <1>2, PackIs, GoalStep DEF PackPCs

\* The rollback of a pack takes a skill back.
LEMMA UndoSkillStep == ASSUME SkillInv, UndoSkill PROVE SkillInv'
<1>0. /\ pack.pc = "undo" /\ UNCHANGED <<tokenMode, failures, import, edits>>
  BY DEF UndoSkill, Others
<1>1. ASSUME NEW s \in pack.todo, tree' = [tree EXCEPT ![s] = Undone(s)], UNCHANGED ledger,
             Goal("undo", pack.todo \ {s})
      PROVE  SkillInv'
  <2>1. s \in Skills /\ Undone(s) \in Digests
    BY PackIs, IdlePackIs DEF Undone, SkillTrees
  <2>2. tree' \in SkillTrees /\ tree'[s] = Undone(s) /\ \A t \in Skills \ {s} : tree'[t] = tree[t]
    BY <1>1, <2>1, PackIs DEF SkillTrees
  <2>3. ASSUME Deletable, NEW t \in Skills \ pack.touched PROVE Restorable(t)'
    <3>1. Restorable(t)
      BY <2>3, PackIs
    <3>2. t # s => Undone(t)' = Undone(t)
      BY <1>1, <2>2, GoalIs, Beside
    <3> QED
      BY <1>0, <1>1, <2>2, <3>1, <3>2, GoalIs DEF Restorable
  <2> QED
    BY <1>0, <1>1, <2>2, <2>3, PackIs, GoalStep DEF LedgerKept, PackPCs
<1>2. CASE /\ pack.todo = {} /\ Goal("failed", {}) /\ UNCHANGED tree
           /\ ledger' = IF pack.saved /\ ledger = pack.ledger THEN pack.before.ledger ELSE ledger
  BY <1>0, <1>2, RolledBackStep
<1> QED
  BY <1>1, <1>2 DEF UndoSkill

\* The rollback of a removal puts a skill back.
LEMMA UnremoveStep == ASSUME SkillInv, UnremoveSkill PROVE SkillInv'
<1>0. /\ pack.pc = "unremove" /\ UNCHANGED <<tokenMode, failures, import, edits>>
  BY DEF UnremoveSkill, Others
<1>1. ASSUME NEW s \in pack.todo, tree' = [tree EXCEPT ![s] = IF @ = NoTreeOf THEN pack.moved[s] ELSE @],
             UNCHANGED ledger, Goal("unremove", pack.todo \ {s})
      PROVE  SkillInv'
  <2>1. s \in Skills /\ Unremoved(s) \in Digests
    BY PackIs DEF Unremoved, SkillTrees
  <2>2. tree' \in SkillTrees /\ tree'[s] = Unremoved(s) /\ \A t \in Skills \ {s} : tree'[t] = tree[t]
    BY <1>1, <2>1, PackIs DEF SkillTrees, Unremoved
  <2>3. ASSUME Deletable, NEW t \in Skills \ pack.touched PROVE Restorable(t)'
    <3>1. Restorable(t)
      BY <2>3, PackIs
    <3>2. t # s => Unremoved(t)' = Unremoved(t)
      BY <1>1, <2>2, GoalIs, Beside
    <3> QED
      BY <1>0, <1>1, <2>2, <3>1, <3>2, GoalIs DEF Restorable
  <2> QED
    BY <1>0, <1>1, <2>2, <2>3, PackIs, GoalStep DEF LedgerKept, PackPCs
<1>2. CASE /\ pack.todo = {} /\ Goal("failed", {}) /\ UNCHANGED tree
           /\ ledger' = IF pack.saved /\ ledger = pack.ledger THEN pack.before.ledger ELSE ledger
  BY <1>0, <1>2, RolledBackStep
<1> QED
  BY <1>1, <1>2 DEF UnremoveSkill

\* A removal hands every skill to its rollback.
LEMMA RemovalFailStep ==
    ASSUME SkillInv, pack.pc = "remove", Goal("unremove", Skills),
           UNCHANGED <<tree, ledger, tokenMode, import, edits>>, failures' \in 0 .. MaxFailures
    PROVE  SkillInv'
<1>1. ASSUME Deletable, NEW s \in Skills \ pack.touched PROVE Restorable(s)'
  <2>1. Unremoved(s) = pack.before.tree[s]
    BY <1>1, PackIs DEF Restorable
  <2>2. Unremoved(s)' = Unremoved(s)
    BY GoalIs, Beside
  <2> QED
    BY <2>1, <2>2, GoalIs DEF Restorable
<1> QED
  BY <1>1, PackIs, GoalStep DEF LedgerKept, PackPCs

\* A removal moves a skill aside, or finds it gone.
LEMMA RemoveStep == ASSUME SkillInv, RemoveSkill PROVE SkillInv'
<1>0. /\ pack.pc = "remove" /\ UNCHANGED <<ledger, tokenMode, failures, import, edits>>
      /\ failures' \in 0 .. MaxFailures
  BY PackIs DEF RemoveSkill, Others
<1>1. CASE Goal("unremove", Skills) /\ UNCHANGED tree
  BY <1>0, <1>1, RemovalFailStep
<1>2. ASSUME NEW s \in pack.todo, tree[s] # NoTreeOf, tree' = [tree EXCEPT ![s] = NoTreeOf],
             pack' = [pack EXCEPT !.todo = @ \ {s}, !.moved[s] = tree[s], !.ledger[s] = NoTreeOf]
      PROVE  SkillInv'
  <2>0. s \in Skills /\ tree[s] \in Digests /\ tree'[s] = NoTreeOf /\ tree' \in SkillTrees
    BY <1>2, PackIs, IdlePackIs DEF SkillTrees
  <2>1. /\ pack'.pc = "remove" /\ pack'.todo = pack.todo \ {s} /\ pack'.before = pack.before
        /\ pack'.snap = pack.snap /\ pack'.absent = pack.absent /\ pack'.written = pack.written
        /\ pack'.touched = pack.touched /\ pack'.saved = pack.saved
        /\ pack'.moved = [pack.moved EXCEPT ![s] = tree[s]]
        /\ pack'.ledger = [pack.ledger EXCEPT ![s] = NoTreeOf]
    BY <1>0, <1>2, PackIs DEF PackRecord
  <2>2. pack' \in PackRecord
    BY <1>2, <2>0, PackIs, IdlePackIs DEF PackRecord, SkillTrees
  <2>3. SkillTypes'
    BY <1>0, <2>0, <2>1, <2>2, PackIs DEF SkillTypes
  <2>4. LedgerKept' /\ TodoOf'
    BY <1>0, <2>1, PackIs DEF LedgerKept, TodoOf
  <2>5. ASSUME Deletable, NEW t \in Skills \ pack.touched PROVE Restorable(t)'
    <3>1. Restorable(t)
      BY <2>5, PackIs
    <3>2. CASE t # s
      <4>1. tree'[t] = tree[t] /\ pack'.moved[t] = pack.moved[t]
        BY <1>2, <2>1, <3>2, PackIs DEF SkillTrees
      <4>2. Unremoved(t)' = Unremoved(t)
        BY <4>1 DEF Unremoved
      <4> QED
        BY <1>0, <2>1, <3>1, <4>1, <4>2 DEF Restorable
    <3>3. CASE t = s
      <4>1. tree[s] = pack.before.tree[s]
        BY <1>0, <3>1, <3>3 DEF Restorable
      <4>2. pack'.moved[s] = tree[s]
        BY <2>0, <2>1, PackIs DEF SkillTrees
      <4>3. Unremoved(s)' = pack'.before.tree[s]
        BY <2>0, <2>1, <4>1, <4>2 DEF Unremoved
      <4> QED
        BY <1>0, <2>1, <3>3, <4>3 DEF Restorable
    <3> QED
      BY <3>2, <3>3
  <2> QED
    BY <2>1, <2>3, <2>4, <2>5 DEF SkillInv
<1> QED
  BY <1>1, <1>2 DEF RemoveSkill

\* The ledger without the removed skills is saved, or cannot be.
LEMMA SaveRemovalStep == ASSUME SkillInv, SaveRemoval PROVE SkillInv'
<1>0. /\ pack.pc = "remove" /\ UNCHANGED <<tree, tokenMode, import, edits>>
  BY DEF SaveRemoval, Others
<1>1. CASE /\ ledger' = pack.ledger /\ pack' = [pack EXCEPT !.pc = "drop", !.saved = TRUE]
           /\ UNCHANGED failures
  BY <1>0, <1>1, SavedStep
<1>2. CASE Failing("ledger") /\ Goal("unremove", Skills) /\ UNCHANGED ledger
  BY <1>0, <1>2, RemovalFailStep, FailingCounts
<1> QED
  BY <1>1, <1>2 DEF SaveRemoval

\* The failure is reported, or the process killed.
LEMMA BackgroundStep == ASSUME SkillInv, RaisePack \/ KillPack PROVE SkillInv'
<1>1. UNCHANGED <<tree, ledger, tokenMode, import, edits>> /\ pack' = IdlePack
  BY DEF RaisePack, KillPack, Others
<1>2. failures' \in 0 .. MaxFailures
  BY FailingCounts DEF RaisePack, KillPack
<1> QED
  BY <1>1, <1>2, IdleStep, PackIs

\* What was set aside is deleted, or part of it.
LEMMA DropStep == ASSUME SkillInv, DropRemoved PROVE SkillInv'
<1>0. pack.pc = "drop" /\ UNCHANGED <<tree, ledger, tokenMode, import, edits>>
  BY DEF DropRemoved, Others
<1>1. CASE pack' = IdlePack /\ UNCHANGED failures
  BY <1>0, <1>1, IdleStep, PackIs
<1>2. ASSUME NEW left \in SUBSET Skills, Failing("cleanup"),
             pack' = [pack EXCEPT !.pc = "unremove", !.todo = Skills,
                          !.moved = [s \in Skills |-> IF s \in left THEN @[s] ELSE NoTreeOf]]
      PROVE  SkillInv'
  <2>1. /\ pack'.pc = "unremove" /\ pack'.before = pack.before /\ pack'.saved = pack.saved
        /\ pack'.ledger = pack.ledger
    BY <1>2, PackIs DEF PackRecord
  <2>2. [s \in Skills |-> IF s \in left THEN pack.moved[s] ELSE NoTreeOf] \in SkillTrees
    BY PackIs, IdlePackIs DEF SkillTrees
  <2>3. pack' \in PackRecord
    BY <1>2, <2>2, PackIs DEF PackRecord, PackPCs
  <2>4. SkillTypes'
    BY <1>0, <1>2, <2>1, <2>3, FailingCounts, PackIs DEF SkillTypes
  <2>5. LedgerKept' /\ TodoOf'
    BY <1>0, <2>1, PackIs DEF LedgerKept, TodoOf
  <2>6. ~Deletable
    BY <1>2 DEF Deletable, Failing
  <2> QED
    BY <2>4, <2>5, <2>6 DEF SkillInv
<1> QED
  BY <1>1, <1>2 DEF DropRemoved

\* Somebody else's step touches a skill, which is no longer the transaction's.
LEMMA TouchedStep ==
    ASSUME SkillInv, NEW s \in Skills, Touch(s), tree' \in SkillTrees,
           \A t \in Skills \ {s} : tree'[t] = tree[t],
           import' \in ImportRecord, import'.pc # "idle" => import'.at \in Skills,
           edits' \in 0 .. MaxEdits, UNCHANGED <<ledger, tokenMode, failures>>
    PROVE  SkillInv'
<1>1. /\ pack'.pc = pack.pc /\ pack'.todo = pack.todo /\ pack'.before = pack.before
      /\ pack'.snap = pack.snap /\ pack'.absent = pack.absent /\ pack'.written = pack.written
      /\ pack'.saved = pack.saved /\ pack'.ledger = pack.ledger /\ pack'.moved = pack.moved
      /\ pack'.at = pack.at /\ pack'.touched = IF pack.pc = "idle" THEN {} ELSE pack.touched \cup {s}
  BY PackIs DEF Touch, PackRecord
<1>2. pack' \in PackRecord
  BY PackIs DEF Touch, PackRecord
<1>3. SkillTypes'
  BY <1>1, <1>2, PackIs DEF SkillTypes
<1>4. LedgerKept' /\ TodoOf'
  BY <1>1, PackIs DEF LedgerKept, TodoOf
<1>5. ASSUME Deletable, NEW t \in Skills \ pack'.touched PROVE Restorable(t)'
  <2>1. CASE pack.pc = "idle"
    BY <1>1, <2>1 DEF Restorable
  <2>2. CASE pack.pc # "idle"
    <3>1. t # s /\ Restorable(t) /\ tree'[t] = tree[t]
      BY <1>1, <1>5, <2>2, PackIs
    <3>2. /\ (Untried(t)' <=> Untried(t)) /\ (Copied(t)' <=> Copied(t))
          /\ Undone(t)' = Undone(t) /\ Unremoved(t)' = Unremoved(t)
      BY <1>1, <3>1, Beside
    <3>3. Aside(t)' <=> Aside(t)
      BY <1>1, <3>1 DEF Aside
    <3> QED
      BY <1>1, <3>1, <3>2, <3>3 DEF Restorable
  <2> QED
    BY <2>1, <2>2
<1> QED
  BY <1>3, <1>4, <1>5 DEF SkillInv

\* Somebody else's step that leaves the skills alone.
LEMMA AwayStep ==
    ASSUME SkillInv, import' \in ImportRecord, import'.pc # "idle" => import'.at \in Skills,
           edits' \in 0 .. MaxEdits, UNCHANGED <<tree, pack, ledger, tokenMode, failures>>
    PROVE  SkillInv'
<1>1. SkillTypes' /\ LedgerKept' /\ TodoOf'
  BY PackIs DEF SkillTypes, LedgerKept, TodoOf, SkillInv
<1>2. ASSUME Deletable, NEW t \in Skills \ pack.touched PROVE Restorable(t)'
  BY <1>2, PackIs DEF Restorable, Untried, Copied, Aside, Ours, Undone, SameTree, Unremoved
<1> QED
  BY <1>1, <1>2 DEF SkillInv

\* The import and the user write skills of their own.
LEMMA ImportStep ==
    ASSUME SkillInv, BackUpSkill \/ PlaceImport \/ \E s \in Skills : ScanFolder(s) \/ EditSkill(s)
    PROVE  SkillInv'
<1>0. edits < MaxEdits => edits + 1 \in 0 .. MaxEdits /\ Bundled + (edits + 1) \in Digests
  BY PackIs, IdlePackIs, SkillAssumption
<1>1. CASE BackUpSkill
  <2>0. import.at \in Skills /\ import.pc = "scanned" /\ UNCHANGED <<ledger, tokenMode, edits, failures>>
    BY <1>1, PackIs DEF BackUpSkill
  <2>1. CASE /\ import' = [import EXCEPT !.pc = "place", !.backup = tree[import.at]]
             /\ tree' = [tree EXCEPT ![import.at] = NoTreeOf] /\ Touch(import.at)
    <3>1. tree' \in SkillTrees /\ tree[import.at] \in Digests /\ \A t \in Skills \ {import.at} : tree'[t] = tree[t]
      BY <2>0, <2>1, PackIs, IdlePackIs DEF SkillTrees
    <3>2. import' \in ImportRecord /\ import'.at = import.at
      BY <2>1, <3>1, PackIs DEF ImportRecord
    <3> QED
      BY <2>0, <2>1, <3>1, <3>2, TouchedStep, PackIs
  <2>2. CASE import' = IdleImport /\ UNCHANGED <<tree, pack>>
    BY <2>0, <2>2, AwayStep, IdlePackIs, PackIs
  <2> QED
    BY <1>1, <2>1, <2>2 DEF BackUpSkill
<1>2. CASE PlaceImport
  <2>1. /\ import.at \in Skills /\ import' = IdleImport /\ Touch(import.at)
        /\ tree' = [tree EXCEPT ![import.at] = IF @ = NoTreeOf THEN import.scanned ELSE @]
        /\ UNCHANGED <<ledger, tokenMode, edits, failures>> /\ import.scanned \in Digests
    BY <1>2, PackIs DEF PlaceImport, ImportRecord
  <2>2. tree' \in SkillTrees /\ \A t \in Skills \ {import.at} : tree'[t] = tree[t]
    BY <2>1, PackIs DEF SkillTrees
  <2> QED
    BY <2>1, <2>2, TouchedStep, IdlePackIs, PackIs
<1>3. ASSUME NEW s \in Skills, ScanFolder(s) PROVE SkillInv'
  <2>1. /\ edits' \in 0 .. MaxEdits /\ Bundled + edits' \in Digests
        /\ import' = [IdleImport EXCEPT !.pc = "scanned", !.at = s, !.scanned = Bundled + edits']
        /\ UNCHANGED <<tree, pack, ledger, tokenMode, failures>>
    BY <1>0, <1>3 DEF ScanFolder
  <2>2. import' \in ImportRecord /\ import'.at = s
    BY <2>1, IdlePackIs DEF ImportRecord
  <2> QED
    BY <2>1, <2>2, AwayStep
<1>4. ASSUME NEW s \in Skills, EditSkill(s) PROVE SkillInv'
  <2>1. /\ edits' \in 0 .. MaxEdits /\ Bundled + edits' \in Digests /\ Touch(s)
        /\ tree' = [tree EXCEPT ![s] = Bundled + edits']
        /\ UNCHANGED <<import, ledger, tokenMode, failures>>
    BY <1>0, <1>4 DEF EditSkill
  <2>2. tree' \in SkillTrees /\ \A t \in Skills \ {s} : tree'[t] = tree[t]
    BY <2>1, PackIs DEF SkillTrees
  <2> QED
    BY <2>1, <2>2, TouchedStep, PackIs
<1> QED
  BY <1>1, <1>2, <1>3, <1>4

\* The invariant holds at the start.
LEMMA SkillStarts == SkillPackInit => SkillInv
<1> SUFFICES ASSUME SkillPackInit PROVE SkillInv
  OBVIOUS
<1>a. tree \in [Skills -> {NoTreeOf, Earlier}] /\ (ledger = NoneOf \/ ledger = tree)
  BY DEF SkillPackInit
<1>b. tree \in SkillTrees
  BY <1>a, IdlePackIs DEF SkillTrees
<1>1. /\ tree \in SkillTrees /\ ledger \in SkillTrees /\ tokenMode \in BOOLEAN
      /\ pack = IdlePack /\ import = IdleImport /\ edits \in 0 .. MaxEdits /\ failures \in 0 .. MaxFailures
  <2>1. ledger \in SkillTrees
    BY <1>a, <1>b, IdlePackIs
  <2>2. pack = IdlePack /\ import = IdleImport /\ edits = 0 /\ failures = 0
    BY DEF SkillPackInit
  <2>3. edits \in 0 .. MaxEdits /\ failures \in 0 .. MaxFailures
    BY <2>2, SkillAssumption
  <2>4. tokenMode \in BOOLEAN
    BY DEF SkillPackInit
  <2> QED
    BY <1>b, <2>1, <2>2, <2>3, <2>4
<1>2. pack.pc = "idle" /\ pack \in PackRecord /\ import.pc = "idle" /\ import \in ImportRecord
  BY <1>1, IdlePackIs
<1>3. SkillTypes
  BY <1>1, <1>2 DEF SkillTypes
<1>4. LedgerKept /\ TodoOf /\ \A s \in Skills : Restorable(s)
  BY <1>2 DEF LedgerKept, TodoOf, Restorable
<1> QED
  BY <1>3, <1>4 DEF SkillInv

\* The invariant is inductive: one step per action.
LEMMA SkillPackStep ==
    SkillInv /\ [SkillPackNext]_skillPackVars => SkillInv'
<1> SUFFICES ASSUME SkillInv, [SkillPackNext]_skillPackVars PROVE SkillInv'
  OBVIOUS
<1>1. CASE BeginPack
  <2>1. RetiredSkills \in SUBSET Skills
    BY DEF Skills
  <2> QED
    BY <1>1, <2>1, BeginStep DEF BeginPack
<1>2. CASE BeginRemoval
  <2>1. OwnedSkills \in SUBSET Skills
    BY DEF OwnedSkills
  <2> QED
    BY <1>2, <2>1, BeginStep DEF BeginRemoval
<1>3. CASE RetireSkill \/ SnapshotSkill \/ InstallSkill \/ SwapSkill \/ SaveLedger \/ FinishPack
  BY <1>3, RetireStep, SnapshotStep, InstallStep, SwapStep, SaveStep, FinishStep
<1>4. CASE UndoSkill \/ RemoveSkill \/ SaveRemoval \/ UnremoveSkill
  BY <1>4, UndoSkillStep, RemoveStep, SaveRemovalStep, UnremoveStep
<1>5. CASE RaisePack \/ KillPack \/ DropRemoved
  BY <1>5, BackgroundStep, DropStep
<1>6. CASE BackUpSkill \/ PlaceImport \/ \E s \in Skills : ScanFolder(s) \/ EditSkill(s)
  BY <1>6, ImportStep
<1>7. CASE UNCHANGED skillPackVars
  BY <1>7, AwayStep, PackIs DEF skillPackVars
<1> QED
  BY <1>1, <1>2, <1>3, <1>4, <1>5, <1>6, <1>7 DEF SkillPackNext

\* The inductive invariant of the installed skills.
THEOREM SkillInvariant == SkillPackSpec => []SkillInv
  BY SkillStarts, SkillPackStep, PTL DEF SkillPackSpec

\* The records of the transaction have the shape its rollback relies on, whatever
\* failures are considered.
THEOREM SkillTypeCorrect == SkillPackSpec => []SkillPackTypeOK
<1>1. SkillInv => SkillPackTypeOK
  <2> SUFFICES ASSUME SkillInv PROVE SkillPackTypeOK
    OBVIOUS
  <2>1. pack.at \in Skills \cup {NoSkill} /\ import \in ImportRecord
    BY PackIs DEF PackRecord
  <2> QED
    BY <2>1, PackIs DEF SkillPackTypeOK, PackPCs, SkillTrees, ImportRecord
<1> QED
  BY <1>1, SkillInvariant, PTL

\* Whatever fails, a failed pack or removal puts the ledger and the token mode
\* back (uninstall and the next pack go by the ledger).
THEOREM FailedPackKeepsRecords ==
    SkillPackSpec => [](pack.pc = "failed" => ledger = pack.before.ledger /\ tokenMode = pack.before.mode)
<1>1. SkillInv => (pack.pc = "failed" => ledger = pack.before.ledger /\ tokenMode = pack.before.mode)
  BY DEF SkillInv, LedgerKept
<1> QED
  BY <1>1, SkillInvariant, PTL

\* A pack or a removal that failed leaves the ledger, the token mode and every
\* skill nobody else touched as they were, whenever what was set aside can be
\* deleted; where that fails, the code loses trees (DropRemoved), as the run
\* leaves out too.
THEOREM FailedPacksRestore ==
    ASSUME "cleanup" \notin PackFailures
    PROVE  SkillPackSpec => []FailedPackRestores
<1>1. SkillInv => FailedPackRestores
  BY DEF SkillInv, LedgerKept, Restorable, Deletable, FailedPackRestores
<1> QED
  BY <1>1, SkillInvariant, PTL

-----------------------------------------------------------------------------
(* The commands together: only one part moves.                              *)

\* All variables of the composition.
hostVars == <<part, installerVars, stackVars, skillPackVars, projectVars>>

\* Each part, taken for itself, behaves as its specification says.
LEMMA PartsBehave ==
    HostSpec => InstallerSpec /\ StackSpec /\ SkillPackSpec /\ ProjectSpec
<1>1. HostInit => InstallerInit /\ StackInit /\ SkillPackInit /\ ProjectInit
  BY DEF HostInit
<1>2. [HostStep /\ UNCHANGED part]_hostVars => [InstallerNext]_installerVars
  BY DEF hostVars, HostStep
<1>3. [HostStep /\ UNCHANGED part]_hostVars => [StackNext]_stackVars
  BY DEF hostVars, HostStep
<1>4. [HostStep /\ UNCHANGED part]_hostVars => [SkillPackNext]_skillPackVars
  BY DEF hostVars, HostStep
<1>5. [HostStep /\ UNCHANGED part]_hostVars => [ProjectNext]_projectVars
  BY DEF hostVars, HostStep
<1> QED
  BY <1>1, <1>2, <1>3, <1>4, <1>5, PTL
     DEF HostSpec, hostVars, InstallerSpec, StackSpec, SkillPackSpec, ProjectSpec

\* The records of every part of the run have the shape their readers rely on.
THEOREM HostTypesCorrect == HostSpec => []HostTypesOK
<1>1. InstallerInv => InstallerTypeOK
  BY DEF InstallerInv
<1>2. InstallerSpec => []InstallerTypeOK
  BY <1>1, InstallerInvariant, PTL
<1>3. InstallerTypeOK /\ StackTypeOK /\ SkillPackTypeOK /\ ProjectTypeOK => HostTypesOK
  BY DEF HostTypesOK
<1> QED
  BY <1>2, <1>3, PartsBehave, StackTypeCorrect, SkillTypeCorrect, ProjectTypeCorrect, PTL
=============================================================================
