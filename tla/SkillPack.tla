------------------------------ MODULE SkillPack ------------------------------
(***************************************************************************)
(* The skills Manageroo installs for its hosts: the transaction that       *)
(* installs a pack and takes it back when a step fails, the removal of the *)
(* skills the ownership ledger proves ours, and the import of skills from  *)
(* a folder, while the user edits the same directories.                    *)
(***************************************************************************)
EXTENDS Naturals, FiniteSets

CONSTANTS
    CoreSkills, RetiredSkills,
    NoSkill,
    MaxEdits,      \* bound: trees the user writes
    PackFailures,  \* the failures considered: see Failing
    MaxFailures    \* bound: how many of them

ASSUME SkillAssumption ==
    /\ CoreSkills \cap RetiredSkills = {} /\ NoSkill \notin CoreSkills \cup RetiredSkills
    /\ MaxEdits \in Nat /\ MaxFailures \in Nat

Skills == CoreSkills \cup RetiredSkills

\* A tree is known by its digest: none, as an earlier release shipped it, as
\* this one ships it, and each tree the user writes.
NoTreeOf == 0
Earlier == 1
Bundled == 2
Digests == NoTreeOf .. Bundled + MaxEdits
Edited == {d \in Digests : d > Bundled}

VARIABLES
    tree,       \* [Skills -> Digests]: the directories in the skills root
    elsewhere,  \* skills another root already holds
    ledger,     \* [Skills -> Digests]: skill-ownership.json
    tokenMode,  \* whether the state that comes with the pack is written
    pack,       \* the transaction under the skill install lock
    import,     \* an import, which takes no lock
    edits, failures

skillPackVars == <<tree, elsewhere, ledger, tokenMode, pack, import, edits, failures>>

NoneOf == [s \in Skills |-> NoTreeOf]
NoBefore == [tree |-> NoneOf, ledger |-> NoneOf, mode |-> FALSE]
\* "before" and "touched" remember what the property compares: the state when
\* the transaction began, and what others changed since.
IdlePack == [pc |-> "idle", todo |-> {}, ledger |-> NoneOf, moved |-> NoneOf, snap |-> NoneOf,
             absent |-> {}, written |-> NoneOf, at |-> NoSkill, saved |-> FALSE,
             before |-> NoBefore, touched |-> {}]
IdleImport == [pc |-> "idle", at |-> NoSkill, scanned |-> NoTreeOf, backup |-> NoTreeOf]

SkillPackTypeOK ==
    /\ {tree, ledger, pack.ledger, pack.moved, pack.snap, pack.written} \subseteq [Skills -> Digests]
    /\ tokenMode \in BOOLEAN /\ edits \in 0 .. MaxEdits /\ failures \in 0 .. MaxFailures
    /\ pack.pc \in {"idle", "retire", "snapshot", "install", "swap", "save", "finish", "undo",
                    "failed", "remove", "drop", "unremove"}
    /\ pack.todo \cup pack.absent \cup pack.touched \subseteq Skills /\ pack.at \in Skills \cup {NoSkill}
    /\ import \in [pc : {"idle", "scanned", "place"}, at : Skills \cup {NoSkill},
                   scanned : Digests, backup : Digests]

SkillPackInit ==
    /\ tree \in [Skills -> {NoTreeOf, Earlier}] /\ elsewhere \in {{}, {CHOOSE s \in CoreSkills : TRUE}}
    /\ ledger \in {NoneOf, tree} /\ tokenMode = FALSE
    /\ pack = IdlePack /\ import = IdleImport /\ edits = 0 /\ failures = 0

Failing(kind) == kind \in PackFailures /\ failures < MaxFailures /\ failures' = failures + 1
Others == UNCHANGED <<elsewhere, import, edits>>
Goal(pc, todo) == pack' = [pack EXCEPT !.pc = pc, !.todo = todo]
\* What a step of somebody else's does to the record of the transaction.
Touch(s) == pack' = [pack EXCEPT !.touched = IF pack.pc = "idle" THEN {} ELSE @ \cup {s}]

-----------------------------------------------------------------------------
(* Installing a pack. *)

\* Ours: the tree this release ships, or the one the ledger records.
Ours(s, record) == tree[s] # NoTreeOf /\ (tree[s] = record[s] \/ (s \in CoreSkills /\ tree[s] = Bundled))

\* Records of directories that are gone are not read.
ReadLedger == [s \in Skills |-> IF tree[s] = NoTreeOf THEN NoTreeOf ELSE ledger[s]]

BeginPack ==
    /\ pack.pc = "idle"
    /\ pack' = [IdlePack EXCEPT !.pc = "retire", !.todo = RetiredSkills, !.ledger = ReadLedger,
                    !.before = [tree |-> tree, ledger |-> ledger, mode |-> tokenMode]]
    /\ UNCHANGED <<tree, ledger, tokenMode, failures>> /\ Others

RetireSkill ==
    /\ pack.pc = "retire"
    /\ IF pack.todo = {} THEN Goal("snapshot", CoreSkills) /\ UNCHANGED tree
       ELSE \E s \in pack.todo :
              LET ours == Ours(s, pack.ledger)
              IN  /\ tree' = [tree EXCEPT ![s] = IF ours THEN NoTreeOf ELSE @]
                  /\ pack' = [pack EXCEPT !.todo = @ \ {s}, !.ledger[s] = NoTreeOf,
                                          !.moved[s] = IF ours THEN tree[s] ELSE NoTreeOf]
    /\ UNCHANGED <<ledger, tokenMode, failures>> /\ Others

\* Trees that are ours are copied aside; directories that are missing are
\* noted as ones to delete again.
SnapshotSkill ==
    /\ pack.pc = "snapshot"
    /\ IF pack.todo = {} THEN Goal("install", CoreSkills)
       ELSE \E s \in pack.todo :
              pack' = [pack EXCEPT !.todo = @ \ {s},
                                   !.absent = IF tree[s] = NoTreeOf THEN @ \cup {s} ELSE @,
                                   !.snap[s] = IF Ours(s, pack.ledger) THEN tree[s] ELSE NoTreeOf]
    /\ UNCHANGED <<tree, ledger, tokenMode, failures>> /\ Others

\* Afterwards the directory's identity is noted, whoever wrote what is there.
InstalledSkill(s, record) ==
    pack' = [pack EXCEPT !.pc = "install", !.at = NoSkill, !.todo = @ \ {s}, !.ledger[s] = record,
                         !.written[s] = tree'[s]]

InstallSkill ==
    /\ pack.pc = "install" /\ UNCHANGED <<ledger, tokenMode>> /\ Others
    /\ \/ pack.todo = {} /\ Goal("save", {}) /\ UNCHANGED <<tree, failures>>
       \/ Failing("install") /\ Goal("undo", Skills) /\ UNCHANGED tree
       \/ \E s \in pack.todo :
             /\ UNCHANGED failures
             /\ \/ /\ tree[s] # NoTreeOf /\ ~Ours(s, pack.ledger) /\ UNCHANGED tree
                   /\ InstalledSkill(s, NoTreeOf)
                \/ tree[s] = Bundled /\ UNCHANGED tree /\ InstalledSkill(s, Bundled)
                \/ /\ tree[s] # Bundled /\ Ours(s, pack.ledger)
                   /\ tree' = [tree EXCEPT ![s] = NoTreeOf]
                   /\ pack' = [pack EXCEPT !.pc = "swap", !.at = s, !.moved[s] = tree[s]]
                \/ tree[s] = NoTreeOf /\ s \in elsewhere /\ UNCHANGED tree
                   /\ InstalledSkill(s, pack.ledger[s])
                \/ tree[s] = NoTreeOf /\ s \notin elsewhere /\ tree' = [tree EXCEPT ![s] = Bundled]
                   /\ InstalledSkill(s, Bundled)

\* The stage is renamed into the place the old tree was renamed from.  When
\* that fails, the old tree comes back, or goes if there is another.
SwapSkill ==
    /\ pack.pc = "swap" /\ UNCHANGED <<ledger, tokenMode>> /\ Others
    /\ LET s == pack.at
           undo == [pack EXCEPT !.pc = "undo", !.todo = Skills, !.at = NoSkill, !.moved[s] = NoTreeOf]
       IN  \/ /\ tree[s] = NoTreeOf /\ tree' = [tree EXCEPT ![s] = Bundled] /\ UNCHANGED failures
              /\ pack' = [pack EXCEPT !.pc = "install", !.at = NoSkill, !.todo = @ \ {s},
                                      !.ledger[s] = Bundled, !.written[s] = Bundled,
                                      !.moved[s] = NoTreeOf]
           \/ tree[s] # NoTreeOf /\ pack' = undo /\ UNCHANGED <<tree, failures>>
           \/ /\ tree[s] = NoTreeOf /\ Failing("install")
              /\ tree' = [tree EXCEPT ![s] = pack.moved[s]] /\ pack' = undo
           \* The new tree is in place and the old one cannot be deleted.
           \/ /\ tree[s] = NoTreeOf /\ Failing("cleanup")
              /\ tree' = [tree EXCEPT ![s] = Bundled] /\ pack' = undo

SaveLedger ==
    /\ pack.pc = "save" /\ UNCHANGED <<tree, tokenMode>> /\ Others
    /\ \/ /\ ledger' = pack.ledger /\ pack' = [pack EXCEPT !.pc = "finish", !.saved = TRUE]
          /\ UNCHANGED failures
       \/ Failing("ledger") /\ Goal("undo", Skills) /\ UNCHANGED ledger

\* The token mode that asked for the pack is written last; what is left of
\* the transaction, retired skills included, is deleted.
FinishPack ==
    /\ pack.pc = "finish" /\ UNCHANGED <<tree, ledger>> /\ Others
    /\ \/ tokenMode' = TRUE /\ pack' = IdlePack /\ UNCHANGED failures
       \/ Failing("finish") /\ Goal("undo", Skills) /\ UNCHANGED tokenMode

\* Each tree this transaction wrote, and nobody changed since, is taken back.
SameTree(s) == pack.written[s] # NoTreeOf /\ tree[s] = pack.written[s]

\* Mutant: what the failed pack wrote stays.
Undone_Kept(s) ==
    IF pack.snap[s] # NoTreeOf /\ SameTree(s) THEN pack.snap[s]
    ELSE IF tree[s] = NoTreeOf THEN pack.moved[s] ELSE tree[s]

Undone(s) ==
    IF pack.snap[s] # NoTreeOf /\ SameTree(s) THEN pack.snap[s]
    ELSE IF s \in pack.absent /\ SameTree(s) THEN NoTreeOf
    ELSE IF tree[s] = NoTreeOf THEN pack.moved[s] ELSE tree[s]

UndoSkill ==
    /\ pack.pc = "undo" /\ UNCHANGED <<tokenMode, failures>> /\ Others
    /\ IF pack.todo # {}
       THEN \E s \in pack.todo : /\ tree' = [tree EXCEPT ![s] = Undone(s)]
                                 /\ Goal("undo", pack.todo \ {s}) /\ UNCHANGED ledger
       ELSE /\ Goal("failed", {}) /\ UNCHANGED tree
            /\ ledger' = IF pack.saved /\ ledger = pack.ledger THEN pack.before.ledger ELSE ledger

RaisePack ==
    /\ pack.pc = "failed" /\ pack' = IdlePack
    /\ UNCHANGED <<tree, ledger, tokenMode, failures>> /\ Others

-----------------------------------------------------------------------------
(* Removing what is ours. *)

OwnedSkills == {s \in Skills : ledger[s] # NoTreeOf /\ tree[s] = ledger[s]}

BeginRemoval ==
    /\ pack.pc = "idle"
    /\ pack' = [IdlePack EXCEPT !.pc = "remove", !.todo = OwnedSkills, !.ledger = ReadLedger,
                    !.before = [tree |-> tree, ledger |-> ledger, mode |-> tokenMode]]
    /\ UNCHANGED <<tree, ledger, tokenMode, failures>> /\ Others

\* The tree's identity is taken again as it is moved.
RemoveSkill ==
    /\ pack.pc = "remove" /\ pack.todo # {} /\ UNCHANGED <<ledger, tokenMode, failures>> /\ Others
    /\ \E s \in pack.todo :
          IF tree[s] = NoTreeOf THEN Goal("unremove", Skills) /\ UNCHANGED tree
          ELSE /\ tree' = [tree EXCEPT ![s] = NoTreeOf]
               /\ pack' = [pack EXCEPT !.todo = @ \ {s}, !.moved[s] = tree[s], !.ledger[s] = NoTreeOf]

SaveRemoval ==
    /\ pack.pc = "remove" /\ pack.todo = {} /\ UNCHANGED <<tree, tokenMode>> /\ Others
    /\ \/ /\ ledger' = pack.ledger /\ pack' = [pack EXCEPT !.pc = "drop", !.saved = TRUE]
          /\ UNCHANGED failures
       \/ Failing("ledger") /\ Goal("unremove", Skills) /\ UNCHANGED ledger

\* Deleting the moved trees may break off: those it reached do not come back.
DropRemoved ==
    /\ pack.pc = "drop" /\ UNCHANGED <<tree, ledger, tokenMode>> /\ Others
    /\ \/ pack' = IdlePack /\ UNCHANGED failures
       \/ /\ Failing("cleanup")
          /\ \E left \in SUBSET Skills :
                pack' = [pack EXCEPT !.pc = "unremove", !.todo = Skills,
                             !.moved = [s \in Skills |-> IF s \in left THEN @[s] ELSE NoTreeOf]]

UnremoveSkill ==
    /\ pack.pc = "unremove" /\ UNCHANGED <<tokenMode, failures>> /\ Others
    /\ IF pack.todo # {}
       THEN \E s \in pack.todo :
              /\ tree' = [tree EXCEPT ![s] = IF @ = NoTreeOf THEN pack.moved[s] ELSE @]
              /\ Goal("unremove", pack.todo \ {s}) /\ UNCHANGED ledger
       ELSE /\ Goal("failed", {}) /\ UNCHANGED tree
            /\ ledger' = IF pack.saved /\ ledger = pack.ledger THEN pack.before.ledger ELSE ledger

-----------------------------------------------------------------------------
(* Importing from a folder; the trees there are the user's. *)

ScanFolder(s) ==
    /\ import.pc = "idle" /\ edits < MaxEdits /\ edits' = edits + 1
    /\ import' = [IdleImport EXCEPT !.pc = "scanned", !.at = s, !.scanned = Bundled + edits']
    /\ UNCHANGED <<tree, elsewhere, ledger, tokenMode, pack, failures>>

\* A folder that changed since the scan is refused; what it would replace is
\* renamed to a backup.
BackUpSkill ==
    /\ import.pc = "scanned"
    /\ \/ /\ import' = [import EXCEPT !.pc = "place", !.backup = tree[import.at]]
          /\ tree' = [tree EXCEPT ![import.at] = NoTreeOf] /\ Touch(import.at)
       \/ import' = IdleImport /\ UNCHANGED <<tree, pack>>
    /\ UNCHANGED <<elsewhere, ledger, tokenMode, edits, failures>>

PlaceImport ==
    /\ import.pc = "place" /\ import' = IdleImport
    /\ tree' = [tree EXCEPT ![import.at] = IF @ = NoTreeOf THEN import.scanned ELSE @]
    /\ Touch(import.at)
    /\ UNCHANGED <<elsewhere, ledger, tokenMode, edits, failures>>

-----------------------------------------------------------------------------
(* What happens meanwhile. *)

EditSkill(s) ==
    /\ edits < MaxEdits /\ edits' = edits + 1 /\ Touch(s)
    /\ tree' = [tree EXCEPT ![s] = Bundled + edits']
    /\ UNCHANGED <<elsewhere, ledger, tokenMode, import, failures>>

KillPack ==
    /\ pack.pc # "idle" /\ Failing("kill") /\ pack' = IdlePack
    /\ UNCHANGED <<tree, ledger, tokenMode>> /\ Others

SkillPackNext ==
    \/ BeginPack \/ RetireSkill \/ SnapshotSkill \/ InstallSkill \/ SwapSkill \/ SaveLedger
    \/ FinishPack \/ UndoSkill \/ RaisePack
    \/ BeginRemoval \/ RemoveSkill \/ SaveRemoval \/ DropRemoved \/ UnremoveSkill
    \/ BackUpSkill \/ PlaceImport \/ KillPack
    \/ \E s \in Skills : ScanFolder(s) \/ EditSkill(s)

SkillPackSpec == SkillPackInit /\ [][SkillPackNext]_skillPackVars

-----------------------------------------------------------------------------
\* A pack or a removal that failed leaves the ledger, the token mode and every
\* skill nobody else touched as they were before it began.
FailedPackRestores ==
    pack.pc = "failed" =>
        /\ ledger = pack.before.ledger /\ tokenMode = pack.before.mode
        /\ \A s \in Skills \ pack.touched : tree[s] = pack.before.tree[s]

\* Not so: a tree the user wrote stays until the user replaces it.
EditedSkillKept ==
    [][\A s \in Skills : tree[s] \in Edited /\ tree'[s] # tree[s] =>
          edits' # edits \/ import' # import]_skillPackVars
=============================================================================
