----------------------------- MODULE Publication -----------------------------
(***************************************************************************)
(* scripts/package_release.py: several packagers build releases of one     *)
(* working tree that its developer goes on editing.  Each stages a         *)
(* snapshot of the tree, validates it, packs two archives, and publishes   *)
(* them under one lock: the pair of archives inside the release drop, then *)
(* the drop itself, every old piece set aside under a .manageroo-previous  *)
(* name until the end, and put back when a step fails.                     *)
(*                                                                         *)
(* The installer archive holds copied files only: it is named by the       *)
(* version of the source.  The source archive and the notes beside it hold *)
(* files written during the build: they are named by the build.            *)
(***************************************************************************)
EXTENDS Naturals, FiniteSets

CONSTANTS Packagers, NoPackager,
          Versions,    \* contents of the working tree
          MaxBuilds,   \* bound: archives built
          MaxTroubles  \* bound: edits, kills and failing file operations

ASSUME PublicationAssumption ==
    /\ NoPackager \notin Packagers /\ Versions \subseteq Nat \ {0}
    /\ MaxBuilds \in Nat /\ MaxTroubles \in Nat

VARIABLES
    source,     \* the version in the working tree
    packager,   \* [Packagers -> a run of package_release]
    pubLock,    \* who holds the publication lock
    drop,       \* dist/release
    oldDrop,    \* dist/release.manageroo-previous
    shipped,    \* history: the last release whose drop was put in place
    builds, troubles

publicationVars ==
    <<source, packager, pubLock, drop, oldDrop, shipped, builds, troubles>>

None   == 0
Builds == 0 .. MaxBuilds
Files  == {"installer", "notes", "source"}
\* A drop: its files, and the archives set aside beside them; 0 is absent.
Drops == [installer : Versions \cup {None}, source : Builds, notes : Builds,
          oldInstaller : Versions \cup {None}, oldSource : Builds]
NoDrop == [installer |-> None, source |-> None, notes |-> None,
           oldInstaller |-> None, oldSource |-> None]

PackagerSteps == {"idle", "stage", "copied", "build", "publish", "aside", "asideSource",
                  "place", "placeSource", "refresh", "swap", "undo", "undoSource",
                  "clean"}
\* fingerprint: the version seen first; snapshot: of two files copied in turn.
IdlePackager == [pc |-> "idle", fingerprint |-> None, snapshot |-> <<None, None>>,
                 build |-> None, placed |-> {}]

PublicationTypeOK ==
    /\ source \in Versions
    /\ packager \in [Packagers ->
         [pc : PackagerSteps, fingerprint : Versions \cup {None},
          snapshot : (Versions \cup {None}) \X (Versions \cup {None}),
          build : Builds, placed : SUBSET {"installer", "source"}]]
    /\ pubLock \in Packagers \cup {NoPackager}
    /\ drop \in Drops /\ oldDrop \in Drops
    /\ shipped \in [installer : Versions \cup {None}, build : Builds]
    /\ builds \in Builds /\ troubles \in 0 .. MaxTroubles

PublicationInit ==
    /\ source \in Versions
    /\ packager = [p \in Packagers |-> IdlePackager]
    /\ pubLock = NoPackager
    /\ drop = NoDrop /\ oldDrop = NoDrop
    /\ shipped = [installer |-> None, build |-> None]
    /\ builds = 0 /\ troubles = 0

Doing(p, pc)  == packager[p].pc = pc
Proceed(p, pc) == packager' = [packager EXCEPT ![p].pc = pc]
Trouble == troubles < MaxTroubles /\ troubles' = troubles + 1
Calm == UNCHANGED troubles
\* Leaving _publish_release, with or without an exception.
Abandon(p) ==
    /\ packager' = [packager EXCEPT ![p] = IdlePackager]
    /\ pubLock' = IF pubLock = p THEN NoPackager ELSE pubLock

-----------------------------------------------------------------------------
\* The snapshot and the archives

EditSource(v) ==
    /\ Trouble /\ v # source /\ source' = v
    /\ UNCHANGED <<packager, pubLock, drop, oldDrop, shipped, builds>>

Fingerprint(p) ==
    /\ Doing(p, "idle") /\ builds < MaxBuilds
    /\ packager' = [packager EXCEPT ![p].pc = "stage", ![p].fingerprint = source]
    /\ Calm /\ UNCHANGED <<source, pubLock, drop, oldDrop, shipped, builds>>

CopyFile(p) ==
    /\ Doing(p, "stage")
    /\ \E i \in {1, 2} :
          /\ packager[p].snapshot[i] = None
          /\ \A j \in 1 .. i - 1 : packager[p].snapshot[j] # None
          /\ packager' = [packager EXCEPT ![p].snapshot[i] = source,
                                          ![p].pc = IF i = 2 THEN "copied" ELSE @]
    /\ Calm /\ UNCHANGED <<source, pubLock, drop, oldDrop, shipped, builds>>

\* The source and the copy still have the fingerprint taken first.
Staged(p) ==
    LET me == packager[p]
    IN  source = me.fingerprint /\ me.snapshot = <<me.fingerprint, me.fingerprint>>

StageRelease(p) ==
    /\ Doing(p, "copied")
    /\ packager' = [packager EXCEPT ![p] =
                      IF Staged(p) THEN [@ EXCEPT !.pc = "build"] ELSE IdlePackager]
    /\ Calm /\ UNCHANGED <<source, pubLock, drop, oldDrop, shipped, builds>>

\* Validation, manifest, checksums, archives and the smoke test of the
\* snapshot: whatever fails ends the run before anything is published.
BuildRelease(p, validated) ==
    /\ Doing(p, "build") /\ builds < MaxBuilds
    /\ builds' = builds + 1
    /\ packager' = [packager EXCEPT ![p] =
                      IF validated THEN [@ EXCEPT !.pc = "publish", !.build = builds']
                      ELSE IdlePackager]
    /\ Calm /\ UNCHANGED <<source, pubLock, drop, oldDrop, shipped>>

-----------------------------------------------------------------------------
\* The publication

Candidate(p) == [installer |-> packager[p].fingerprint, build |-> packager[p].build]

Interrupted ==
    oldDrop # NoDrop \/ drop.oldInstaller # None \/ drop.oldSource # None

Published(p) ==
    /\ drop.installer = Candidate(p).installer
    /\ drop.source = Candidate(p).build /\ drop.notes = Candidate(p).build

\* Mutant: the backups of an interrupted transaction are discarded unseen.
Discardable_Unseen(p) == TRUE

\* Recovery data is discarded only where the publication is this candidate's.
Discardable(p) == Published(p)

Reconcile(p) ==
    /\ Doing(p, "publish") /\ pubLock = NoPackager
    /\ IF Interrupted /\ ~Discardable(p)
       THEN Abandon(p) /\ UNCHANGED <<drop, oldDrop>>
       ELSE /\ pubLock' = p /\ Proceed(p, "aside")
            /\ drop' = [drop EXCEPT !.oldInstaller = None, !.oldSource = None]
            /\ oldDrop' = NoDrop
    /\ Calm /\ UNCHANGED <<source, shipped, builds>>

Pair(p, from, to) ==
    /\ Doing(p, from) /\ Proceed(p, to)
    /\ Calm /\ UNCHANGED <<source, pubLock, oldDrop, shipped, builds>>

SetAsideInstaller(p) ==
    /\ Pair(p, "aside", "asideSource")
    /\ drop' = [drop EXCEPT !.oldInstaller = drop.installer, !.installer = None]

SetAsideSource(p) ==
    /\ Pair(p, "asideSource", "place")
    /\ drop' = [drop EXCEPT !.oldSource = drop.source, !.source = None]

Place(p, file, from, to, content) ==
    /\ Doing(p, from)
    /\ drop' = [drop EXCEPT ![file] = content]
    /\ packager' = [packager EXCEPT ![p].pc = to, ![p].placed = @ \cup {file}]
    /\ Calm /\ UNCHANGED <<source, pubLock, oldDrop, shipped, builds>>

PlaceInstaller(p) == Place(p, "installer", "place", "placeSource", Candidate(p).installer)
PlaceSource(p)    == Place(p, "source", "placeSource", "refresh", Candidate(p).build)

\* The stage keeps what the operator put into the drop, and the archives set
\* aside in it; then the drop is swapped for the stage.
SetAsideDrop(p) ==
    /\ Doing(p, "refresh") /\ oldDrop = NoDrop
    /\ oldDrop' = drop /\ drop' = NoDrop
    /\ Proceed(p, "swap")
    /\ Calm /\ UNCHANGED <<source, pubLock, shipped, builds>>

PlaceDrop(p) ==
    /\ Doing(p, "swap")
    /\ drop' = [oldDrop EXCEPT !.notes = Candidate(p).build]
    /\ shipped' = Candidate(p)
    /\ Proceed(p, "clean")
    /\ Calm /\ UNCHANGED <<source, pubLock, oldDrop, builds>>

\* An operation of the transaction fails: the drop comes back first.
PublishFails(p) ==
    /\ packager[p].pc \in {"aside", "asideSource", "place", "placeSource", "refresh", "swap"}
    /\ Trouble /\ Proceed(p, "undo")
    /\ IF Doing(p, "swap") THEN drop' = oldDrop /\ oldDrop' = NoDrop
       ELSE UNCHANGED <<drop, oldDrop>>
    /\ UNCHANGED <<source, pubLock, shipped, builds>>

\* What was placed leaves, what was set aside returns; one may fail alone.
Returned(p, file, aside) ==
    [drop EXCEPT ![file] = IF drop[aside] # None THEN drop[aside]
                           ELSE IF file \in packager[p].placed THEN None ELSE @,
                 ![aside] = None]

Gone(p, file) == [drop EXCEPT ![file] = IF file \in packager[p].placed THEN None ELSE @]

UndoInstaller(p) ==
    /\ Doing(p, "undo") /\ Proceed(p, "undoSource")
    /\ \/ drop' = Returned(p, "installer", "oldInstaller") /\ Calm
       \/ drop' \in {drop, Gone(p, "installer")} /\ Trouble
    /\ UNCHANGED <<source, pubLock, oldDrop, shipped, builds>>

UndoSource(p) ==
    /\ Doing(p, "undoSource") /\ Abandon(p)
    /\ \/ drop' = Returned(p, "source", "oldSource") /\ Calm
       \/ drop' \in {drop, Gone(p, "source")} /\ Trouble
    /\ UNCHANGED <<source, oldDrop, shipped, builds>>

\* Each backup is removed or leaves a warning; the release is created anyway.
CleanBackups(p) ==
    /\ Doing(p, "clean") /\ Abandon(p)
    /\ \E left \in SUBSET {"archives", "drop"} :
          /\ drop' = IF "archives" \in left THEN drop
                     ELSE [drop EXCEPT !.oldInstaller = None, !.oldSource = None]
          /\ oldDrop' = IF "drop" \in left THEN oldDrop ELSE NoDrop
          /\ IF left = {} THEN Calm ELSE Trouble
    /\ UNCHANGED <<source, shipped, builds>>

\* The lock is the operating system's: it goes with the process.
KillPackager(p) ==
    /\ ~Doing(p, "idle") /\ Trouble /\ Abandon(p)
    /\ UNCHANGED <<source, drop, oldDrop, shipped, builds>>

PublicationNext ==
    \/ \E v \in Versions : EditSource(v)
    \/ \E p \in Packagers :
          \/ Fingerprint(p) \/ CopyFile(p) \/ StageRelease(p)
          \/ \E validated \in BOOLEAN : BuildRelease(p, validated)
          \/ Reconcile(p) \/ SetAsideInstaller(p) \/ SetAsideSource(p)
          \/ PlaceInstaller(p) \/ PlaceSource(p) \/ SetAsideDrop(p) \/ PlaceDrop(p)
          \/ PublishFails(p) \/ UndoInstaller(p) \/ UndoSource(p)
          \/ CleanBackups(p) \/ KillPackager(p)

PublicationSpec == PublicationInit /\ [][PublicationNext]_publicationVars

-----------------------------------------------------------------------------
\* The last release that was put in place is still whole on disk, in the drop
\* or in the one set aside, its archives under their own names or the names
\* they were set aside by, whichever step of a later publication failed or
\* was the last of a killed packager; and the two archives of a packager are
\* of one version of the source.
ReleaseRecoverable ==
    /\ shipped.build # None =>
         \E d \in {drop, oldDrop} :
            /\ d.notes = shipped.build
            /\ shipped.installer \in {d.installer, d.oldInstaller}
            /\ shipped.build \in {d.source, d.oldSource}
    /\ \A p \in Packagers :
         packager[p].build # None =>
            packager[p].snapshot = <<packager[p].fingerprint, packager[p].fingerprint>>

\* Not so: backups a published release left are reconciled by the next one
\* (tests/test_package_release.py:1032).
PublishedReconciled ==
    \A p \in Packagers :
        Doing(p, "publish") /\ pubLock = NoPackager /\ drop.notes \in {shipped.build} \ {None} =>
            Discardable(p) \/ ~Interrupted
=============================================================================
