--------------------------- MODULE ExternalRepair ----------------------------
(***************************************************************************)
(* The command-owned review and repair lanes (external_repair_policy.py):  *)
(* configured commands that may edit the run's workspace, one after the    *)
(* other, each from a clean checkpoint, with a rollback of what is         *)
(* rejected and a resumption from the manifests after an interruption.     *)
(*                                                                         *)
(* Commits are numbered; "tainted" are those whose history holds an edit   *)
(* no scope check approved.                                                *)
(***************************************************************************)
EXTENDS Naturals

CONSTANTS
    Lanes,        \* number of configured commands
    MaxCommits,   \* bound: commits
    MaxEntries    \* bound: controllers that enter the lanes

ASSUME ExternalRepairAssumption == {Lanes, MaxEntries} \subseteq Nat \ {0} /\ MaxCommits \in Nat

VARIABLES
    lanePc,      \* where the controller stands
    lane,        \* the lane it is at
    baseline,    \* HEAD when the lane began
    verdict,     \* the controller's records: "none", "ok" or "failed" per lane
    entry,       \* which controller this is, and the fingerprint of its inputs
    head,        \* the workspace's HEAD
    commits,     \* commits made
    tainted,     \* commits with unapproved history
    orphaned,    \* a controller was killed with an unapproved commit at HEAD
    work,        \* uncommitted edits: "clean", "inside" or "outside" the scope;
                 \* "late" and "stray": with edits made after the others, or none,
                 \* were judged
    workspace,   \* the directory: "present", or "displaced" by a replacement
    ignored,     \* the ignored files are as the lane found them
    meta,        \* the Git metadata is as the lane found it
    manifests,   \* <lane>-checkpoint.json, per lane
    report       \* review/external-review-repair.json

laneLocal == <<lane, baseline, verdict, entry>>
laneTree == <<head, commits, tainted, orphaned, work, workspace, ignored, meta>>
laneFiles == <<manifests, report>>
laneVars == <<lanePc, laneLocal, laneTree, laneFiles>>

-----------------------------------------------------------------------------
Lane == 1 .. Lanes
Commit == 0 .. MaxCommits
NoManifest == [baseline |-> 0, checkpoint |-> 0, inputs |-> 0, there |-> FALSE]
NoReport == [failed |-> FALSE, first |-> 0, final |-> 0, inputs |-> 0, there |-> FALSE]

LaneTypeOK ==
    /\ lanePc \in {"entering", "lane", "returned", "checked", "approved", "committed", "undo",
                   "restoring", "reinstall", "report", "done", "off", "raised", "inputs_changed"}
    /\ lane \in 1 .. Lanes + 1 /\ baseline \in Commit
    /\ verdict \in [Lane -> {"none", "ok", "failed", "error"}]
    /\ entry.number \in 1 .. MaxEntries /\ entry.inputs \in 0 .. MaxEntries
    /\ head \in Commit /\ commits \in Commit
    /\ tainted \subseteq Commit /\ orphaned \in BOOLEAN
    /\ work \in {"clean", "inside", "outside", "late", "stray"}
    /\ workspace \in {"present", "displaced"}
    /\ ignored \in BOOLEAN /\ meta \in BOOLEAN
    /\ \A l \in Lane : manifests[l].baseline \in Commit /\ manifests[l].checkpoint \in Commit
    /\ report.first \in Commit /\ report.final \in Commit

LaneInit ==
    /\ lanePc = "entering"
    /\ lane = 1 /\ baseline = 0
    /\ verdict = [l \in Lane |-> "none"]
    /\ entry = [number |-> 1, inputs |-> 1]
    /\ head = 0 /\ commits = 0
    /\ tainted = {} /\ orphaned = FALSE
    /\ work = "clean" /\ workspace = "present"
    /\ ignored = TRUE /\ meta = TRUE
    /\ manifests = [l \in Lane |-> NoManifest]
    /\ report = NoReport

-----------------------------------------------------------------------------
Raise(how) == lanePc' = how /\ UNCHANGED <<laneLocal, laneTree, laneFiles>>

\* A commit of what lies in the workspace.
CommitWork(unapproved) ==
    /\ commits < MaxCommits
    /\ commits' = commits + 1
    /\ head' = commits + 1
    /\ tainted' = IF unapproved \/ head \in tainted THEN tainted \cup {commits + 1} ELSE tainted
    /\ work' = "clean"

\* _existing_checkpoint_chain: the lanes whose manifests are there form a prefix,
\* each from where the last ended, made from the same inputs.
Prefix == {l \in Lane : \A k \in 1 .. l : manifests[k].there}
Contiguous == \A l \in Lane : manifests[l].there => l \in Prefix
SameInputs == \A l \in Prefix : manifests[l].inputs = entry.inputs
Chained == \A l \in Prefix \ {1} : manifests[l].baseline = manifests[l - 1].checkpoint
LastOf(ls) == CHOOSE l \in ls : \A k \in ls : k <= l
ChainEnd == manifests[LastOf(Prefix)].checkpoint
Boundaries == {manifests[1].baseline} \cup {manifests[l].checkpoint : l \in Prefix}

\* Same paths, kinds, modes, sizes and digests.
IgnoredAsFound == ignored

EnterFresh ==
    /\ lanePc = "entering" /\ ~report.there /\ Prefix = {} /\ Contiguous
    /\ lanePc' = "lane"
    /\ UNCHANGED <<laneLocal, laneTree, laneFiles>>

\* The checkpoints are restored by a replacement of the whole workspace.
ResumeChain ==
    /\ lanePc = "entering" /\ ~report.there /\ Prefix # {} /\ Contiguous /\ SameInputs /\ Chained
    /\ head \in Boundaries /\ work = "clean"
    /\ lane' = LastOf(Prefix) + 1
    /\ baseline' = ChainEnd
    /\ verdict' = [l \in Lane |-> IF l \in Prefix THEN "ok" ELSE "none"]
    /\ workspace' = "displaced"
    /\ lanePc' = "restoring"
    /\ UNCHANGED <<entry, head, commits, tainted, orphaned, work, ignored, meta, laneFiles>>

\* _validate_persisted_report, and the restoration of its final checkpoint.
ResumeReport ==
    /\ lanePc = "entering" /\ report.there /\ ~report.failed
    /\ report.inputs = entry.inputs
    /\ Prefix = Lane /\ Chained
    /\ manifests[1].baseline = report.first /\ ChainEnd = report.final
    /\ work = "clean"
    /\ lane' = Lanes + 1
    /\ baseline' = report.final
    /\ workspace' = "displaced"
    /\ lanePc' = "restoring"
    /\ UNCHANGED <<verdict, entry, head, commits, tainted, orphaned, work, ignored, meta,
                   laneFiles>>

\* Gate results carry their times and are part of the inputs.
RefuseInputs ==
    /\ lanePc = "entering"
    /\ \/ report.there /\ ~report.failed /\ report.inputs # entry.inputs
       \/ ~report.there /\ Contiguous /\ ~SameInputs
    /\ Raise("inputs_changed")

RefuseResume ==
    /\ lanePc = "entering"
    /\ \/ report.failed
       \/ ~report.there /\ ~Contiguous
       \/ /\ ~report.there /\ Prefix # {} /\ SameInputs
          /\ head \notin Boundaries \/ work # "clean"
       \/ report.there /\ report.inputs = entry.inputs /\ work # "clean"
    /\ Raise("raised")

FinishRestore ==
    /\ lanePc = "restoring"
    /\ workspace' = "present"
    /\ head' = baseline /\ work' = "clean"
    /\ lanePc' = IF report.there THEN "done" ELSE IF lane > Lanes THEN "report" ELSE "lane"
    /\ UNCHANGED <<laneLocal, commits, tainted, orphaned, ignored, meta, laneFiles>>

\* _restore_checkpoint and _rollback_lane look again at what they have put in
\* place: something edited it meanwhile.
RefuseRestore ==
    /\ lanePc \in {"restoring", "reinstall"}
    /\ workspace' = "present"
    /\ head' = baseline /\ work' = "stray"
    /\ lanePc' = "raised"
    /\ UNCHANGED <<laneLocal, commits, tainted, orphaned, ignored, meta, laneFiles>>
-----------------------------------------------------------------------------
\* _require_clean_lane_start, and the command: it may edit inside or outside the
\* scope, commit, touch ignored files or the Git metadata, and fail.
StartLane ==
    /\ lanePc = "lane" /\ lane <= Lanes
    /\ IF work = "clean" /\ IgnoredAsFound
       THEN baseline' = head /\ lanePc' = "returned"
       ELSE UNCHANGED baseline /\ lanePc' = "raised"
    /\ UNCHANGED <<lane, verdict, entry, laneTree, laneFiles>>

LaneEdits ==
    /\ lanePc = "returned"
    /\ work = "clean" /\ meta /\ ignored /\ head = baseline
    /\ \/ work' \in {"inside", "outside"}
          /\ UNCHANGED <<head, commits, tainted, ignored, meta>>
       \/ /\ CommitWork(TRUE)
          /\ meta' = FALSE
          /\ UNCHANGED ignored
       \/ meta' = FALSE /\ UNCHANGED <<head, commits, tainted, work, ignored>>
       \/ ignored' = FALSE /\ UNCHANGED <<head, commits, tainted, work, meta>>
    /\ UNCHANGED <<lanePc, laneLocal, orphaned, workspace, laneFiles>>

\* _restore_and_reject_git_metadata_changes: a changed .git is put back, with
\* HEAD, and the lane is undone.
CheckMetadata ==
    /\ lanePc = "returned"
    /\ meta' = TRUE
    /\ head' = IF meta THEN head ELSE baseline
    /\ \/ meta /\ lanePc' = "checked" /\ UNCHANGED verdict
       \/ lanePc' = "undo" /\ verdict' = [verdict EXCEPT ![lane] = "error"]
    /\ UNCHANGED <<lane, baseline, entry, commits, tainted, orphaned, work, workspace, ignored,
                   laneFiles>>

\* Exit status and scope of the changed paths; the ignored files are as before.

\* Mutant: the scope of the edits is not looked at.
CheckLane_AnyScope ==
    /\ lanePc = "checked"
    /\ \/ lanePc' = "undo" /\ verdict' = [verdict EXCEPT ![lane] = "failed"]
       \/ lanePc' = "approved" /\ UNCHANGED verdict
    /\ UNCHANGED <<lane, baseline, entry, laneTree, laneFiles>>
CheckLane ==
    /\ lanePc = "checked"
    /\ \/ lanePc' = "undo" /\ verdict' = [verdict EXCEPT ![lane] = "failed"]
       \/ work # "outside" /\ IgnoredAsFound /\ lanePc' = "approved" /\ UNCHANGED verdict
       \/ work # "outside" /\ ~IgnoredAsFound
          /\ lanePc' = "undo" /\ verdict' = [verdict EXCEPT ![lane] = "error"]
    /\ UNCHANGED <<lane, baseline, entry, laneTree, laneFiles>>

\* A process that a command, of this lane or of one before, left behind edits at
\* any step up to the hand-back: among what the scope check will read, or after it.
Straggler ==
    /\ \/ /\ lanePc = "checked" /\ work \in {"clean", "inside"}
          /\ work' \in {"inside", "outside"} \ {work}
       \/ lanePc = "approved" /\ work = "inside" /\ work' = "late"
       \/ /\ \/ lanePc \in {"approved", "committed"}
             \/ lanePc \in {"entering", "lane", "report"} /\ (lane > 1 \/ entry.number > 1)
          /\ work = "clean"
          /\ work' = "stray"
    /\ UNCHANGED <<lanePc, laneLocal, head, commits, tainted, orphaned, workspace, ignored, meta,
                   laneFiles>>

\* Where there was nothing to approve, nothing is committed.  Else the commit
\* holds the tree that was approved, or the lane is undone.
CheckpointLane ==
    /\ lanePc = "approved"
    /\ \/ work \in {"clean", "stray"} /\ lanePc' = "committed"
          /\ UNCHANGED <<verdict, head, commits, tainted, work>>
       \/ work \in {"inside", "outside"} /\ CommitWork(work = "outside")
          /\ lanePc' = "committed" /\ UNCHANGED verdict
       \/ work = "late" /\ CommitWork(TRUE)
          /\ lanePc' = "undo" /\ verdict' = [verdict EXCEPT ![lane] = "error"]
    /\ UNCHANGED <<lane, baseline, entry, orphaned, workspace, ignored, meta, laneFiles>>

WriteManifest ==
    /\ lanePc = "committed"
    /\ manifests' = [manifests EXCEPT ![lane] =
            [baseline |-> baseline, checkpoint |-> head, inputs |-> entry.inputs, there |-> TRUE]]
    /\ verdict' = [verdict EXCEPT ![lane] = "ok"]
    /\ lane' = lane + 1
    /\ lanePc' = IF lane = Lanes THEN "report" ELSE "lane"
    /\ UNCHANGED <<baseline, entry, laneTree, report>>

\* _rollback_lane: the baseline is built beside the workspace, which is renamed
\* away and replaced.  Changed ignored files cannot be preserved: it gives up.
UndoLane ==
    /\ lanePc = "undo"
    /\ IF IgnoredAsFound
       THEN workspace' = "displaced" /\ lanePc' = "reinstall"
       ELSE UNCHANGED workspace /\ lanePc' = "raised"
    /\ UNCHANGED <<laneLocal, head, commits, tainted, orphaned, work, ignored, meta, laneFiles>>

\* A failed lane is recorded and the next one runs; any other error ends them.
Reinstall ==
    /\ lanePc = "reinstall"
    /\ workspace' = "present"
    /\ head' = baseline /\ work' = "clean"
    /\ IF verdict[lane] = "failed"
       THEN lane' = lane + 1 /\ lanePc' = IF lane = Lanes THEN "report" ELSE "lane"
       ELSE UNCHANGED lane /\ lanePc' = "raised"
    /\ UNCHANGED <<baseline, verdict, entry, commits, tainted, orphaned, ignored, meta, laneFiles>>

WriteLaneReport ==
    /\ lanePc = "report"
    /\ report' = [failed |-> \E l \in Lane : verdict[l] = "failed",
                  first |-> IF manifests[1].there THEN manifests[1].baseline ELSE 0,
                  final |-> head, inputs |-> entry.inputs, there |-> TRUE]
    /\ lanePc' = IF report'.failed THEN "raised" ELSE "done"
    /\ UNCHANGED <<laneLocal, laneTree, manifests>>
-----------------------------------------------------------------------------
KillLane ==
    /\ lanePc \notin {"off", "done", "raised", "inputs_changed"}
    /\ lanePc' = "off"
    /\ orphaned' = (orphaned \/ head \in tainted)
    /\ UNCHANGED <<laneLocal, head, commits, tainted, work, workspace, ignored, meta, laneFiles>>

\* A continuation: load_existing drops uncommitted and ignored state, and keeps
\* whatever HEAD it finds.  A displaced workspace it cannot load.
ContinueLanes ==
    /\ lanePc \in {"off", "done", "raised", "inputs_changed"}
    /\ entry.number < MaxEntries
    /\ workspace = "present"
    /\ \E inputs \in {entry.inputs, entry.number + 1} :
          entry' = [number |-> entry.number + 1, inputs |-> inputs]
    /\ lanePc' = "entering"
    /\ lane' = 1 /\ baseline' = head
    /\ verdict' = [l \in Lane |-> "none"]
    /\ work' = "clean" /\ ignored' = TRUE /\ meta' = TRUE
    /\ UNCHANGED <<head, commits, tainted, orphaned, workspace, laneFiles>>

LaneNext ==
    \/ EnterFresh \/ ResumeChain \/ ResumeReport \/ RefuseInputs \/ RefuseResume \/ FinishRestore
    \/ RefuseRestore \/ StartLane \/ LaneEdits \/ CheckMetadata \/ CheckLane \/ Straggler \/ CheckpointLane
    \/ WriteManifest \/ UndoLane \/ Reinstall \/ WriteLaneReport \/ KillLane \/ ContinueLanes

LaneSpec == LaneInit /\ [][LaneNext]_laneVars
-----------------------------------------------------------------------------
\* docs/REVIEW_REPAIR_LANES.md: edits outside the locked scope block the run.
\* The commit the lanes hand back, and every checkpoint a continuation may
\* restore, holds approved edits only, whoever was interrupted or left running
\* where; the one exception is a controller killed before it had judged a commit
\* that is already at HEAD.  Edits a command's own leavings made after the scope
\* check lie beside that commit at most.
OnlyApprovedEdits ==
    ~orphaned =>
        /\ lanePc = "done" =>
              head \notin tainted /\ work \in {"clean", "stray"} /\ workspace = "present"
        /\ \A l \in Lane : manifests[l].there => manifests[l].checkpoint \notin tainted

\* The same without the exception.
HandedBackApproved == lanePc = "done" => head \notin tainted

\* No edit is handed back uncommitted: the last lane is not followed by the look
\* at the workspace that every other one is (_require_clean_lane_start).
HandedBackClean == lanePc = "done" => work = "clean"

\* docs/PRODUCT_PROOF.md: "Continuation-safe command-owned AUTOREVIEW and
\* Clawpatch checkpoints without duplicate execution": no continuation refuses
\* checkpoints of its own run.
CheckpointsResume == lanePc # "inputs_changed"
=============================================================================
