---------------------------- MODULE ReleaseReady ----------------------------
(***************************************************************************)
(* The release-ready command (release_ready.py as release_ready_policy.py  *)
(* wraps it).  It locks the branch it found checked out with a prepared    *)
(* git reference transaction, looks for the proof of the latest completed  *)
(* run, runs the verification gates on a clone of HEAD, checks the head,   *)
(* the digest of the working tree and git status, writes the handoff,      *)
(* packs the held commit with git archive, rewrites the handoff to name    *)
(* the archive, and checks head, digest and status once more.  The user    *)
(* goes on working meanwhile.                                              *)
(*                                                                         *)
(* A tree is one of Trees, a commit a parent and a tree; the final patch   *)
(* of a run is the pair of trees it leads from and to, which is what its   *)
(* digest stands for.                                                      *)
(***************************************************************************)
EXTENDS Naturals, Sequences

CONSTANTS
    Trees, BaseTree,    \* contents of a working tree; that of the first commit
    Branches, NoBranch,
    MaxCommits,         \* bound: commits ever made
    UserActs            \* of "edit", "commit", "undo", "switch", "race", "run", "kill"

ASSUME ReleaseAssumption ==
    BaseTree \in Trees /\ NoBranch \notin Branches /\ MaxCommits \in Nat

VARIABLES
    history,    \* the commits made: [parent, tree]
    tips,       \* [Branches -> commit]
    branch,     \* the branch HEAD names
    worktree,   \* the tree in the working directory
    latest,     \* the latest delivery/final-result.json
    archives,   \* commits packed in cache/release-artifacts
    handoff,    \* cache/production-handoff.md: [status, archive]
    check       \* the release-ready process

repoVars    == <<history, tips, branch, worktree, latest>>
releaseVars == <<repoVars, archives, handoff, check>>

Commits == 0 .. Len(history)
HEAD    == tips[branch]
Tree(c) == history[c].tree

\* A report: the run it found, the commit its gates passed on, its verdict.
NoRun  == [base |-> 0, head |-> 0, tree |-> BaseTree]
Report == [gated : Commits, run : [base : Commits, head : Commits, tree : Trees],
           ok : BOOLEAN]
NoReport == [gated |-> 0, run |-> NoRun, ok |-> TRUE]

Steps == {"idle", "ref", "lock", "start", "proof", "digest", "gates", "head",
          "source", "clean", "write", "rewritten", "pack", "rewrite", "before",
          "final", "status", "after", "settle", "answered"}

ReleaseTypeOK ==
    /\ history \in Seq([parent : Nat, tree : Trees])
    /\ tips \in [Branches -> Commits \ {0}] /\ branch \in Branches
    /\ worktree \in Trees
    /\ latest \in [base : Commits, tree : Trees, complete : BOOLEAN]
    /\ archives \subseteq Commits
    /\ handoff \in [status : {"none", "READY", "NOT READY"}, archive : Commits]
    /\ check \in [pc : Steps, release : Commits, ref : Branches \cup {NoBranch},
                  holds : SUBSET (Branches \cup {"HEAD"}), initial : Commits,
                  report : Report]

Idle == [pc |-> "idle", release |-> 0, ref |-> NoBranch, holds |-> {},
         initial |-> 0, report |-> NoReport]

\* A delivered run, its patch in the working tree and not committed yet.
ReleaseInit ==
    /\ history = <<[parent |-> 0, tree |-> BaseTree]>>
    /\ tips = [b \in Branches |-> 1] /\ branch \in Branches
    /\ latest \in [base : {1}, tree : Trees, complete : {TRUE}]
    /\ worktree = latest.tree
    /\ archives = {} /\ handoff = [status |-> "none", archive |-> 0]
    /\ check = Idle

-----------------------------------------------------------------------------
\* The user; a lock of the reference transaction stops what moves its ref.

Free(refs) == refs \cap check.holds = {}

Edit(t) ==
    /\ "edit" \in UserActs
    /\ worktree' = t
    /\ UNCHANGED <<history, tips, branch, latest>>

Commit ==
    /\ "commit" \in UserActs /\ Free({branch, "HEAD"})
    /\ Len(history) < MaxCommits
    /\ history' = Append(history, [parent |-> HEAD, tree |-> worktree])
    /\ tips' = [tips EXCEPT ![branch] = Len(history')]
    /\ UNCHANGED <<branch, worktree, latest>>

\* git reset --soft to the parent
Undo ==
    /\ "undo" \in UserActs /\ Free({branch, "HEAD"})
    /\ history[HEAD].parent # 0
    /\ tips' = [tips EXCEPT ![branch] = history[HEAD].parent]
    /\ UNCHANGED <<history, branch, worktree, latest>>

\* "race": also between the calls that read the head and lock it.
Switch(b) ==
    /\ "switch" \in UserActs /\ Free({"HEAD"})
    /\ "race" \in UserActs \/ check.pc \notin {"ref", "lock"}
    /\ worktree = Tree(HEAD)
    /\ branch' = b /\ worktree' = Tree(tips[b])
    /\ UNCHANGED <<history, tips, latest>>

\* Another run ends, and a complete one is applied to the working tree.
RunEnds(t, complete) ==
    /\ "run" \in UserActs
    /\ latest' = [base |-> HEAD, tree |-> t, complete |-> complete]
    /\ worktree' = IF complete THEN t ELSE worktree
    /\ UNCHANGED <<history, tips, branch>>

UserStep ==
    /\ \/ \E t \in Trees : Edit(t) \/ \E c \in BOOLEAN : RunEnds(t, c)
       \/ Commit
       \/ Undo
       \/ \E b \in Branches : Switch(b)
    /\ UNCHANGED <<archives, handoff, check>>

-----------------------------------------------------------------------------
\* Holding the head

At(pc)   == check.pc = pc
Enter(pc) == check' = [check EXCEPT !.pc = pc]
\* One item of the report: whatever fails makes the verdict not ready.
Item(pc, holds) == check' = [check EXCEPT !.pc = pc, !.report.ok = @ /\ holds]
Local == UNCHANGED <<repoVars, archives, handoff>>

\* The head and the branch it names are two calls of git.
ReadHead ==
    /\ check.pc \in {"idle", "answered"}
    /\ check' = [Idle EXCEPT !.pc = "ref", !.release = HEAD]
    /\ Local

ReadRef ==
    /\ At("ref")
    /\ check' = [check EXCEPT !.pc = "lock", !.ref = branch]
    /\ Local

\* Mutant: the transaction is not prepared.
HoldHead_NoLock ==
    /\ At("lock")
    /\ check' = [check EXCEPT !.pc = "start"]
    /\ Local

\* update REF head head; prepare: refused when the ref has moved.  The lock
\* covers HEAD as well when HEAD names that branch.
HoldHead ==
    /\ At("lock")
    /\ check' = IF tips[check.ref] = check.release
                THEN [check EXCEPT !.pc = "start",
                        !.holds = {check.ref} \cup IF branch = check.ref THEN {"HEAD"} ELSE {}]
                ELSE Idle
    /\ Local

-----------------------------------------------------------------------------
\* The report

\* Readiness, configuration, target, rollback and approval: one outcome.
Start(rest) ==
    /\ At("start")
    /\ check' = [check EXCEPT !.pc = "proof", !.initial = HEAD, !.report.ok = rest]
    /\ Local

\* The one commit from the run's head to this one makes the final patch.
CommitsPatch(run, head) ==
    /\ history[head].parent = run.base
    /\ <<Tree(run.base), Tree(head)>> = <<Tree(run.base), run.tree>>

ProvenHead(run, head) ==
    run.complete /\ (head = run.base \/ CommitsPatch(run, head))

LatestProof ==
    /\ At("proof")
    /\ check' = [check EXCEPT !.pc = "digest",
                   !.report.run = [base |-> latest.base, head |-> HEAD, tree |-> latest.tree],
                   !.report.ok = @ /\ ProvenHead(latest, HEAD)]
    /\ Local

DigestMatches == worktree = check.report.run.tree
GitClean == worktree = Tree(HEAD)

ProofDigest == At("digest") /\ Item("gates", DigestMatches) /\ Local

\* The gates run in a disposable clone of the first head, and one that
\* changes the clone, ignored files included, fails the item.
GateCheckout == check.initial
CheckoutUnchanged(outcome) == outcome # "mutated"

RunGates(outcome) ==
    /\ At("gates")
    /\ LET passed == outcome = "passed" /\ CheckoutUnchanged(outcome)
       IN  check' = [check EXCEPT !.pc = "head", !.report.ok = @ /\ passed,
                       !.report.gated = IF passed THEN GateCheckout ELSE 0]
    /\ Local

SameHead ==
    /\ At("head")
    /\ Item("source", HEAD = check.initial /\ HEAD = check.report.run.head)
    /\ Local

SourceDigest == At("source") /\ Item("clean", DigestMatches) /\ Local
CleanTree    == At("clean") /\ Item("write", GitClean) /\ Local

Verdict == IF check.report.ok THEN "READY" ELSE "NOT READY"

\* The handoff of release_ready itself names no archive.
WriteHandoff ==
    /\ At("write")
    /\ handoff' = [status |-> Verdict, archive |-> 0]
    /\ Enter("rewritten")
    /\ UNCHANGED <<repoVars, archives>>

CleanAfterWrite == At("rewritten") /\ Item("pack", GitClean) /\ Local

-----------------------------------------------------------------------------
\* The archive, and the handoff that names it

\* git archive of the held commit; when it fails the command raises.
BuildArtifact(built) ==
    /\ At("pack")
    /\ IF ~check.report.ok THEN Enter("rewrite") /\ UNCHANGED archives
       ELSE IF built THEN Enter("rewrite") /\ archives' = archives \cup {check.release}
       ELSE check' = Idle /\ UNCHANGED archives
    /\ UNCHANGED <<repoVars, handoff>>

FinalHandoff == [status |-> Verdict, archive |-> IF check.report.ok THEN check.release ELSE 0]

RewriteHandoff ==
    /\ At("rewrite")
    /\ handoff' = FinalHandoff
    /\ Enter(IF check.report.ok THEN "before" ELSE "settle")
    /\ UNCHANGED <<repoVars, archives>>

HeadBefore  == At("before") /\ Item("final", HEAD = check.release) /\ Local
FinalDigest == At("final") /\ Item("status", DigestMatches) /\ Local
FinalStatus == At("status") /\ Item("after", GitClean) /\ Local
HeadAfter   == At("after") /\ Item("settle", HEAD = check.release) /\ Local

\* A failed last check rewrites the handoff; leaving releases the head.
Settle ==
    /\ At("settle")
    /\ handoff' = FinalHandoff
    /\ check' = [check EXCEPT !.pc = "answered", !.holds = {}]
    /\ UNCHANGED <<repoVars, archives>>

\* git drops the prepared transaction with the process that feeds it.
Killed ==
    /\ "kill" \in UserActs
    /\ check.pc \notin {"idle", "answered"}
    /\ check' = Idle
    /\ Local

CheckStep ==
    \/ ReadHead \/ ReadRef \/ HoldHead
    \/ \E rest \in BOOLEAN : Start(rest)
    \/ LatestProof \/ ProofDigest
    \/ \E outcome \in {"passed", "failed", "mutated"} : RunGates(outcome)
    \/ SameHead \/ SourceDigest \/ CleanTree \/ WriteHandoff \/ CleanAfterWrite
    \/ \E built \in BOOLEAN : BuildArtifact(built)
    \/ RewriteHandoff \/ HeadBefore \/ FinalDigest \/ FinalStatus \/ HeadAfter
    \/ Settle \/ Killed

ReleaseNext == UserStep \/ CheckStep

ReleaseSpec == ReleaseInit /\ [][ReleaseNext]_releaseVars

-----------------------------------------------------------------------------
ReadyAnswer == At("answered") /\ check.report.ok

\* What release-ready clears for shipping is one commit: the archive it names
\* packs the commit the gates passed on, the commit the run's proof was
\* checked against, and that is the head the command held, whatever the user
\* committed, undid, switched or edited between any two of those reads
\* (_hold_release_head; docs/ENFORCEMENT_MATRIX.md:101).  Not so with "race".
OneReleasedCommit ==
    ReadyAnswer =>
        /\ handoff = [status |-> "READY", archive |-> check.report.gated]
        /\ check.report.gated = check.report.run.head
        /\ check.report.gated \in archives

\* Not so: a READY handoff names the archive of the released commit
\* (docs/ENFORCEMENT_MATRIX.md:102).
ReadyNamesArchive == handoff.status = "READY" => handoff.archive \in archives

\* Not so: the archive cleared for shipping holds the tree the run verified
\* (docs/ENFORCEMENT_MATRIX.md:101, final HEAD, digest and cleanliness snapshot).
ReadyShipsVerified == ReadyAnswer => Tree(handoff.archive) = check.report.run.tree
=============================================================================
