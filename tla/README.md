# Verification of Manageroo

Manageroo turns a request into a verified patch: a controller plans, hands bounded tasks to disposable coding
workers in a private checkout, tests and reviews the result, and only then applies one patch to the operator's
repository. Workers, reviewers and the controller's own process are expected to fail; everything that must survive
is a file under `.manageroo/runs/<run>/`, and `manageroo run --continue <run>` starts a new process over those files.
Around the controller stand the commands that install it, keep its stack and skills up to date, hold a host's coding
session to the request it was given, and publish what was made.

This directory holds TLA+ models of the parts where that is hard to get right, TLC configurations that check them on
small instances, and TLAPS proofs, for every value of the constants, about everything from the two stores the rest
stands on to the release that leaves the house; only liveness is model-checked alone. Paths below are relative to
`src/src/manageroo/` unless they begin with `scripts/`.

## The system

| Part | State it keeps | Operations | Talks to |
|---|---|---|---|
| Job store (`jobs.py`) | `jobs/<job>.json`, `worker-attempts/<job>/<nnn>.json`, the artifact a job accepted | create or load, begin attempt, record packet, complete/fail attempt, complete/fail/block job, read completed data | called by worker calls; reads artifacts |
| Worker call (`Orchestrator._call`) | the loop's locals: attempt, limit, error | route skills, reuse, try, retry, give up | job store, artifact store, adapters, capability router |
| Adapters (`adapters/`) | budget ledger, pending-validation marker, last good worker | reserve a launch, run one worker transactionally, fail over, roll back | worker subprocess, workspace |
| Capability router (`capability_router.py`) | index of skill trees, host policy | scan, route, check freshness before a launch | skill directories of the host |
| Artifact store (`artifacts.py`) | `artifacts/`, `artifact-ledger.json`, the transaction directory, the advisory lock file and the owner directory | open, write (and lock), verify; recover inside each | used by `run`, `_call`, other threads and processes |
| Workspace (`workspace.py`) | `source-snapshot.json`, the checkout, `workspace-checkpoint.patch`, `final.patch`, `workspace-lifecycle.json` | create, load, rebuild, checkpoint, write patch, clean up; apply to and roll back from the source | Git, the operator's repository |
| Run (`orchestrator.py`, `state.py`) | `state.json`, locked artifacts, `delivery-transaction.json`, `final-result.json` | recover, plan, implement, gate, run lanes, review, repair, demonstrate, deliver, record failure | all of the above |
| Product decisions (`discovery_policy.py`, `entrypoint.py`) | `blocking-decisions.json`, resolved and claimed submissions, the product model | ask, show, answer, claim, apply, restore, finish | run; the operator's sessions |
| Repair lanes (`external_repair_policy.py`) | manifests, checkpoints, the lanes' report | start, judge, checkpoint, roll back, resume | AUTOREVIEW and Clawpatch commands, workspace |
| Gates and services (`gates.py`, `validation_services.py`) | disposable checkouts, environments, containers | run each gate on a copy, provide services around a body | command runner, Docker |
| Proof binding, managed contract (`release_proof_policy.py`, `managed_completion_policy.py`, `run_retention.py`) | proof fields of `final-result.json`, lifecycle record, completion receipt | recover first, bind, check again, roll back, close, retain | wrap `run` |
| Read-only runs (`read_only_run_policy.py`) | an audit's snapshot, review, three proofs and result | isolate, diagnose, audit, prove, report | workspace, retention |
| Continuity (`agent_continuity.py`, `managed_hook_policy.py`, ...) | the session's state and objective | capture a prompt, rebind, launch, stop, receive a receipt | the host's hooks, managed runs |
| Project files (`config.py`, `learning.py`, `project_memory.py`, `intent_lock.py`; lock of `config_lock.py`) | `config.toml`, `PROJECT-MEMORY.md`, cards, the intent lock and its rendering, lock files | init, presets, gates, integrations, notes, cards, capture, read | the user |
| Installation (`scripts/install.py`, `install_*.py`, `uninstall.py`) | application, proof assets, launcher, hooks, marker, lock | install, update, repair, uninstall | source folder, Codex hooks |
| Stack update (`stack_update.py`) | gate, runtime lock, migration marker, AUTOREVIEW directory, packages | plan, gate, scan, update, swap, roll back | supervisor queues, package managers |
| Installed skills (`token_modes.py`, `skill_pack.py`) | skill trees, ownership ledger, token mode | install a pack, remove owned skills, import | hosts' skill directories |
| Release (`release_ready.py`, `scripts/package_release.py`) | handoff, archives, the drop and what it set aside | check, hold the head, pack, publish, reconcile | Git, the user |

The package replaces `Orchestrator.run` at import: from the outside in, a call passes the managed contract, the proof
binding, the read-only and discovery policies and then `run` itself. What `run` returns or raises is interpreted by
every layer, which is where the protocol of delivery gets its difficulty.

What makes the system hard, and what each part has to guarantee:

* **Several controllers over one run folder.** Nothing stops a second terminal, or a continuation while the old
  process lives. The job lock makes single operations exclusive, but an operation writes two files and a worker call is
  many operations. *One worker at a time; a worker keeps its attempt; a job completes with the result its attempt
  completed with; a decision has one answer.* (The budget of launches is kept by one controller after another, not by
  two at once, see below.)
* **A process may stop between any two file writes** (kill, Ctrl-C, full disk), and the next process continues from
  what is there. *A patch in the source always has a record; delivery is all or nothing; a task counts as done only if
  its edits come back; an installation is what its lock says; the last release is still somewhere.*
* **The operator keeps working.** The source, the skills, the configuration and the branch may change between any
  check and the action it guards. *No edit of the operator is lost; what a worker is told, what a release clears and
  what a receipt certifies is what was looked at.*
* **Other people's programs run in the checkout**: workers, gates, repair lanes, services. *What they were not allowed
  to do is undone before anybody builds on it, their verdict is about the tree there is, and a service that stays
  behind is an error.*
* **Locks made of files**, which dead processes leave behind and users delete. *One transaction at a time; an
  interrupted write is taken back by whoever comes next; nothing left behind keeps the living out.*
* **Unlimited retries** with a limit counted in files that others also write. *A limit is kept, and a call ends.*

## Modules

| Module | Models | State and actions in the code |
|---|---|---|
| `JobStore` | one job's records | `job`, `attempts`, `reserved`, `artifact` are the files, `lock` is the lock file. Each operation of `jobs.py` is an action of its name that takes the lock and decides; `WriteAttempt` and `WriteJob` are its saves; `WriteFails` and `Crash` cut it short, with `begin_attempt`'s withdrawal |
| `WorkerCall` (extends `JobStore`) | `_call` | `call[p].pc` walks through `_call`; each action performs one JobStore operation or is refused by it. `Die` is a killed or interrupted controller, `StartCall` a new call or continuation |
| `Delivery` | delivery, recovery, proof, closeout | one `pc` walks from the managed contract's recovery through the end of `run`, its handler, `run_with_bound_proof` and `close_terminal`; each file write and each Git command is a step. A file of the source holds the snapshot's or the patch's text, possibly with an operator's edit outside the hunks, or something else |
| `AtomicDelivery` | what delivery promises | nothing of the patch, then, in the step that certifies the run, all of it |
| `TaskRun` | the checkout and the task loop | an edit is named by its task, the checkout is its last commit (`head`) and its working tree (`tree`); actions follow the loop of `run`, the adapter's marker, and the methods of `WorkspaceMirror` |
| `ArtifactStore` | every operation of `artifacts.py` by several processes | `flock` and `lockDir` are the two locks, `tx` the transaction directory with its three files; `pc` walks from the call through the lock, the reclaiming of what a dead process left, the recovery and the operation to the release. `Interrupt`, `Kill` and every step that may raise cut it short |
| `AtomicArtifacts` | what the artifact store promises | an artifact and its record change in one step of the call that asked for it |
| `Decisions` | one product decision | the files under `planning/` through which sessions and controllers pass the answer, the two locks they take; each rename and write of claim, apply, restore and finish is a step |
| `RunPhases` | the control flow of `run` | `step` is the place in `run`, `phase` the phase table's state; plans and trees are numbered, and the controller remembers which of them was gated, reviewed, demonstrated |
| `ExternalRepair` | the repair lanes | `head`, `work`, `ignored`, `meta` are the checkout as the checks see it, `manifests` the checkpoints; every check, restore and write of `run_external_review_repair_lanes` is a step |
| `Workers` | budget, pool, transactional adapter | calls of parallel threads of several controllers (`Runners`); the ledger on disk and the copy of it each controller keeps (`authority`, the bytes of `_authoritative_state_bytes`), the repository lock, each attempt from its pristine check to its rollback or marker. A call's `left` is the positions in the configured list it has still to try |
| `Validation` | gate runner and services | a run of gates with the copies they saw and their verdicts; the services with what is provisioned and what is still to be removed |
| `Capability` | skill routing | `disk` is the skill directories, `index` the cache with its signature; a call scans, routes, prompts, checks, scans and routes again, checks, launches; a route uses the catalog its load returned, but asks the shared index whether the policy could be read. What a route chooses is a set: `IsChoice` says which sets the ranking, the limits and the conflicts leave, and `Rank` is the order of the router |
| `Installer` | install, update, repair, uninstall | `prefix` is what each prefix holds, `op` the operation under way; each replacement of a file or tree is a step |
| `StackUpdate` | `stack-update` | queues and updaters around the runtime lock; `orphans` counts the pip processes a killed update leaves behind, without its lock; the AUTOREVIEW swap with its rollback storage; package updates |
| `SkillPack` | packs, removal, import | `tree` per skill, the ledger, and the transaction with what it moved, wrote and must put back |
| `ProjectFiles` | commands over project files | `lockFile` is the lock file's inode; commands open it, wait, look again, read, write and leave; the intent pair is staged and placed file by file |
| `Continuity` | a session and its runs | `session` is the state file and `requests` the request's file and metadata of each generation; `capture` is the prompt hook between two writes, with the lock; `hooks` is how far the tool and stop hooks are and the copies they hold, read, checked and partly rewritten without the lock; `runs` the managed runs and their receipts |
| `ReadOnly` | read-only runs and retention | `audit` is each run's directory, `auditor` its controller, `ages` the directories by age; retention picks other runs by their place in that order (`victims`) and removes them one after the other, on the status it read |
| `ReleaseReady` | `release-ready` | `check` walks through the command; the user's commits, branches, edits and runs go on meanwhile |
| `Publication` | `package_release.py` | `drop` and `oldDrop` with their archives and the names they were set aside by; each rename is a step, and one that fails is undone by the handlers, except that the handler's own rename of the drop (`scripts/package_release.py:430`) does not fail: see *Not modelled* |
| `JobStoreProofs`, `ArtifactStoreProofs` | proofs about the two stores, with the refinement of `AtomicArtifacts` | |
| `WorkerCallProofs` (extends `JobStoreProofs`), `DeliveryProofs`, `TaskRunProofs` | proofs about the call, delivery with its refinement, and the task loop | |
| `ControllerProofs` | proofs about the five parts of `MCController`, about all of them together, and about `Capability` | |
| `ReportsProofs`, `HostProofs` | proofs about the four parts of `MCReports` and of `MCHost`, and about all of them together | |
| `MC*` | instances for TLC | |

`WorkerCall` composes with `JobStore` by extending it: a step of the call is a conjunction of a store operation and a
move of the caller, so every property of the store is checked again under its real client. `TaskRun` uses a worker job
as `WorkerCall` leaves it (none, running, complete). `Delivery` begins where `TaskRun` ends; its step `Work` stands
for everything before the conformance record, which `RunPhases` walks through, with one step where `TaskRun`,
`Decisions`, `ExternalRepair` and `Delivery` have their own modules. `Workers` is what `WorkerCall`'s launch does.

`MCController`, `MCHost`, `MCReports` and `MCTaskRun` (with `Capability`) check several components in one run. These components do not touch each
other's files, so nothing is learned from interleaving them: a variable `part`, chosen in the initial state, says
which of them moves, and `VIEW` leaves the others out of a state's identity. Each run therefore explores the disjoint
union of its components' state spaces, each of them complete. Symmetric sets are permuted as usual; in `MCHost` the
permutations of a set of one component are paired with those of another one's (`Paired`), which is sound because only
one of the two ever leaves its initial state, and initial states are symmetric.

Abstractions that matter: an atomic file replacement (`util.atomic_write_json`: temporary file, `os.replace`) is one
step. File contents are compared, never built. Digests are the thing they hash, so no two different contents have the
same digest; the two formats of the workspace digest are kept apart, since the code compares one with the other.
A worker returns any result or raises any of the four error classes `_call` tells apart. A gate, a lane or a service
has any outcome. A file-system guard (descriptor, identity, symbolic link, ownership) that refuses is a step that
raises. A crash is that of a process: what a power loss does to files not yet synchronised is not modelled. Waiting
times are left open: whether a wait ends or times out is a choice.

In `ArtifactStore` the two advisory locks of a call (the thread lock and the lock on the file) are one: they are taken
and dropped together. Which of the two time limits (2 s for an owner file to appear, 30 s for a live owner) comes
first is left open. A dead process's pid is always judged dead; a reused pid is not modelled. Edits of an artifact
from outside happen while no transaction is under way.

In `RunPhases` a worker may answer a call of a continuation differently from the first time. In the code, a call with
the same inputs is answered by the completed job of the earlier controller; only changed inputs (gates, external
intelligence) ask a worker again. The model allows more than the code, which is on the safe side for what holds.

## Runs

| Run | Question | Bounds |
|---|---|---|
| `job_store` | do the records ever contradict each other? | 2 processes, 2 specifications, 2 results, 3 attempts; crashes, failing writes and artifact changes unlimited |
| `worker_call` | do two controllers ever work on one job at once, or answer something no worker said? | 2 controllers, 2 results, 2 attempts, no attempt limit; crashes, failing writes, a changing artifact |
| `worker_call_limit` | is the attempt limit kept, and does a call end? | 2 controllers, limit 2, 4 attempts; no crashes or failing writes |
| `delivery` | is the source ever left patched unaccounted for, an edit lost, or COMPLETE unproven? | 3 files, 2 of them patched, 3 faults of 6 kinds, 2 operator edits or commits |
| `delivery_atomic` | is delivery all or nothing, and are transactions resolved? | the same files, 4 faults, no operator edits |
| `task_run` | does the final patch hold exactly the verified edits of all tasks, and does a worker start with skills as they are, and as the host allows them? | 3 tasks, 4 faults of 7 kinds; for `Capability` see below |
| `artifact_store` | is the store one atomic map of artifacts and records, whoever fails and wherever? | 2 processes, 2 paths, 2 contents, 2 faults of 3 kinds, 1 edit from outside; symmetric in all three sets |
| `controller` | do decisions, phases, lanes, workers and gates keep what they answer for? | see below |
| `host` | do commands that replace the user's files keep theirs and the user's? | see below |
| `reports` | can a receipt, an audit, a clearance and a release be relied on? | see below |
| `delivery_continue`, `decision_open` | disagreements, see below | the fewest faults that show them |

Why the bounds are enough. The job lock admits one process at a time and all processes run the same code, so a third
process adds no new kind of pair. Three attempts are one finished, one running and one that a late process still
remembers. In `delivery`, two patched files tell a partly applied patch from a whole one and the third file lets the
operator edit something the patch does not touch; three faults are one in a delivery, one in its recovery and one in
the recovery of that. In `task_run`, three tasks are one done, one in progress and one to come, and four faults stop
the run, the cleanup, the continuation and its cleanup. In `artifact_store`, two faults are one in a write or a lock
and one in whoever recovers or reclaims after it; a second path is one that the transaction must leave alone. The
proofs remove the bounds of the safety properties altogether, in every run.

In the runs over several components the bounds are (for `TaskRun` see above):

* `Decisions`: 2 controllers, 2 sessions, 2 choices, 2 faults: two contradicting answers, the controller that applies
  one and the one that finds its claim, with a fault in each of them.
* `RunPhases`: 2 tasks, 3 plans, 4 trees, 3 openings, 2 plan reviews and 1 repair, kills anywhere: each loop is taken
  and exhausted, and what is replayed after a stop may differ from what came before, twice.
* `ExternalRepair`: 2 lanes, 4 commits, 3 entries, kills anywhere: a lane before and one after the interrupted one.
  Processes that commands left behind edit files at any step up to the hand-back; HEAD, ignored files and Git
  metadata are only touched by a lane's command while it runs.
* `Workers`: 2 controllers, 2 threads, 2 providers, a budget of 2 launches, 3 processes (one more than allowed), 1
  death of a controller: the second thread, of the same controller or of the other, and the second provider compete
  for the last launch, and one controller's copy of the ledger may be older than what the other launched.
* `Validation`: a required and a diagnostic gate, 1 write from outside, services beside them.
* `Capability`: 4 skill directories, of which 2 share a name and 1 is the controller's own, 3 trees with texts of
  length 1, 2 and 3, at most 1 skill of at most 2 characters, 2 requests, 2 calls, 1 change: a conflict to resolve, a
  skill too long (3), one the role rules out (2), one too many, and a change between any two reads of either call.
* `Installer`: 2 prefixes (the second a copy of the first or another installation), 2 versions of the source, 2
  installation ids, 2 events.
* `StackUpdate`: 2 updaters, 2 queues, 1 package, 2 acts (failure, kill or act of the user). The gate's versions are
  those of the code.
* `SkillPack`: 2 skills of the pack, 1 retired, 1 edit, 2 failures.
* `ProjectFiles`: 2 commands at a time, 3 started in all, 2 presets, 1 gate, 2 notes, 1 act of the user.
* `Continuity`: 2 repositories, 1 hook process beside the prompt hook, 2 runs, 3 prompts, 1 kill or reset. The bound of
  8 generations is never reached. That a resumption puts an older generation's receipt back takes a fourth prompt (have
  a receipt, reset the session and ask again, lose that to a hook's older copy, pause and resume it): with 4 prompts
  and 1 repository TLC reaches it and `CompletionBound` holds too; the theorem has no such bounds.
* `ReadOnly`: 2 audits, of which each may be continued, 1 run kept by retention, 1 edit, 1 kill.
* `ReleaseReady`: 2 branches, 2 trees, 2 commits beside the first.
* `Publication`: 2 packagers, 2 versions, 3 builds, 3 failures or kills: a publication, one that fails or dies over
  it, and its repetition.

What the properties say, in the order of the runs:

* `OneRunningAttempt`, `CompleteJobAgrees`, `FinishedAttemptsKept`: a job's records as a history that no late process,
  crash or failed save falsifies.
* `OneWorker`, `WorkerOwnsAttempt`, `AnswerIsAttempted`: the same from the point of view of the workers: exclusion,
  ownership until the worker has answered, and answers that some attempt really completed with.
* `AttemptBudget`, `CallEnds`: the limit, and termination.
* `PatchAccounted`: until a run was certified, patch text is in the source only while a transaction record exists.
  Every order of "reverse, then remove the record" and every way to fail in between is covered by this one invariant.
* `OperatorEditsKept`: no step of the controller turns an edited file into one without the edit.
* `CompleteIsProven`: a returned COMPLETE is on disk as such, with a proof and without an open transaction.
* `ImplementsAtomic`: `Delivery` implements `AtomicDelivery`. The refinement counts a patched source with an open
  transaction as still unpatched, which is what recovery makes of it.
* `TransactionResolved`: an open transaction is certified or rolled back in the end, unless recovery must refuse.
* `EveryTaskDelivered`, `OnlyVerifiedEdits`, `EvidenceRecoverable`: the final patch holds the edits of all tasks and
  nothing that did not pass the declared-edit check, through stops, discarded dirt, cleanups and rebuilds.
* `OneTransaction`: no two processes are inside an operation, and the owner directory is the one's that is.
* `ClaimInUse`: what dead and failed processes leave never looks like the lock of one that is alive and working.
* `ImplementsAtomic` (of the store): `ArtifactStore` implements `AtomicArtifacts`. A write takes effect when
  `pending.json` is unlinked; before that, an artifact under an open marker counts as the backup the recovery will
  put back. A call that answers with an error after that step has had its effect all the same, and the abstract
  specification says so.
* `OneDecision`: all controllers go on with the choice on disk, which a session gave. `SubmissionKept`: an answer
  reported as saved is applied or still there.
* `DeliveredAsVerified`: the delivered tree is the one that passed gates, lanes, review and demonstration in its last
  form, with all tasks, from an approved plan, within the limits, and without a refused phase transition.
* `OnlyApprovedEdits`: the commit the lanes hand back, and what their checkpoints restore, holds approved edits only,
  also when a process a command left behind goes on editing; that may leave uncommitted edits beside the commit.
* `LaunchesWithinBudget`, `AnswerAlone`: no more processes than the budget and what a controller made the ledger
  forget (`forgotten`), which takes two controllers that ran at once (`overlapped`); when a call has its answer, the
  workspace holds the edits of the process that gave it and no trace of any other.
* `ValidationSettled`: a run of gates returns with a verdict for each, about the tree that is still there; every
  required gate passed, and none changed its copy. Services return with nothing left; an error leaves no container
  that was known to run, unless Docker refused. What an error may leave is a container whose start never returned, or
  an environment's directory that could not be removed; a gate's checkout that could not be removed is ignored by the
  code (the next gate takes another name) and is no part of the model.
* `LaunchedRouteCurrent`: the skills in a prompt were on disk, and allowed, after the check before the launch began;
  what the host allowed is only claimed while its policy could be read (`blind`).
* `InstalledAsRecorded`: an owned, undisturbed installation is the tree its lock records.
* `UpdateExcludesQueues`: an update changes packages under no queue that could know of the lock or be found by the scan;
  what a killed update left to pip changes under none but those that started since.
* `ReplacedAsPlanned`: a directory leaves the disk only by the update that planned to replace it.
* `FailedPackRestores`: a failed pack or removal leaves what nobody else touched as it was.
* `CompletedWritesStand`: concurrent commands' completed writes are those of some order of them, and no reader of the
  intent got a capture that was taken back.
* `CompletionBound`: a complete session has a receipt of its very request, generation and repository. A session that is
  not may hold a receipt of its text and repository in an earlier generation: a resumption that has to move to another
  generation clears the receipt and then puts the one of before back (`managed_hook_policy.py:168`).
* `EvidenceStands`: a COMPLETE audit stands on all proofs of its snapshot; retention removed only runs that had ended.
* `OneReleasedCommit`: the archive, the gates, the proof and the held head are one commit.
* `ReleaseRecoverable`: the last published release is whole on disk, and a build is of one version of the source.
* `TypeOK` and the three `...TypesOK`: types, including what readers take for granted about records and locks (a lock
  whose holder lives, a ledger no larger than what was launched, a result that was not written twice).

`TypeOK` of `JobStore`, `Delivery` and `TaskRun`, `CallTypeOK`, and the action properties `SpecificationKept`,
`CompletionSticks` and `ReusedDataRecorded` of `JobStore` hold in the same runs; the latter three and `JobStore`'s
`TypeOK` are proved, so the runs do not repeat them.

Deadlock checking is off where the modelled activity ends: controllers that all stopped with every attempt number
used, a run that was delivered, commands that are done with every bound used up.

### Fairness

`worker_call_limit` assumes strong fairness of each live controller's steps: the lock is polled until it is free, is
only held for a few file writes, and a worker is killed at `agent.timeout_seconds`. Errors (`StepRaises`) are not
fair: a worker need not fail. Strong fairness is needed because a waiting controller's step is disabled whenever the
other one holds the lock; the poll loop (every 50 ms) gives it the lock unless it loses every race for 30 s.
`delivery_atomic` assumes weak fairness of the controller and that the operator continues a stopped run. Faults,
workers' errors and operator edits are never fair. The other runs state safety only and assume no fairness.

### Where the code disagrees with its documents

Two runs expect a violation; `PROJECT.json` quotes the documents.

* `delivery_continue` (`ContinuedRunCanDeliver`): after the conformance record, a run that stops can never deliver: the
  record is locked and the continuation writes it again (`orchestrator.py:2420`).
* `decision_open` (`NoOpenDecision`): the product model is written before the question it leaves open; a continuation
  in between implements with the decision open (`orchestrator.py:1962`).

The modules state further promises the code does not keep. Each is a definition of its own, next to the properties that
hold; put in the place of a run's properties, TLC shows its shortest trace in seconds to a minute.

| Property (module) | In the run | What goes wrong |
|---|---|---|
| `ConcurrentAdaptersWithinBudget` (`Workers`) | `controller` | each controller process keeps the ledger's bytes as it last read or wrote them, and puts them back after every attempt; with two controllers of one run, the attempt of one that failed before its own reservation takes the other's launch out of the ledger (`adapters/transactional.py:843`) |
| `DisabledFailsClosed` (`Capability`) | `task_run`, `MaxChanges = 2` | whether the host's policy could be read is a field of the shared index that a route reads after the index's lock was given back (`capability_router.py:1050`) and that the next load overwrites: a call that loaded while nothing could be read as disabled may pass its last route and start a disabled skill |
| `FailedRunUnapplied` (`Delivery`) | `delivery`, fault "cleanup" alone | a COMPLETE run whose cleanup or retention fails is rewritten as BLOCKED with its patch still applied (`managed_completion_policy.py:343`) |
| `UnfinishedJobCanBegin` (`WorkerCall`) | `worker_call` | a job whose controller died while its worker ran stays RUNNING for good, and every continuation is refused an attempt (`jobs.py:396`) |
| `CompletedEditsPreserved` (`TaskRun`) | `task_run` | completed edits should survive a kill between worker and checkpoint, but the marker's digest and the one it is compared with have different formats (`adapters/transactional.py:870`, `workspace.py:265`) |
| `RebuiltWithEvidence` (`TaskRun`) | `task_run`, fault "rebuild" | a rebuild that is killed leaves a bare checkout which the next continuation takes for the restored one (`workspace.py:165`); the fault is left out of the run since it makes `EveryTaskDelivered` and `EvidenceRecoverable` false |
| `RecoverableWhileMarked` (`ArtifactStore`) | `artifact_store` | a recovery removes its files in any order; stopped after a backup is gone and before the marker is, every later operation refuses for good (`artifacts.py:901`). `ImplementsAtomic` holds regardless |
| `CheckpointsResume` (`ExternalRepair`) | `controller` | a continuation runs the gates again, so the fingerprint of its own checkpoints, which covers their times, never matches (`external_repair_policy.py:959`) |
| `HandedBackApproved` (`ExternalRepair`) | `controller` | a commit of a lane whose controller was killed before it looked becomes the next baseline (`:1166`) |
| `HandedBackClean` (`ExternalRepair`) | `controller` | what a process left behind edits after the last lane's scope check is handed back uncommitted: only the start of a lane looks (`:879`). It is in no patch, which is made of commits (`workspace.py:383`) |
| `LockedPlanImplemented` (`RunPhases`) | `controller` | a controller killed between writing the plan and its review compiles again; `_write_or_reuse_json` keeps the plan on file and the run goes on with the other (`orchestrator.py:2114`). It takes inputs that changed in between, see *Modules* |
| `InstalledGateVerifies` (`StackUpdate`) | `host` | the gate that ships answers 1.0.0, the update requires 1.1.0 of what it just installed (`stack_update.py:1239`) |
| `LockSpansUpdate` (`StackUpdate`) | `host` | pip outlives a killed update without its lock, and a queue starts while it replaces packages (`stack_update.py:1265`) |
| `NoQueueUpdated` (`StackUpdate`) | `host` | the migration marker outlives the gate: a launcher without a gate, put back later, starts queues nobody scans for (`stack_update.py:1221`) |
| `RerunAccepted` (`Installer`) | `host` | a first installation killed before its marker and lock is refused as unowned by every rerun (`scripts/install.py:1553`) |
| `ProofAsRecorded` (`Installer`) | `host` | the application's digest is checked while it is staged, the proof assets are copied without a check (`scripts/install.py:1531`) |
| `EditedSkillKept` (`SkillPack`) | `host` | an edit between the digest check and the move of a removal is deleted with the skill (`token_modes.py:897`) |
| `UserEditsStand` (`ProjectFiles`) | `host` | an edit between a command's read and its write is overwritten, and a cleared cache lets two commands in |
| `CapturedPromptKept` (`Continuity`) | `reports` | a hook writes back the session it read without the lock, and a prompt captured in between is lost (`managed_hook_policy.py:350`) |
| `LiveRunKept` (`ReadOnly`) | `reports` | retention removes a stopped run that is just being continued (`run_retention.py:127`) |
| `ContinuedAuditIsolates` (`ReadOnly`) | `reports` | an interrupted read-only run creates its workspace again and is refused (`read_only_run_policy.py:237`) |
| `ReadyNamesArchive` (`ReleaseReady`) | `reports` | killed between the two writings of the handoff, it says READY and names no archive (`release_ready.py:549`) |
| `ReadyShipsVerified` (`ReleaseReady`) | `reports` | digest, status and head are read one after the other; edits taken back and committed in between clear an archive of another tree than the proven one |
| `PublishedReconciled` (`Publication`) | `reports` | backups a complete publication left are only removed by a packager whose candidate equals it; after the source moved on, every one refuses (`scripts/package_release.py:579`) |

With the further fault "cleanup" in `PackFailures`, `FailedPackRestores` fails as well: a removal whose last `rmtree`
raises has deleted some of the trees its rollback needs (`token_modes.py:910`). With "race" in `UserActs`,
`OneReleasedCommit` fails: the head is read before the branch it is held by (`release_ready_policy.py:69`). With "race"
in `Faults`, `SubmissionKept` fails: a session that saves between the look and the rename of a failed claim's restore is
overwritten. With `DiskFails`, `AttemptBudget` fails: a call's limit counts an attempt that is withdrawn again.

Met while modelling, without a property of their own:

* A kill while `cleanup_terminal` removes the checkout may leave a directory without `.git`; the constructor of the
  next continuation raises on it before recovery runs (`orchestrator.py:369`), against "Incomplete delivery recovery
  runs before ... preflight" (`docs/ARCHITECTURE.md`). `TransactionResolved` excuses this state by name.
* A second closeout without a checkout overwrites the lifecycle record, and the run cannot be rebuilt any more
  (`workspace.py:388`); `EvidenceRecoverable` speaks of runs that can still be rebuilt.
* A task's edits are committed before its gates run. When a gate fails, the continuation finds the implementer's job
  complete, has nothing to check or commit, and runs the gates again: no worker is asked to repair them
  (`orchestrator.py:2215`).
* The update of the supervisor's environment ends with `clawpatch-supervise --version`, under the lock that its gate
  takes for any call but the gate's own version: the gate exits 75, and the update reports a failure
  (`stack_update.py:523`).
* `KeyboardInterrupt` passes the restoring handlers of skill packs, lanes and failed claims, which catch `Exception`;
  the models treat it as a kill there.

## Proofs

### The two stores

`JobStoreProofs` proves the type invariant and all six safety properties of `JobStore` as theorems of `Spec`, for any
sets of processes, specifications, results and forms, any positive bound on attempts and any number at which file
names begin to sort differently. The assumptions are `JobStoreAssumption`: the two bounds are positive naturals and
`None` is neither a process nor an artifact content. TLC evaluates them in every run.

None of the properties is inductive, because an operation decides under the lock and saves later. The inductive
invariant `IInv` adds

* `LockInv`: exactly the lock's holder is inside an operation;
* `PendInv`: for each kind of operation, what is still true of the files while its decision waits to be saved: a
  pending completion still agrees with the attempts, a pending begin still has no other running attempt, the attempt
  a pending failure overwrites is still the running one;
* `ArtifactKept`: the artifact of a complete job is the accepted one unless the history variable `touched` says it
  was rewritten.

`OperationRest` shows that each operation establishes its part of `PendInv` on entry, `WriteAttemptRest` and
`WriteJobRest` that saving turns it into the record invariants, `CutRest` that dying or failing instead does no harm,
and `ArtifactRest` that the unlocked artifact may change at any time. `Invariant` combines them; the action properties
follow from `IInv` and one step.

`ArtifactStoreProofs` proves `OneTransaction` and `ClaimInUse` for any sets of processes, paths and contents and any
number of faults, from `ArtifactStoreAssumption` and `OwnerAssumption` (a pid is neither "dead" nor "nobody", and
`None` is none of the values it is told apart from). The inductive invariant `LockInv` adds to the types of the locks

* `HolderInv`: the advisory lock is held by exactly the process that is past it;
* `DirInv`: at each step what that process knows of the owner directory: that it exists while it is being made or
  reclaimed, and is its own from the owner file on;
* `ClaimInv`: a live process's claim is that of one about to rename the directory away.

`StoreStepWorks` reduces the fifteen steps of the operations to one fact, that they stay under the lock and leave it
alone; the lock's own steps are treated one by one.

Its second half proves the rest of the run: `TypeOK` and `ArtifactStoreIsAtomic`, that `Spec` implies
`ImplementsAtomic`. It needs in addition `NoneAssumption` (`None` is not a ledger, transaction, marker, request or
answer). The mapping alone is not inductive: that a step keeps what the store *counts as* its contents depends on what
the transaction directory holds just then. `DataInv` adds to `LockInv`

* `CallInv`: which steps have a request and an answer, and that only a write is at a later stage than "before";
* `LedgerInv`: a run without a ledger has no transaction and only constructors in it;
* `StepInv`: for each step of an operation what it has to go by: a pending recovery finds a marker; once the
  artifact, then the ledger, is restored, it is what the marker says (so that sweeping the backups away loses
  nothing); and for each of the six steps of a write (`WriteOf`) which copies are made, what is marked, and which of
  the two files is already new.

`DataInvariant` is proved action by action (`RecoverKeeps`, ..., `CommitKeeps`), the steps on the locks once for all
(`LockStepShape`). The step refinement then shows that `Commit` is the abstract `Write` (`CommitMaps`), `Create` and
`VerifyLocked` are `Read` (`ReadMaps`), and every other step of an operation is a stutter or turns the answer of the
call into an error (`QuietOrFails`).

Three of `JobStore`'s theorems (`SpecificationFixed`, `CompletionKept`, `ReusedRecorded`) and its type correctness state
definitions no run lists any more, because the proofs have taken their place.

### Worker calls

`WorkerCallProofs` extends the store's proofs to its client. `CallUsesStore` is the refinement: every step of a call is
a step of the store or leaves the records alone (`CallStepIsStoreStep`), so `IInv` holds under any number of calls. It
is proved from the invariant, not before it: that a call completes the attempt it began, with a result of the model, is
something the call has to know. `CallIInv` adds

* `PendMatches`: a call waits at a saving step exactly while its operation owes a write;
* `OwnInv`: what a call knows of the attempt it began and of the job, at each place from the reservation until its
  failure is dealt with;
* `Apart`: no two calls own the same attempt, and only one holds the job;
* `ResultAttempted`, `BegunInv`: the job's result is a completed attempt's, and a call has begun no more attempts than
  are on disk.

`OneWorker`, `WorkerOwnsAttempt` and `AnswerIsAttempted` follow. `BudgetKept` proves `AttemptBudget` under `~DiskFails`
with a second invariant (`BudgetInv`) that weighs what a call has begun against the attempts on disk, for which `Procs`
is finite. The hypothesis is real: when another controller's save of the job fails and it withdraws its attempt, a call
that had counted that attempt into its limit finds room for one too many.

### Delivery and the task loop

`DeliveryProofs` proves `PatchAccounted`, `CompleteIsProven` and `OperatorEditsKept` for any files, patch, faults and
edits. `Known` and `ResultKnown` say what is true of the record, the source and the result at each place; what makes
them hold through faults is that the operator never adds a part of the patch (`OperatorShrinks`) and that recovery comes
before anything else reads the run's files. `DeliveryIsAtomic` is the refinement of `AtomicDelivery`, for `MaxEdits = 0`
as in the run `delivery_atomic`: an operator who edits a patched file while the patch is in it has a part of it, which
is what `PatchAccounted` is for. It needs `AloneInv`: while nobody else writes, the source is the snapshot or the
expected tree at each step, never in between without a record.

`TaskRunProofs` proves `OnlyVerifiedEdits` through all faults, and `EveryTaskDelivered` and `EvidenceRecoverable` for
`"rebuild" \notin Faults`, the fault the run leaves out as well because it makes them false (see the table above).
`VerifiedInv` covers the edits that become a commit next; `Kept` is the heart of the other two: the edits of the
finished tasks are in the last commit, or in the patch the checkout will be rebuilt from, or on their way from one to
the other. `PendingNeverKept` proves for every instance what the run shows of the marker's digest: it never owns a tree.

### The parts of a controller

`ControllerProofs` has one section per part of the run `controller`:

* `Decisions`: `ChoiceInv` (a choice is written once, over the open decision, before any record of it) gives
  `OneDecision`. `NoAnswerLost` adds `ClaimsInv` and `SavedInv`, where each submission is, under `"race" \notin Faults`:
  a session that saves between the look and the rename of a restore loses its answer.
* `ExternalRepair`: `MadeCommits` (what is recorded anywhere was made, so that a new commit is none of it),
  `WorkspaceInv`, and `ApprovedInv` for all controllers but one killed over a commit it had not judged (`orphaned`).
* `RunPhases`: `PhaseInv` says which phases a step may find on disk, so that the table allows what it asks for;
  `VerifiedInv` carries what was gated, reviewed and demonstrated to the delivery; `LimitsInv` and `ApprovalInv` count
  rounds and approvals over all continuations, for any limits (a continuation of a run whose plan reviews are used up
  asks the reviewer once more before it blocks, which the bound on `planCycles` allows for).
* `Workers`: `HolderInv`, then `LedgerInv` (every launch was counted before it was made, and is still in the ledger or
  among the launches it was made to forget; the file may lie only while a worker runs or has just ended; while no two
  controllers have met, the one that runs knows the ledger) gives the budget, `TraceInv` that an answer stands alone,
  `QueueInv` that a call with the lock has a worker left to try.
* `Validation`: `GateInv`, `VerdictInv` (the failures counted are those of the required gates seen so far), `CopyInv`
  (the versions of the workspace only grow, so a tree that was left never returns) and `ServiceInv` (what was started
  has its removal ahead).
* `Capability`: `IndexInv` (what the shared catalog, and the one a call holds, was read under), `WitnessInv` (what the user did since the check began is not
  forgotten) and `RouteInv` (what the second pass has not compared yet waits to be). `ChoiceFits` is about every choice
  the router could make.

`ControllerTypesHold` is about the composition the run checks: each part takes its own steps and stands still while
another moves (`ControllerPartsStepAlone`), so `ControllerSpec` implies each part's specification and has all five
invariants, of which the types are one conjunct. For the same reason every theorem about a part is one about the whole.

### What others take Manageroo's word for

`ReportsProofs` does the same for the run `reports`:

* `Continuity`: hooks write back copies they read without the lock. The invariant therefore speaks of every state of
  the session that anybody holds (`HookCarries`, `CaptureNew`), each as sound as the one on disk (`Held`): its
  receipt is of its text and repository, in its generation or an earlier one that a resumption put back, and it is
  complete only with one of its very generation. Nothing is claimed about the request's files, which hooks rewrite
  without the lock. A session that is overwritten with an older copy loses a prompt (a finding) but never claims more
  than it may.
* `ReadOnly`: `EndedAt`, `ProvedAt`, `EvidenceAt`, `ResultAt` and `GoneAt` say what an audit's directory holds in the
  order its steps collect it, as long as it is the directory the audit was opened in; what retention picked had ended
  when it looked, and a run that has ended has ended for good.
* `ReleaseReady`: `HistoryInv`, `HeldInv` and `ReportInv`, for `"race" \notin UserActs` (the head is read before the
  branch it is held by, see above).
* `Publication`: `TurnsInv` (one packager publishes at a time), `BuildsInv` (a build is of one version), `StageInv`
  (what is in the drop, set aside and staged between any two renames) and `ShippedInv` (what undoing would leave).

`ReportsTypesHold` composes the four, like `ControllerTypesHold`.

### The commands of the host

`HostProofs` has one section per part of the run `host`:

* `Installer`: `InstallerInv` says that every directory, the one moved aside included, holds the application its lock
  records unless an operation broke off in it; `Bound` adds that the installation being replaced counts as such until
  its lock is written, and holds the tree bound at the start from its placing on. A source folder pulled meanwhile
  therefore never comes under the new lock.
* `StackUpdate`: `LocksHeld` (who is at a place under a lock has it), `QueuesLocked` (a queue that a gate started runs
  under the runtime lock), `GateKept` and `ScanStands`: while an update records its scan no queue runs, and after the
  migration only those started late. `OrphansKept` says so of the pip a kill leaves behind, but for queues started
  beside it. `AsideKept` (what was moved aside is what was planned, or is kept) carries
  `ReplacedAsPlanned` through the five steps of the swap.
* `ProjectFiles`: what a command read under a lock is still there when it writes. `LocksOf` and `LockedThere` say that
  a holder's lock file is the one in place, which makes it the only holder (`HoldsAlone`); a lock file made after a
  cleared cache has an inode nobody has open (`FreshInode`), for which `Commands` is finite. `SeenThere` follows, and
  with it that a write makes of the files what the completed writes alone would have made of them (`ChangedIs`: what a
  command makes of a file depends on that file alone). `JsonStands` and `BeforeStands` say which captures the two files
  of the intent can be of. All this is stated for `~raced`, as the property is: the user's act in between is the
  finding `UserEditsStand`; `LocksOf` and the types hold without it.
* `SkillPack`: `Restorable` says for each stage what the rollback, begun there, would make of each skill nobody else
  touched: what was there before. It is conditional on `"cleanup" \notin PackFailures`, like `FailedPacksRestore`;
  `LedgerKept` and `TodoOf` are not, so the ledger and the token mode come back whatever fails
  (`FailedPackKeepsRecords`).

`HostTypesCorrect` composes the four: `HostSpec` implies each part's specification (`PartsBehave`). It has no
hypothesis.

### Assumptions

Each module's `ASSUME` is named after it and evaluated by TLC in the runs: bounds and limits are naturals, those that
must be reached at least once positive, and the model values `None`, `NoThread`, `NoRepo`, ... are not among the values
they are told apart from. `WorkerCall` takes the set of controllers to be finite and `ProjectFiles` that of commands;
`StackUpdate` tells updates from queues, and `ProjectFiles` has a preset and a note to write. The hypotheses of single
theorems are those above: `~DiskFails` for `BudgetKept`, `MaxEdits = 0` for `DeliveryIsAtomic`, `"rebuild" \notin
Faults` for `AllTasksDelivered` and `EvidenceStaysRecoverable`, `"race" \notin Faults` for `NoAnswerLost`, `"race"
\notin UserActs` for `OneCommit` and `ReportsTypesHold`, `"cleanup" \notin PackFailures` for `FailedPacksRestore`. Each
is what the run of that property assumes too. Without it the property is false, as told under *Where the code disagrees
with its documents*, or, with `MaxEdits`, another property covers the rest.

Every inductive invariant was checked by TLC on its run before it was proved.

### Only model-checked

* Liveness (`CallEnds`, `TransactionResolved`): fairness and `ENABLED` are beyond the prover.
* The counterexamples: the two runs that expect a violation, and the traces of the table above.

Every safety property of a passing run is stated by a theorem.

## Not modelled

`PROJECT.json` lists every component with its status and the reason. In short:

* Pure functions of their inputs: the context compiler and inventory, the checks of plans, paths, phrases and
  acceptance evidence, the text of routes, prompts and reports. The models take such a check as passed or refused.
* Sequential commands that only read or replace one file of their own: doctor, readiness and benchmark reports,
  ideas, per-project records, exports. Nothing in a run's control flow waits for them.
* Subprocess I/O: what a provider, Git, Docker or a package manager answers is one outcome.
* The installation of optional third-party tools by `scripts/install.py`, and its prompts.
* Supersession of runs, the packet-repair call, and concurrent deliveries and task loops of one run: those modules
  have one controller at a time; several controllers are in `WorkerCall`, `Workers` and `Decisions`. In `Workers` the
  worker process of a controller that dies ends with it; one that lives on is not modelled.
* In `RunPhases`: the path of an exact task, whose planning artifacts are written without asking a worker
  (`orchestrator.py:1907`).
* In `Publication`: the two archives have fixed names in the drop, and the rename by which `refresh_drop_folder`'s
  handler puts the drop back does not fail (`scripts/package_release.py:430`). When it does, the drop stands under the
  name it was set aside by, as after a kill at that step, which is modelled; the undoing of the archives that follows
  then finds none of them.
* Attacks on the file system that the code guards against (descriptor checks, symbolic links): a guard that refuses
  is a step that raises.

## Plan

Done: `JobStore` and `ArtifactStore` with their proofs, `WorkerCall`, `Delivery` with `AtomicDelivery`, `TaskRun`;
then, each with its place in one of the runs over several components: `Decisions`, `RunPhases`,
`ExternalRepair`, `Workers`, `Validation`, `Capability`, `Installer`, `StackUpdate`, `SkillPack`, `ProjectFiles`,
`Continuity`, `ReadOnly`, `ReleaseReady`, `Publication`.

Proved since: every safety property of `WorkerCall`, `Delivery`, `TaskRun` and of the fourteen components in the runs
`controller`, `task_run`, `host` and `reports`, with the refinements of `JobStore` by `WorkerCall`, of `AtomicDelivery` by
`Delivery` and of `AtomicArtifacts` by `ArtifactStore`.

What is left is to model, not to prove: a second continuation of the same run in `Delivery` and `TaskRun`, the
supersession of runs in `RunPhases`, and the hazards `PROJECT.json` lists without a property.

The number of runs and of checked properties is limited and they are spent on questions, not on modules: a further
component takes its place in a run of components it shares no file with, or extends the one it interacts with.
