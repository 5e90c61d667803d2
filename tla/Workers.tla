------------------------------ MODULE Workers -------------------------------
(***************************************************************************)
(* The adapters between a controller and its disposable coding workers:    *)
(* BudgetedAdapter reserves a launch in the run's durable ledger before    *)
(* every real process, WorkerPoolAdapter falls back from one provider to   *)
(* the next, and TransactionalAdapter gives each attempt a pristine        *)
(* workspace, puts Git metadata and controller truth back afterwards and   *)
(* rolls back what failed.  The controller processes of a run share its    *)
(* workspace, its repository lock and its ledger; each has threads, a      *)
(* preferred worker and a copy of the ledger of its own.                   *)
(***************************************************************************)
EXTENDS Naturals, Sequences

CONSTANTS
    Runners,     \* the run's controller processes, one after another or at once
    Threads,     \* parallel calls (max_parallel_agent_calls in each controller)
    Providers,   \* the configured workers, in order
    MaxCalls,    \* budget.max_total_worker_calls
    MaxProcs,    \* bound: worker processes launched in one behaviour
    MaxStops,    \* bound: controllers that die
    NoThread, NoRunner

ASSUME WorkersAssumption ==
    /\ NoThread \notin Threads
    /\ NoRunner \notin Runners
    /\ Providers \in Seq(STRING) /\ Providers # <<>>
    /\ MaxCalls \in Nat \ {0} /\ MaxProcs \in Nat /\ MaxStops \in Nat

VARIABLES
    ledger,      \* worker_calls_consumed in controller/budget.json (0: no file)
    authority,   \* each controller: the bytes it last read or wrote there itself
    launched,    \* how many worker processes were really started
    holder,      \* who holds the repository's transaction lock
    workTree,    \* the workspace: whose edits it holds, and whether Git's
                 \*   history or metadata differs from the attempt's start
    preferred,   \* each controller: its pool's last successful worker
    live,        \* the controllers that run
    thread,      \* each call
    stops,
    counted,     \* history: the ledger as controllers last left it,
    forgotten,   \*   the launches it misses since one put its old copy back,
    overlapped,  \*   whether two controllers ever ran at once, and whether one
    escaped      \*   died with the ledger rewritten by its worker

ledgerHistory == <<counted, forgotten, overlapped, escaped>>
workerVars == <<ledger, authority, launched, holder, workTree, preferred, live, thread, stops,
                ledgerHistory>>

Sandboxes == {"read-only", "workspace-write"}
ThreadPCs == {"idle", "pool", "lock", "held", "reserved", "running", "exited", "rollback",
              "finalise", "answered", "returned"}
Failures == {"none", "retryable", "budget", "safety"}
Thread == [pc : ThreadPCs, runner : Runners \cup {NoRunner}, left : Seq(DOMAIN Providers), sandbox : Sandboxes, proc : 0 .. MaxProcs,
           failure : Failures]
Clean == [edits |-> {}, moved |-> FALSE]

WorkersTypeOK ==
    /\ ledger \in 0 .. MaxCalls /\ authority \in [Runners -> 0 .. MaxCalls]
    /\ launched \in 0 .. MaxProcs
    /\ holder \in Threads \cup {NoThread}
    /\ workTree \in [edits : SUBSET (1 .. MaxProcs), moved : BOOLEAN]
    /\ preferred \in [Runners -> {Providers[i] : i \in DOMAIN Providers} \cup {"none"}]
    /\ live \subseteq Runners
    /\ thread \in [Threads -> Thread]
    /\ stops \in 0 .. MaxStops
    /\ counted \in 0 .. MaxCalls /\ forgotten \in Nat
    /\ overlapped \in BOOLEAN /\ escaped \in BOOLEAN

IdleThread == [pc |-> "idle", runner |-> NoRunner, left |-> <<>>, sandbox |-> "read-only",
               proc |-> 0, failure |-> "none"]

WorkersInit ==
    /\ ledger = 0 /\ authority = [r \in Runners |-> 0] /\ launched = 0
    /\ holder = NoThread /\ workTree = Clean /\ preferred = [r \in Runners |-> "none"]
    /\ live = {} /\ thread = [t \in Threads |-> IdleThread]
    /\ stops = 0 /\ counted = 0 /\ forgotten = 0 /\ overlapped = FALSE /\ escaped = FALSE

ThreadsOf(r) == {t \in Threads : thread[t].runner = r}
Resting(t) == thread[t].pc \in {"idle", "returned"}
AllIdle(r) == [t \in Threads |-> IF thread[t].runner = r THEN IdleThread ELSE thread[t]]

ThreadAt(t, pc) == thread[t].pc = pc
ThreadGoes(t, pc) == thread' = [thread EXCEPT ![t].pc = pc]
RaiseCall(t) == thread' = [thread EXCEPT ![t] = IdleThread]
ThreadFails(t, pc, f) == thread' = [thread EXCEPT ![t].pc = pc, ![t].failure = f]

-----------------------------------------------------------------------------
(* Controllers come and go. *)

\* A controller starts or continues the run: it reads the ledger and discards
\* what it finds uncommitted in the workspace.
OpenRunner(r) ==
    /\ r \notin live
    /\ live' = live \cup {r} /\ overlapped' = (overlapped \/ live # {})
    /\ authority' = [authority EXCEPT ![r] = ledger]
    /\ workTree' = [workTree EXCEPT !.edits = {}]
    /\ thread' = AllIdle(r)
    /\ UNCHANGED <<ledger, launched, holder, preferred, stops, counted, forgotten, escaped>>

\* A controller and its workers end: an interrupt is no Exception, so nothing
\* is restored.
KillRunner(r) ==
    /\ r \in live /\ stops < MaxStops /\ stops' = stops + 1
    /\ live' = live \ {r} /\ thread' = AllIdle(r)
    /\ authority' = [authority EXCEPT ![r] = 0] /\ preferred' = [preferred EXCEPT ![r] = "none"]
    /\ IF holder \in ThreadsOf(r)
       THEN /\ holder' = NoThread /\ counted' = ledger
            /\ escaped' = (escaped \/ ledger # counted)
       ELSE UNCHANGED <<holder, counted, escaped>>
    /\ UNCHANGED <<ledger, launched, workTree, forgotten, overlapped>>

-----------------------------------------------------------------------------
(* The pool. *)

\* Positions in the configured list, those of the preferred name first and
\* each group as configured: one order.
OrderedWorkers(r) ==
    LET First(i) == Providers[i] = preferred[r]
    IN  {order \in [DOMAIN Providers -> DOMAIN Providers] :
            \A i, j \in DOMAIN Providers : i < j =>
                IF First(order[i]) <=> First(order[j]) THEN order[i] < order[j] ELSE First(order[i])}

\* Map and review calls of a controller run in parallel and only read; a call
\* of it that may write is alone.
StartRequest(t) ==
    /\ Resting(t)
    /\ \E r \in live, s \in Sandboxes : \E order \in OrderedWorkers(r) :
          /\ \A u \in ThreadsOf(r) \ {t} :
                Resting(u) \/ (s = "read-only" /\ thread[u].sandbox = "read-only")
          /\ thread' = [thread EXCEPT ![t] = [IdleThread EXCEPT !.pc = "pool", !.runner = r,
                                                 !.sandbox = s, !.left = order]]
    /\ UNCHANGED <<ledger, authority, launched, holder, workTree, preferred, live, stops,
                   ledgerHistory>>

TryNext(t) ==
    /\ ThreadAt(t, "pool")
    /\ IF thread[t].left = <<>> THEN RaiseCall(t) ELSE ThreadGoes(t, "lock")
    /\ UNCHANGED <<ledger, authority, launched, holder, workTree, preferred, live, stops,
                   ledgerHistory>>

-----------------------------------------------------------------------------
(* The transaction around one provider. *)

\* Mutant: the workspace is taken as it is.
Pristine_Unchecked == TRUE
Pristine == workTree.edits = {}

\* The pristine check and the snapshot of Git, from which the attempt is judged.
AcquireRepository(t) ==
    /\ ThreadAt(t, "lock") /\ holder = NoThread
    /\ IF Pristine
       THEN /\ ThreadGoes(t, "held") /\ holder' = t
            /\ workTree' = [workTree EXCEPT !.moved = FALSE]
       ELSE RaiseCall(t) /\ UNCHANGED <<holder, workTree>>
    /\ UNCHANGED <<ledger, authority, launched, preferred, live, stops, ledgerHistory>>

LockTimesOut(t) ==
    /\ ThreadAt(t, "lock") /\ holder # NoThread
    /\ RaiseCall(t)
    /\ UNCHANGED <<ledger, authority, launched, holder, workTree, preferred, live, stops,
                   ledgerHistory>>

\* Mutant: the file counts the call after this one as well.
PersistLedger_Ahead(r, n) == ledger' = n + 1 /\ authority' = [authority EXCEPT ![r] = n]
PersistLedger(r, n) == ledger' = n /\ authority' = [authority EXCEPT ![r] = n]

\* The launch hook: reload the ledger under its lock, refuse or count, and
\* keep the bytes written.  The runtime budget may be spent as well, and what
\* the provider does before its hook may fail.
ReserveCall(t) ==
    /\ ThreadAt(t, "held")
    /\ \/ /\ ledger < MaxCalls
          /\ PersistLedger(thread[t].runner, ledger + 1)
          /\ counted' = ledger + 1
          /\ ThreadGoes(t, "reserved")
       \/ /\ \E f \in Failures \ {"none"} : ThreadFails(t, "exited", f)
          /\ UNCHANGED <<ledger, authority, counted>>
    /\ UNCHANGED <<launched, holder, workTree, preferred, live, stops, forgotten, overlapped,
                   escaped>>

LaunchProcess(t) ==
    /\ ThreadAt(t, "reserved") /\ launched < MaxProcs
    /\ launched' = launched + 1
    /\ thread' = [thread EXCEPT ![t].pc = "running", ![t].proc = launched + 1]
    /\ UNCHANGED <<ledger, authority, holder, workTree, preferred, live, stops,
                   ledgerHistory>>

\* What a worker process does to the workspace, to Git, and, where its host
\* isolation fails, to the ledger.
WorkerEdits(t) ==
    /\ ThreadAt(t, "running")
    /\ \/ workTree' = [workTree EXCEPT !.edits = @ \cup {thread[t].proc}] /\ UNCHANGED ledger
       \/ workTree' = [workTree EXCEPT !.moved = TRUE] /\ UNCHANGED ledger
       \/ (\E n \in 0 .. MaxCalls : ledger' = n) /\ UNCHANGED workTree
    /\ UNCHANGED <<authority, launched, holder, preferred, live, thread, stops,
                   ledgerHistory>>

\* It answers, fails, is stopped at its timeout, or answers what its schema
\* refuses; all but the first are failures of the provider.
ProviderFailures == {"none", "retryable"}
WorkerExits(t) ==
    /\ ThreadAt(t, "running")
    /\ \E f \in ProviderFailures : ThreadFails(t, "exited", f)
    /\ UNCHANGED <<ledger, authority, launched, holder, workTree, preferred, live, stops,
                   ledgerHistory>>

\* The process could not start its sandbox, so that no worker ran in it, and
\* the operator allows one launch without: the hook runs again before it.
SandboxFallback(t) ==
    /\ ThreadAt(t, "running") /\ thread[t].sandbox = "workspace-write"
    /\ workTree = Clean /\ ledger = counted
    /\ ThreadGoes(t, "held")
    /\ UNCHANGED <<ledger, authority, launched, holder, workTree, preferred, live, stops,
                   ledgerHistory>>

\* Mutant: what the file held before the last reservation is put back.
TrueLedger_First(t) == IF authority[thread[t].runner] = 0 THEN 0 ELSE authority[thread[t].runner] - 1
TrueLedger(t) == authority[thread[t].runner]

MetadataChanged == workTree.moved
RestoreMetadata == workTree' = [workTree EXCEPT !.moved = FALSE]

\* Git metadata and controller truth are put back: what the controller itself
\* last read or wrote, whoever has changed the ledger since.  Had anything
\* changed, the attempt is refused whatever it answered; of ledgers with equal
\* counts the bytes may differ.
RestoreTruth(t) ==
    /\ ThreadAt(t, "exited")
    /\ \E changed \in BOOLEAN :
          /\ MetadataChanged \/ ledger # TrueLedger(t) => changed
          /\ thread' = [thread EXCEPT ![t].pc = IF changed \/ thread[t].failure # "none"
                                                THEN "rollback" ELSE "finalise",
                                      ![t].failure = IF changed THEN "safety" ELSE @]
    /\ ledger' = TrueLedger(t) /\ counted' = TrueLedger(t)
    /\ forgotten' = IF counted + forgotten > TrueLedger(t)
                    THEN counted + forgotten - TrueLedger(t) ELSE 0
    /\ RestoreMetadata
    /\ UNCHANGED <<authority, launched, holder, preferred, live, stops, overlapped, escaped>>

\* After the rollback the failure goes to the pool: a provider's failure to
\* the next provider, every other one to the caller.
AfterFailure(t) ==
    IF thread[t].failure = "retryable"
    THEN [thread[t] EXCEPT !.pc = "pool", !.left = Tail(@)]
    ELSE IdleThread

ResetTree == workTree' = Clean

\* Reset, clean and refs; when Git fails the workspace stays as it is and the
\* call ends.
RollBackAttempt(t) ==
    /\ ThreadAt(t, "rollback")
    /\ \/ ResetTree /\ thread' = [thread EXCEPT ![t] = AfterFailure(t)]
       \/ RaiseCall(t) /\ UNCHANGED workTree
    /\ holder' = NoThread
    /\ UNCHANGED <<ledger, authority, launched, preferred, live, stops,
                   ledgerHistory>>

ReadOnlyKept(t) == thread[t].sandbox = "read-only" => workTree = Clean

\* A reader left nothing; a writer's ignored files are discarded and its edits
\* recorded as pending validation.  Each of these steps may fail.
FinaliseAttempt(t) ==
    /\ ThreadAt(t, "finalise")
    /\ \/ ReadOnlyKept(t) /\ ThreadGoes(t, "answered")
       \/ ThreadFails(t, "rollback", "safety")
    /\ UNCHANGED <<ledger, authority, launched, holder, workTree, preferred, live, stops,
                   ledgerHistory>>

ReturnAnswer(t) ==
    /\ ThreadAt(t, "answered")
    /\ holder' = NoThread
    /\ preferred' = [preferred EXCEPT ![thread[t].runner] = Providers[Head(thread[t].left)]]
    /\ thread' = [thread EXCEPT ![t] = [IdleThread EXCEPT !.pc = "returned",
                               !.runner = thread[t].runner, !.proc = thread[t].proc]]
    /\ UNCHANGED <<ledger, authority, launched, workTree, live, stops, ledgerHistory>>

\* Between calls the controller commits or resets what its writer left; no
\* other call of it runs then (TaskRun).
SettleWorkspace(r) ==
    /\ \A t \in ThreadsOf(r) : Resting(t)
    /\ \E t \in ThreadsOf(r) : ThreadAt(t, "returned") /\ thread[t].proc \in workTree.edits
    /\ ResetTree
    /\ thread' = AllIdle(r)
    /\ UNCHANGED <<ledger, authority, launched, holder, preferred, live, stops, ledgerHistory>>

WorkersNext ==
    \/ \E r \in Runners : OpenRunner(r) \/ KillRunner(r) \/ SettleWorkspace(r)
    \/ \E t \in Threads :
          \/ StartRequest(t) \/ TryNext(t) \/ AcquireRepository(t) \/ LockTimesOut(t)
          \/ ReserveCall(t) \/ LaunchProcess(t) \/ WorkerEdits(t) \/ WorkerExits(t)
          \/ SandboxFallback(t) \/ RestoreTruth(t) \/ RollBackAttempt(t)
          \/ FinaliseAttempt(t) \/ ReturnAnswer(t)

WorkersSpec == WorkersInit /\ [][WorkersNext]_workerVars

-----------------------------------------------------------------------------
\* The budget: whatever workers do to the ledger, however providers fail over
\* and controllers die and restart, no more worker processes are started than
\* the run allows, but for the launches a controller made the ledger forget by
\* putting its own old copy back; and only controllers that run at once do so.
\* A controller that dies before it could put a rewritten ledger back leaves
\* it rewritten.
LaunchesWithinBudget ==
    escaped \/ /\ launched <= MaxCalls + forgotten
               /\ forgotten > 0 => overlapped

\* What docs/ENFORCEMENT_MATRIX.md says of adapters at once: they "cannot
\* exceed the durable worker-call budget".  Each restores its own copy of the
\* ledger, so two controllers of one run can.
ConcurrentAdaptersWithinBudget == escaped \/ launched <= MaxCalls

\* When a call has its answer, the workspace holds nothing but the edits of
\* the process that gave it (none, when it was to read), on unchanged history:
\* no trace of another provider, of a failed attempt or of an earlier call.
AnswerAlone ==
    \A t \in Threads : ThreadAt(t, "answered") =>
        /\ ~workTree.moved
        /\ workTree.edits \subseteq {thread[t].proc}
        /\ thread[t].sandbox = "read-only" => workTree.edits = {}
=============================================================================
