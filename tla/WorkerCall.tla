----------------------------- MODULE WorkerCall -----------------------------
(***************************************************************************)
(* Orchestrator._call: how a controller gets one result out of disposable  *)
(* workers.  Several controller processes may hold the same run folder (an *)
(* old one still alive, a continuation, a second terminal); each of them   *)
(* runs the loop below over the shared records of JobStore, and may die at *)
(* any point and be started again with `run --continue`.                   *)
(***************************************************************************)
EXTENDS JobStore

CONSTANTS
    MaxWorkerAttempts,  \* orchestration.max_worker_attempts, 0: no limit
    Spec0,              \* the hash of the one specification this call has
    Tampering,          \* whether others may rewrite the artifact
    Crashes,            \* whether controllers may die
    DiskFails           \* whether saving a record may raise

ASSUME WorkerCallAssumption ==
    /\ IsFiniteSet(Procs)
    /\ MaxWorkerAttempts \in Nat
    /\ Spec0 \in Specs
    /\ Tampering \in BOOLEAN
    /\ Crashes \in BOOLEAN
    /\ DiskFails \in BOOLEAN

VARIABLE call   \* per process: where its _call stands

vars == <<storeVars, call>>

Errors == {"context", "safety", "budget", "other"}

PCs == {"idle", "load", "creating", "loaded", "loop", "begin", "beginning", "packet", "recording",
        "worker", "publish", "finish", "finishing", "close", "closing", "rejecting",
        "handle", "failing", "giveup", "givingup", "returned", "raised", "replaying"}

\* limit is the attempt count at which the loop stops; begun counts the
\* attempts of this call; error is the exception being handled; answer is
\* what the call returned.
Call == [pc : PCs, att : 0 .. MaxAttempts, result : Results \cup {None},
         limit : 0 .. MaxAttempts, begun : 0 .. MaxAttempts,
         error : Errors \cup {None}, answer : Results \cup {None}]

NoCall == [pc |-> "idle", att |-> 0, result |-> None, limit |-> 0, begun |-> 0,
           error |-> None, answer |-> None]

CallTypeOK == TypeOK /\ call \in [Procs -> Call]

CallInit == Init /\ call = [p \in Procs |-> NoCall]

At(p, pc) == call[p].pc = pc /\ pend[p] = Idle
Goto(p, pc) == call' = [call EXCEPT ![p].pc = pc]
Raise(p, e) == call' = [call EXCEPT ![p].pc = "handle", ![p].error = e]

Unlimited == MaxWorkerAttempts = 0
AttemptsLeft(p) == Unlimited \/ Cardinality(Present) < call[p].limit

\* The attempt this process's worker is working on: from the reservation to
\* the moment the job record is closed, or the attempt is given up.
Working(p) ==
    call[p].pc \in {"packet", "recording", "worker", "publish", "finish", "finishing"}
InCharge(p) == Working(p) \/ call[p].pc \in {"close", "closing"}

-----------------------------------------------------------------------------
StartCall(p) ==
    /\ At(p, "idle") \/ At(p, "returned") \/ At(p, "raised")
    /\ call' = [call EXCEPT ![p] = [NoCall EXCEPT !.pc = "load"]]
    /\ UNCHANGED storeVars

LoadJob(p) ==
    /\ At(p, "load")
    /\ \/ CreateOrLoadJob(p, Spec0) /\ Goto(p, "creating")
       \/ /\ lock = None
          /\ job.status # "absent"
          /\ Goto(p, IF job.status = "complete" THEN "replaying" ELSE "loaded")
          /\ UNCHANGED storeVars

\* completed_data: a result, or None when the job was or has to be reopened.
Replay(p) ==
    /\ At(p, "replaying")
    /\ \/ /\ CompletedData(p)
          /\ call' = IF ArtifactTrusted
                     THEN [call EXCEPT ![p].pc = "returned", ![p].answer = artifact[1]]
                     ELSE [call EXCEPT ![p].pc = "creating"]
       \/ /\ lock = None
          /\ job.status # "complete"
          /\ Goto(p, "loaded")
          /\ UNCHANGED storeVars

\* Bound: the loop starts only while attempt numbers are left for it, and for
\* one more attempt of each other process.
NumbersLeft == Cardinality(Present) + MaxWorkerAttempts + Cardinality(Procs) <= MaxAttempts + 1

\* Mutant: the limit is taken from the attempts at the start of every try.
SetLimit_Moving(p) ==
    /\ At(p, "loaded") \/ At(p, "loop")
    /\ NumbersLeft
    /\ call' = [call EXCEPT ![p].pc = "loop",
                            ![p].limit = Cardinality(Present) + MaxWorkerAttempts]
    /\ UNCHANGED storeVars
SetLimit(p) ==
    /\ At(p, "loaded")
    /\ NumbersLeft
    /\ call' = [call EXCEPT ![p].pc = "loop",
                            ![p].limit = Cardinality(Present) + MaxWorkerAttempts]
    /\ UNCHANGED storeVars

\* The loop's condition reads the attempts without the job's lock.
Loop(p) ==
    /\ At(p, "loop")
    /\ Goto(p, IF AttemptsLeft(p) THEN "begin" ELSE "raised")
    /\ UNCHANGED storeVars

\* begin_attempt stands outside the try: what it raises ends the call.
Begin(p) ==
    /\ At(p, "begin")
    /\ \/ /\ BeginAttempt(p)
          /\ call' = [call EXCEPT ![p].pc = "beginning", ![p].att = pend'[p].att,
                                  ![p].begun = @ + 1]
       \/ /\ lock = None
          /\ ~BeginAllowed
          /\ Goto(p, "raised")
          /\ UNCHANGED storeVars

\* Compile the packet and record it, then run the worker.
Packet(p) ==
    /\ At(p, "packet")
    /\ \/ RecordPacket(p, call[p].att) /\ Goto(p, "recording")
       \/ lock = None /\ ~Active(call[p].att) /\ Raise(p, "safety") /\ UNCHANGED storeVars

\* The adapter returned a result and the validator passed it.
WorkerAnswers(p) ==
    /\ At(p, "worker")
    /\ \E r \in Results :
          call' = [call EXCEPT ![p].pc = "publish", ![p].result = r]
    /\ UNCHANGED storeVars

PublishArtifact(p) ==
    /\ At(p, "publish")
    /\ \E f \in Forms : \/ WriteArtifact(<<call[p].result, f>>)
                        \/ artifact = <<call[p].result, f>> /\ UNCHANGED storeVars
    /\ Goto(p, "finish")

Finish(p) ==
    /\ At(p, "finish")
    /\ \/ CompleteAttempt(p, call[p].att, call[p].result) /\ Goto(p, "finishing")
       \/ lock = None /\ ~Active(call[p].att) /\ Raise(p, "safety") /\ UNCHANGED storeVars

Close(p) ==
    /\ At(p, "close")
    /\ \/ /\ CompleteJob(p, call[p].result)
          /\ Goto(p, IF Acceptable(call[p].result) THEN "closing" ELSE "rejecting")
       \/ /\ lock = None
          /\ ~Acceptable(call[p].result)
          /\ ~Recoverable
          /\ Raise(p, "safety")
          /\ UNCHANGED storeVars

\* Anything inside the try may raise: the compiler, the adapter, the
\* validator, the disk.
StepRaises(p) ==
    /\ Working(p) \/ call[p].pc = "close"
    /\ pend[p] = Idle
    /\ \E e \in Errors : Raise(p, e)
    /\ UNCHANGED storeVars

Handle(p) ==
    /\ At(p, "handle")
    /\ \/ FailAttempt(p, call[p].att) /\ Goto(p, "failing")
       \/ lock = None /\ ~Active(call[p].att) /\ Goto(p, "raised") /\ UNCHANGED storeVars

\* Mutant: closing the job waits until it is pending again.
GiveUp_Waits(p) ==
    /\ At(p, "giveup")
    /\ LET e == call[p].error
           last == ~Unlimited /\ Cardinality(Present) >= call[p].limit
       IN \/ e \in {"context", "safety"} /\ BlockJob(p) /\ Goto(p, "givingup")
          \/ (e = "budget" \/ (e = "other" /\ last)) /\ FailJob(p) /\ Goto(p, "givingup")
          \/ e = "other" /\ ~last /\ Goto(p, "loop") /\ UNCHANGED storeVars

\* The job's fate after a failed attempt: context and safety errors block it,
\* an exhausted budget or the last allowed attempt fails it, else try again.
GiveUp(p) ==
    /\ At(p, "giveup")
    /\ LET e == call[p].error
           last == ~Unlimited /\ Cardinality(Present) >= call[p].limit
       IN \/ e \in {"context", "safety"} /\ BlockJob(p) /\ Goto(p, "givingup")
          \/ (e = "budget" \/ (e = "other" /\ last)) /\ FailJob(p) /\ Goto(p, "givingup")
          \/ e = "other" /\ ~last /\ Goto(p, "loop") /\ UNCHANGED storeVars
          \/ /\ e # "other" \/ last
             /\ lock = None
             /\ job.status # "pending"
             /\ Goto(p, "raised")
             /\ UNCHANGED storeVars

\* Where a call stands once its operation has saved everything it owes.
After == [creating |-> "loaded", beginning |-> "packet", recording |-> "worker",
          finishing |-> "close", closing |-> "returned", rejecting |-> "handle",
          failing |-> "giveup", givingup |-> "raised"]

Save(p) ==
    /\ WriteAttempt(p) \/ WriteJob(p)
    /\ call' = IF pend'[p] # Idle THEN call
               ELSE [call EXCEPT ![p].pc = After[@],
                                 ![p].error = IF call[p].pc = "rejecting" THEN "safety" ELSE @,
                                 ![p].answer = IF call[p].pc = "closing"
                                               THEN call[p].result ELSE @]

\* A write raises: inside the try it is one more error to handle.
SaveFails(p) ==
    /\ DiskFails
    /\ WriteFails(p)
    /\ IF call[p].pc \in {"recording", "finishing", "closing", "rejecting"}
       THEN Raise(p, "other")
       ELSE Goto(p, "raised")

\* The controller dies, or is interrupted (KeyboardInterrupt passes every
\* handler of _call): its records stay as they are.
Die(p) ==
    /\ Crashes
    /\ call[p].pc \notin {"idle", "returned", "raised"}
    /\ call' = [call EXCEPT ![p] = NoCall]
    /\ Crash(p) \/ (pend[p] = Idle /\ UNCHANGED storeVars)

Tamper ==
    /\ Tampering
    /\ \E c \in Content \cup {None} : WriteArtifact(c)
    /\ UNCHANGED call

Step(p) ==
    \/ LoadJob(p) \/ Replay(p) \/ SetLimit(p) \/ Loop(p) \/ Begin(p)
    \/ Packet(p) \/ WorkerAnswers(p) \/ PublishArtifact(p) \/ Finish(p) \/ Close(p)
    \/ Handle(p) \/ GiveUp(p) \/ Save(p)

CallNext ==
    \/ \E p \in Procs : StartCall(p) \/ Step(p) \/ StepRaises(p) \/ SaveFails(p) \/ Die(p)
    \/ Tamper

CallSpec == CallInit /\ [][CallNext]_vars

\* The operating system keeps scheduling a live controller, the lock is polled
\* until it is free (and nobody holds it for longer than a few file writes),
\* and a worker is killed at agent.timeout_seconds, so it answers or raises.
FairSpec == CallSpec /\ \A p \in Procs : SF_vars(Step(p))

-----------------------------------------------------------------------------
\* However many controllers share the run, one worker at a time works on the
\* job: a second controller is refused until the first gave its attempt up.
OneWorker == \A p, q \in Procs : InCharge(p) /\ InCharge(q) => p = q

\* The attempt a live worker works on is the one running attempt on disk;
\* nobody else closes, fails or replaces it under the worker.
WorkerOwnsAttempt ==
    \A p \in Procs : Working(p) => Running = {call[p].att} /\ job.status = "running"

\* Whatever happened to the artifact in between, a call only ever answers with
\* a result that some attempt of the job completed with.
AnswerIsAttempted ==
    \A p \in Procs : call[p].answer # None =>
        \E a \in Present : /\ attempts[a].status = "complete"
                           /\ attempts[a].result = call[p].answer

\* One call starts no more attempts than max_worker_attempts, also when other
\* controllers start attempts of the same job between its check and its start
\* (0 is no limit).  It counts the attempts on disk, so it needs DiskFails to be
\* FALSE: another controller's begin_attempt withdraws its attempt when saving
\* the job raises.
AttemptBudget == \A p \in Procs : Unlimited \/ call[p].begun <= MaxWorkerAttempts

\* With an attempt limit, a call that has reached its loop comes to an end: no
\* order of two controllers' steps keeps one waiting or both retrying.
CallEnds ==
    \A p \in Procs : call[p].pc = "loop" ~> call[p].pc \in {"returned", "raised"}

\* docs/RECOVERY.md: a continuation gives unfinished jobs a clean new attempt.
\* With no controller left alive, a job that is not complete can begin one.
UnfinishedJobCanBegin ==
    (\A p \in Procs : call[p].pc \in {"idle", "returned", "raised"})
    /\ job.status \notin {"absent", "complete"}
        => BeginAllowed
=============================================================================
