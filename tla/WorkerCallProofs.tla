-------------------------- MODULE WorkerCallProofs --------------------------
(***************************************************************************)
(* The safety properties of WorkerCall, proved for every number of         *)
(* controllers, attempts and results, with crashes, failing saves and      *)
(* rewritten artifacts.                                                    *)
(*                                                                         *)
(* None of them is inductive.  The store only promises what JobStore proves*)
(* (IInv); what one call may assume of it holds because no other call can  *)
(* touch the attempt this one began.  So the invariant says which attempt a*)
(* call owns (Own), that no two calls own the same one (Apart), and that a *)
(* call waits at a saving place exactly while its operation owes a write   *)
(* (PendMatches).  The attempt limit needs a second one, BudgetInv.        *)
(***************************************************************************)
EXTENDS WorkerCall, JobStoreProofs, FiniteSetTheorems

-----------------------------------------------------------------------------
\* The operation a process is inside of is the one its call has started.
PendMatch(p) ==
    /\ call[p].pc = "creating" <=> pend[p].op \in {"create", "retract"}
    /\ call[p].pc = "beginning" <=> pend[p].op = "begin"
    /\ call[p].pc = "recording" <=> pend[p].op = "packet"
    /\ call[p].pc = "finishing" <=> pend[p].op = "finish"
    /\ call[p].pc = "closing" <=> pend[p].op = "complete"
    /\ call[p].pc = "rejecting" <=> pend[p].op = "reject"
    /\ call[p].pc = "failing" <=> pend[p].op = "fail"
    /\ call[p].pc = "givingup" <=> pend[p].op \in {"failjob", "block"}

PendMatches == \A p \in Procs : PendMatch(p)

\* From its reservation to the moment its failure is dealt with, a call may
\* still act on the attempt it began.
Owns(p) ==
    \/ InCharge(p)
    \/ call[p].pc \in {"beginning", "rejecting", "handle", "failing"}

\* The stretches in which the job is running on disk because of p's attempt.
Holds(p) == InCharge(p) \/ call[p].pc \in {"rejecting", "failing"}

\* What p's call knows about its own attempt and about the job.
Own(p) ==
    /\ Owns(p) => call[p].att \in AttemptIds
    /\ call[p].pc \in {"beginning", "recording", "finishing", "failing"} => pend[p].att = call[p].att
    /\ Owns(p) /\ call[p].pc # "beginning" => call[p].att \in Present
    /\ Holds(p) => job.status = "running"
    /\ Working(p) => Running = {call[p].att}
    /\ call[p].pc \in {"close", "closing", "rejecting"} => Running = {}
    /\ call[p].pc \in {"publish", "finish", "finishing", "close", "closing", "rejecting"} =>
          call[p].result \in Results
    /\ call[p].pc = "finishing" => pend[p].rec.result = call[p].result
    /\ call[p].pc \in {"close", "closing"} => /\ attempts[call[p].att].status = "complete"
                                             /\ attempts[call[p].att].result = call[p].result
    /\ call[p].pc = "closing" => pend[p].job.result = call[p].result
    /\ pend[p].op = "retract" => job.status = "complete"
    /\ call[p].pc = "givingup" => job.status = "pending"

OwnInv == \A p \in Procs : Own(p)

\* No two calls ever act on the same attempt, and only one holds the job.
Apart ==
    \A p, q \in Procs : p # q =>
        /\ Owns(p) /\ Owns(q) => call[p].att # call[q].att
        /\ ~(Holds(p) /\ Holds(q))

\* What the job or a call hands out is some attempt's result.
Attempted(r) == \E a \in Present : attempts[a].status = "complete" /\ attempts[a].result = r
ResultAttempted == job.status = "complete" => Attempted(job.result)

AnswerOK(p) == call[p].answer # None => Attempted(call[p].answer)

CallRest == PendMatches /\ OwnInv /\ Apart /\ ResultAttempted /\ AnswerIsAttempted

\* The attempts whose begin_attempt has saved all it owed: none of them is
\* withdrawn any more.
Settled == {a \in Present : \A q \in Procs : pend[q].op = "begin" => pend[q].att # a}

\* A call has begun no more attempts than are on disk for good.
BegunInv ==
    \A p \in Procs :
        /\ call[p].pc = "beginning" => call[p].begun <= Cardinality(Settled) + 1
        /\ call[p].pc \notin {"beginning", "raised"} => call[p].begun <= Cardinality(Settled)

\* The inductive invariant: the store's own, and what the calls add to it.
CallIInv == IInv /\ CallTypeOK /\ CallRest /\ BegunInv

\* Places of a call before its loop, and after its end.
BeforeLoop == {"load", "creating", "replaying", "loaded"}
Over == {"idle", "returned", "raised"}

\* What p's call has begun and may still begin, counted in attempts on disk.
BudgetOK(p) ==
    /\ call[p].begun <= MaxWorkerAttempts
    /\ call[p].pc \in BeforeLoop => call[p].begun = 0
    /\ call[p].pc = "begin" => call[p].begun < MaxWorkerAttempts
    /\ call[p].pc \notin BeforeLoop \cup Over =>
          call[p].begun + call[p].limit <=
              MaxWorkerAttempts + Cardinality(Present)
                  + (IF pend[p].op = "begin" /\ ~pend[p].wrote THEN 1 ELSE 0)

\* Without a limit there is nothing to keep.
BudgetInv == ~Unlimited => \A p \in Procs : BudgetOK(p)
-----------------------------------------------------------------------------
\* A call step is a step of the records it works on, or leaves them alone.

\* Starting, handling and ending an operation is an Operation of the store.
LEMMA CallOperates ==
    ASSUME OwnInv, NEW p \in Procs,
           \/ LoadJob(p) \/ Replay(p) \/ Begin(p) \/ Packet(p) \/ Finish(p) \/ Close(p)
           \/ Handle(p) \/ GiveUp(p)
    PROVE  Operation(p) \/ UNCHANGED storeVars
<1> USE WorkerCallAssumption
<1>1. CASE LoadJob(p) \/ Replay(p)
  BY <1>1 DEF LoadJob, Replay, Operation
<1>2. CASE Begin(p) \/ GiveUp(p)
  BY <1>2 DEF Begin, GiveUp, Operation
<1>3. CASE Packet(p) \/ Handle(p)
  <2>1. call[p].att \in AttemptIds
    BY <1>3 DEF Packet, Handle, At, OwnInv, Own, Owns, InCharge, Working
  <2> QED
    BY <1>3, <2>1 DEF Packet, Handle, Operation
<1>4. CASE Finish(p) \/ Close(p)
  <2>1. call[p].att \in AttemptIds /\ call[p].result \in Results
    BY <1>4 DEF Finish, Close, At, OwnInv, Own, Owns, InCharge, Working
  <2> QED
    BY <1>4, <2>1 DEF Finish, Close, Operation
<1> QED
  BY <1>1, <1>2, <1>3, <1>4

\* Every step of every call keeps to the operations JobStore offers.
LEMMA CallStepIsStoreStep ==
    ASSUME OwnInv, CallNext
    PROVE  [Next]_storeVars
<1>1. ASSUME NEW p \in Procs, StartCall(p) \/ SetLimit(p) \/ Loop(p) \/ WorkerAnswers(p) \/ StepRaises(p)
      PROVE  UNCHANGED storeVars
  BY <1>1 DEF StartCall, SetLimit, Loop, WorkerAnswers, StepRaises
<1>2. ASSUME NEW p \in Procs, PublishArtifact(p)
      PROVE  [Next]_storeVars
  <2>1. call[p].result \in Results
    BY <1>2 DEF PublishArtifact, At, OwnInv, Own
  <2>2. \A f \in Forms : <<call[p].result, f>> \in Content
    BY <2>1 DEF Content
  <2> QED
    BY <1>2, <2>2 DEF PublishArtifact, Next
<1>3. ASSUME NEW p \in Procs, Save(p) \/ SaveFails(p) \/ Die(p)
      PROVE  [Next]_storeVars
  BY <1>3 DEF Save, SaveFails, Die, Next
<1>4. ASSUME Tamper
      PROVE  [Next]_storeVars
  BY <1>4 DEF Tamper, Next
<1> QED
  BY CallOperates, <1>1, <1>2, <1>3, <1>4 DEF CallNext, Step, Next
-----------------------------------------------------------------------------
\* Where a call goes on when its operation has saved everything.
LEMMA AfterSave ==
    /\ After["creating"] = "loaded"
    /\ After["beginning"] = "packet"
    /\ After["recording"] = "worker"
    /\ After["finishing"] = "close"
    /\ After["closing"] = "returned"
    /\ After["rejecting"] = "handle"
    /\ After["failing"] = "giveup"
    /\ After["givingup"] = "raised"
BY DEF After

\* The places at which a call waits for its operation to save.
Owing == {"creating", "beginning", "recording", "finishing", "closing", "rejecting", "failing", "givingup"}

\* A call is in one of the saving places exactly while its operation owes a write.
LEMMA OwesWhileSaving ==
    ASSUME IInv, PendMatches, NEW p \in Procs
    PROVE  /\ pend[p] # Idle <=> call[p].pc \in Owing
           /\ pend[p].op # "idle" <=> call[p].pc \in Owing
<1>1. CASE pend[p] = Idle
  BY <1>1 DEF PendMatches, PendMatch, Owing, Idle
<1>2. CASE pend[p] # Idle
  <2>1. PendOK(pend[p])
    BY <1>2 DEF IInv, PendInv
  <2>2. pend[p].op \in Ops
    BY <2>1 DEF PendOK, BeginPend, AttemptPend, FailPend, ClosePend, CreatePend, OtherPend, Ops
  <2> QED
    BY <1>2, <2>2 DEF PendMatches, PendMatch, Owing, Ops
<1> QED
  BY <1>1, <1>2

\* There are no more attempts than attempt numbers.
LEMMA AttemptsFinite ==
    \A S \in SUBSET AttemptIds : /\ IsFiniteSet(S) /\ Cardinality(S) \in Nat
                                 /\ \A T \in SUBSET S : Cardinality(T) <= Cardinality(S)
<1>1. IsFiniteSet(AttemptIds)
  BY FS_Interval, JobStoreAssumption DEF AttemptIds
<1> QED
  BY <1>1, FS_Subset, FS_CardinalityType

\* Settled attempts are present.
LEMMA SettledPresent ==
    /\ Settled \subseteq Present /\ Present \subseteq AttemptIds
    /\ Cardinality(Present) \in Nat /\ Cardinality(Settled) \in Nat
    /\ Cardinality(Settled) <= Cardinality(Present)
<1>1. Settled \subseteq Present /\ Present \subseteq AttemptIds
  BY DEF Settled, Present
<1> QED
  BY <1>1, AttemptsFinite

\* No call knows an attempt number beyond the last one there can be.
LEMMA BegunBound ==
    ASSUME CallIInv, NEW p \in Procs, BeginAttempt(p), call[p].pc = "begin"
    PROVE  call[p].begun + 1 \in 0 .. MaxAttempts
<1>1. PICK n \in AttemptIds : FreeNumber(n)
  BY DEF BeginAttempt
<1>2. Cardinality(Present) + 1 <= MaxAttempts
  BY <1>1, SettledPresent, JobStoreAssumption DEF FreeNumber, AttemptIds
<1>3. call[p].begun \in 0 .. MaxAttempts /\ call[p].begun <= Cardinality(Settled)
  BY DEF CallIInv, CallTypeOK, Call, BegunInv
<1> QED
  BY <1>2, <1>3, SettledPresent, JobStoreAssumption

\* Each step of a call keeps its record typed.
LEMMA CallTyped ==
    ASSUME CallIInv, CallNext
    PROVE  call' \in [Procs -> Call]
<1> USE WorkerCallAssumption, JobStoreAssumption
<1>a. call \in [Procs -> Call] /\ \A p \in Procs : call[p] \in Call
  BY DEF CallIInv, CallTypeOK
<1>1. ASSUME NEW p \in Procs, StartCall(p)
      PROVE  call' \in [Procs -> Call]
  <2>1. [NoCall EXCEPT !.pc = "load"] \in Call
    BY DEF NoCall, Call, PCs
  <2> QED
    BY <1>1, <1>a, <2>1 DEF StartCall
<1>2. ASSUME NEW p \in Procs, NEW pc \in PCs, Goto(p, pc)
      PROVE  call' \in [Procs -> Call]
  BY <1>2, <1>a DEF Goto, Call
<1>3. ASSUME NEW p \in Procs, NEW e \in Errors, Raise(p, e)
      PROVE  call' \in [Procs -> Call]
  <2>1. [call[p] EXCEPT !.pc = "handle", !.error = e] \in Call
    BY <1>a DEF Call, PCs
  <2>2. call' = [call EXCEPT ![p] = [call[p] EXCEPT !.pc = "handle", !.error = e]]
    BY <1>3, <1>a DEF Raise, Call
  <2> QED
    BY <1>a, <2>1, <2>2
<1>4. ASSUME NEW p \in Procs, Replay(p)
      PROVE  call' \in [Procs -> Call]
  <2>1. CASE Goto(p, "loaded")
    BY <1>2, <2>1 DEF PCs
  <2>2. CASE ArtifactTrusted /\ call' = [call EXCEPT ![p].pc = "returned", ![p].answer = artifact[1]]
    <3>1. artifact[1] \in Results
      BY <2>2 DEF CallIInv, IInv, TypeOK, Job, Content, ArtifactTrusted
    <3>2. [call[p] EXCEPT !.pc = "returned", !.answer = artifact[1]] \in Call
      BY <1>a, <3>1 DEF Call, PCs
    <3>3. call' = [call EXCEPT ![p] = [call[p] EXCEPT !.pc = "returned", !.answer = artifact[1]]]
      BY <2>2, <1>a DEF Call
    <3> QED
      BY <1>a, <3>2, <3>3
  <2>3. CASE call' = [call EXCEPT ![p].pc = "creating"]
    BY <1>a, <2>3 DEF Call, PCs
  <2> QED
    BY <1>4, <2>1, <2>2, <2>3 DEF Replay
<1>5. ASSUME NEW p \in Procs, SetLimit(p)
      PROVE  call' \in [Procs -> Call]
  <2>1. Cardinality(Present) \in Nat
    BY SettledPresent
  <2>2. Cardinality(Procs) \in Nat \ {0}
    BY FS_CardinalityType, FS_EmptySet
  <2>3. Cardinality(Present) + MaxWorkerAttempts \in 0 .. MaxAttempts
    BY <1>5, <2>1, <2>2 DEF SetLimit, NumbersLeft
  <2> DEFINE c == [call[p] EXCEPT !.pc = "loop", !.limit = Cardinality(Present) + MaxWorkerAttempts]
  <2>4. c \in Call
    BY <1>a, <2>3 DEF Call, PCs
  <2>5. call' = [call EXCEPT ![p] = c]
    BY <1>5, <1>a DEF SetLimit, Call
  <2> QED
    BY <1>a, <2>4, <2>5
<1>6. ASSUME NEW p \in Procs, Begin(p)
      PROVE  call' \in [Procs -> Call]
  <2>1. CASE /\ BeginAttempt(p)
             /\ call' = [call EXCEPT ![p].pc = "beginning", ![p].att = pend'[p].att, ![p].begun = @ + 1]
    <3>1. call[p].begun + 1 \in 0 .. MaxAttempts
      BY <1>6, <2>1, BegunBound DEF Begin, At
    <3>2. pend'[p].att \in 0 .. MaxAttempts
      BY <2>1, OperationTyped DEF Operation, CallIInv, CallTypeOK, TypeOK, Pending
    <3> QED
      BY <1>a, <2>1, <3>1, <3>2 DEF Call, PCs
  <2> QED
    BY <1>2, <1>6, <2>1 DEF Begin, PCs
<1>7. ASSUME NEW p \in Procs, WorkerAnswers(p)
      PROVE  call' \in [Procs -> Call]
  <2>1. PICK r \in Results : call' = [call EXCEPT ![p].pc = "publish", ![p].result = r]
    BY <1>7 DEF WorkerAnswers
  <2>2. [call[p] EXCEPT !.pc = "publish", !.result = r] \in Call
    BY <1>a DEF Call, PCs
  <2>3. call' = [call EXCEPT ![p] = [call[p] EXCEPT !.pc = "publish", !.result = r]]
    BY <1>a, <2>1 DEF Call
  <2> QED
    BY <1>a, <2>2, <2>3
<1>8. ASSUME NEW p \in Procs, Save(p)
      PROVE  call' \in [Procs -> Call]
  <2>1. call[p].pc \in Owing
    BY <1>8, OwesWhileSaving DEF CallIInv, CallRest, Save, WriteAttempt, WriteJob, Idle
  <2>2. After[call[p].pc] \in PCs
    BY <2>1, AfterSave DEF Owing, PCs
  <2> DEFINE e == IF call[p].pc = "rejecting" THEN "safety" ELSE call[p].error
             r == IF call[p].pc = "closing" THEN call[p].result ELSE call[p].answer
             c == [call[p] EXCEPT !.pc = After[call[p].pc], !.error = e, !.answer = r]
  <2>3. e \in Errors \cup {None} /\ r \in Results \cup {None}
    BY <1>a DEF Call, Errors
  <2>4. c \in Call
    <3> HIDE DEF e, r
    <3> QED
      BY <1>a, <2>2, <2>3 DEF Call
  <2>5. call' = call \/ call' = [call EXCEPT ![p] = c]
    BY <1>8, <1>a DEF Save, Call
  <2> QED
    BY <1>a, <2>4, <2>5
<1>9. ASSUME NEW p \in Procs, Die(p)
      PROVE  call' \in [Procs -> Call]
  <2>1. NoCall \in Call
    BY DEF NoCall, Call, PCs
  <2> QED
    BY <1>9, <1>a, <2>1 DEF Die
<1>10. ASSUME NEW p \in Procs, LoadJob(p) \/ Loop(p) \/ PublishArtifact(p)
       PROVE  call' \in [Procs -> Call]
  BY <1>2, <1>10 DEF LoadJob, Loop, PublishArtifact, PCs
<1>11. ASSUME NEW p \in Procs, Packet(p) \/ Finish(p) \/ Close(p) \/ Handle(p)
       PROVE  call' \in [Procs -> Call]
  BY <1>2, <1>3, <1>11 DEF Packet, Finish, Close, Handle, PCs, Errors
<1>12. ASSUME NEW p \in Procs, StepRaises(p) \/ SaveFails(p) \/ GiveUp(p)
       PROVE  call' \in [Procs -> Call]
  BY <1>2, <1>3, <1>12 DEF StepRaises, SaveFails, GiveUp, PCs, Errors
<1>13. CASE Tamper
  BY <1>13, <1>a DEF Tamper
<1> QED
  BY <1>1, <1>4, <1>5, <1>6, <1>7, <1>8, <1>9, <1>10, <1>11, <1>12, <1>13 DEF CallNext, Step
-----------------------------------------------------------------------------
\* Whose step it is, the records of the other calls are not touched.
LEMMA OthersCalls ==
    ASSUME CallTypeOK, NEW p \in Procs,
           StartCall(p) \/ Step(p) \/ StepRaises(p) \/ SaveFails(p) \/ Die(p)
    PROVE  \A q \in Procs \ {p} : call'[q] = call[q]
<1> USE DEF CallTypeOK, Goto, Raise
<1>1. CASE StartCall(p) \/ StepRaises(p) \/ SaveFails(p) \/ Die(p)
  BY <1>1 DEF StartCall, StepRaises, SaveFails, Die
<1>2. CASE LoadJob(p) \/ Replay(p) \/ SetLimit(p) \/ Loop(p) \/ Begin(p)
  BY <1>2 DEF LoadJob, Replay, SetLimit, Loop, Begin
<1>3. CASE Packet(p) \/ WorkerAnswers(p) \/ PublishArtifact(p) \/ Finish(p) \/ Close(p)
  BY <1>3 DEF Packet, WorkerAnswers, PublishArtifact, Finish, Close
<1>4. CASE Handle(p) \/ GiveUp(p) \/ Save(p)
  BY <1>4 DEF Handle, GiveUp, Save
<1> QED
  BY <1>1, <1>2, <1>3, <1>4 DEF Step

\* What the invariant says of the calls holds again after a step of p if it does
\* for p, did not stop to hold for the others, and p got hold neither of
\* another's attempt nor of a job that another holds.
LEMMA RestByParts ==
    ASSUME CallRest, NEW p \in Procs,
           \A q \in Procs \ {p} : /\ call'[q] = call[q]
                                  /\ PendMatch(q)' /\ Own(q)' /\ AnswerOK(q)',
           PendMatch(p)', Own(p)', AnswerOK(p)', ResultAttempted',
           Owns(p)' => \A q \in Procs \ {p} : Owns(q) => call'[p].att # call[q].att,
           Holds(p)' => \A q \in Procs \ {p} : ~Holds(q)
    PROVE  CallRest'
<1>1. \A q \in Procs \ {p} : (Owns(q)' <=> Owns(q)) /\ (Holds(q)' <=> Holds(q))
  BY DEF Owns, Holds, InCharge, Working
<1>2. PendMatches' /\ OwnInv' /\ AnswerIsAttempted'
  BY DEF PendMatches, OwnInv, AnswerIsAttempted, AnswerOK, Attempted
<1>3. Apart'
  BY <1>1 DEF CallRest, Apart
<1> QED
  BY <1>2, <1>3 DEF CallRest

\* While job and attempts stay as they are, so does what the others know of them.
LEMMA SteadyOthers ==
    ASSUME CallRest, NEW p \in Procs, job' = job, attempts' = attempts,
           \A q \in Procs \ {p} : call'[q] = call[q] /\ pend'[q] = pend[q],
           PendMatch(p)', Own(p)', AnswerOK(p)',
           Owns(p)' => \A q \in Procs \ {p} : Owns(q) => call'[p].att # call[q].att,
           Holds(p)' => \A q \in Procs \ {p} : ~Holds(q)
    PROVE  CallRest'
<1>1. Running' = Running /\ Present' = Present
  BY StableAttempts
<1>2. ASSUME NEW q \in Procs \ {p}
      PROVE  PendMatch(q)' /\ Own(q)' /\ AnswerOK(q)'
  <2>1. PendMatch(q)'
    BY DEF PendMatch, PendMatches, CallRest
  <2>2. Own(q)'
    BY <1>1 DEF Own, OwnInv, CallRest, Owns, Holds, InCharge, Working
  <2>3. AnswerOK(q)'
    BY <1>1 DEF AnswerOK, AnswerIsAttempted, CallRest, Attempted
  <2> QED
    BY <2>1, <2>2, <2>3
<1>3. ResultAttempted'
  BY <1>1 DEF CallRest, ResultAttempted, Attempted
<1> QED
  BY <1>2, <1>3, RestByParts

\* A step of p's own, between its operations: nothing is decided or saved, and p
\* keeps at most the attempt and the job it had.
LEMMA QuietRest ==
    ASSUME CallIInv, NEW p \in Procs, job' = job, attempts' = attempts, pend' = pend,
           \A q \in Procs \ {p} : call'[q] = call[q],
           call[p].pc \notin Owing, call'[p].pc \notin Owing,
           Own(p)',
           call'[p].answer \in {None, call[p].answer} \/ Attempted(call'[p].answer),
           Owns(p)' => Owns(p) /\ call'[p].att = call[p].att,
           Holds(p)' => Holds(p)
    PROVE  CallRest'
<1>1. PendMatch(p)'
  BY DEF PendMatch, Owing, CallIInv, CallRest, PendMatches
<1>2. AnswerOK(p)'
  BY StableAttempts DEF AnswerOK, CallIInv, CallRest, AnswerIsAttempted, Attempted
<1> QED
  BY <1>1, <1>2, SteadyOthers DEF CallIInv, CallRest, Apart

\* A step of p that enters an operation of the store.
LEMMA EnteringRest ==
    ASSUME CallIInv, NEW p \in Procs, Operation(p), pend'[p] # Idle, TypeOK',
           \A q \in Procs \ {p} : call'[q] = call[q],
           PendMatch(p)', Own(p)', call'[p].answer = call[p].answer,
           Owns(p)' => \A q \in Procs \ {p} : Owns(q) => call'[p].att # call[q].att,
           Holds(p)' => \A q \in Procs \ {p} : ~Holds(q)
    PROVE  CallRest'
<1>1. job' = job /\ attempts' = attempts
  BY OperationSavesNothing
<1>2. \A q \in Procs \ {p} : pend'[q] = pend[q]
  BY DEF CallIInv, IInv, TypeOK, Operation, CreateOrLoadJob, BeginAttempt, RecordPacket, FailAttempt,
         CompleteAttempt, CompleteJob, FailJob, BlockJob, CompletedData, Enter, EnterJob, EnterAttempt
<1>3. AnswerOK(p)'
  BY <1>1, StableAttempts DEF AnswerOK, CallIInv, CallRest, AnswerIsAttempted, Attempted
<1> QED
  BY <1>1, <1>2, <1>3, SteadyOthers DEF CallIInv
-----------------------------------------------------------------------------
\* The one operation that does not enter is completed_data handing its data out.
LEMMA OperationEnters ==
    ASSUME TypeOK, NEW p \in Procs, Operation(p), pend'[p] = Idle
    PROVE  CompletedData(p) /\ ArtifactTrusted
<1>a. ASSUME NEW op \in Ops, NEW a, NEW rec, NEW j, Enter(p, op, a, rec, j)
      PROVE  FALSE
  <2>1. pend'[p].op = op
    BY <1>a DEF Enter, TypeOK
  <2> QED
    BY <2>1 DEF Idle, Ops
<1>1. ASSUME NEW s \in Specs, CreateOrLoadJob(p, s)
      PROVE  FALSE
  BY <1>1, <1>a DEF CreateOrLoadJob, EnterJob, Ops
<1>2. ~BeginAttempt(p)
  BY <1>a DEF BeginAttempt, Ops
<1>3. ASSUME NEW a \in AttemptIds, NEW r \in Results,
             RecordPacket(p, a) \/ FailAttempt(p, a) \/ CompleteAttempt(p, a, r)
      PROVE  FALSE
  BY <1>3, <1>a DEF RecordPacket, FailAttempt, CompleteAttempt, EnterAttempt, Ops
<1>4. ASSUME NEW a \in AttemptIds, RecordPacket(p, a) \/ FailAttempt(p, a)
      PROVE  FALSE
  BY <1>4, <1>a DEF RecordPacket, FailAttempt, EnterAttempt, Ops
<1>5. ASSUME NEW r \in Results, CompleteJob(p, r)
      PROVE  FALSE
  BY <1>5, <1>a DEF CompleteJob, EnterJob, Ops
<1>6. ~FailJob(p) /\ ~BlockJob(p)
  BY <1>a DEF FailJob, BlockJob, EnterJob, Ops
<1>7. CompletedData(p) => ArtifactTrusted
  BY <1>a DEF CompletedData, EnterJob, Ops
<1> QED
  BY <1>1, <1>2, <1>3, <1>4, <1>5, <1>6, <1>7 DEF Operation

\* The steps of a call that change no record.
LEMMA QuietSteps ==
    ASSUME CallIInv, CallTypeOK', NEW p \in Procs, At(p, call[p].pc), pend' = pend,
           job' = job, attempts' = attempts,
           \/ StartCall(p) \/ LoadJob(p) \/ Replay(p) \/ SetLimit(p) \/ Loop(p) \/ Begin(p)
           \/ Packet(p) \/ WorkerAnswers(p) \/ PublishArtifact(p) \/ Finish(p) \/ Close(p)
           \/ StepRaises(p) \/ Handle(p) \/ GiveUp(p) \/ Die(p)
    PROVE  CallRest'
<1> USE DEF CallTypeOK, Call
<1>a. /\ pend[p] = Idle /\ pend'[p] = Idle /\ Running' = Running /\ Present' = Present
      /\ call \in [Procs -> Call] /\ call[p] \in Call /\ Own(p)
      /\ call[p].pc \notin Owing
  BY StableAttempts, OwesWhileSaving DEF At, CallIInv, CallRest, OwnInv
<1>b. \A q \in Procs \ {p} : call'[q] = call[q]
  BY OthersCalls DEF CallIInv, Step
<1>c. Idle.op = "idle"
  BY DEF Idle
<1>d. Operation(p) => CompletedData(p) /\ ArtifactTrusted
  BY <1>a, OperationEnters DEF CallIInv, IInv
<1>1. ASSUME NEW pc \in PCs \ Owing, Goto(p, pc),
             pc \in {"load", "loaded", "loop", "begin", "raised", "replaying"}
      PROVE  CallRest'
  <2>1. /\ call'[p].pc = pc /\ call'[p].att = call[p].att
        /\ call'[p].answer = call[p].answer
    BY <1>1, <1>a DEF Goto
  <2>2. ~Owns(p)' /\ ~Holds(p)'
    BY <1>1, <2>1 DEF Owns, Holds, InCharge, Working
  <2>3. Own(p)'
    BY <1>1, <1>a, <1>c, <2>1, <2>2 DEF Own, Working, Holds, InCharge
  <2> QED
    BY <1>1, <1>a, <1>b, <2>1, <2>2, <2>3, QuietRest DEF Owing
<1>2. ASSUME NEW e \in Errors, Raise(p, e), Owns(p)
      PROVE  CallRest'
  <2>1. /\ call'[p].pc = "handle" /\ call'[p].att = call[p].att
        /\ call'[p].answer = call[p].answer
    BY <1>2, <1>a DEF Raise
  <2>2. ~Holds(p)'
    BY <2>1 DEF Holds, InCharge, Working
  <2>3. Own(p)'
    BY <1>2, <1>a, <1>c, <2>1, <2>2 DEF Own, Owns, Working, Holds, InCharge, Owing
  <2> QED
    BY <1>2, <1>a, <1>b, <2>1, <2>2, <2>3, QuietRest DEF Owing
<1>3. CASE \/ call' = [call EXCEPT ![p] = NoCall]
           \/ call' = [call EXCEPT ![p] = [NoCall EXCEPT !.pc = "load"]]
  <2>1. call'[p].pc \in {"idle", "load"} /\ call'[p].answer = None
    BY <1>3, <1>a DEF NoCall
  <2>2. ~Owns(p)' /\ ~Holds(p)'
    BY <2>1 DEF Owns, Holds, InCharge, Working
  <2>3. Own(p)'
    BY <1>a, <1>c, <2>1, <2>2 DEF Own, Working, Holds, InCharge
  <2> QED
    BY <1>a, <1>b, <2>1, <2>2, <2>3, QuietRest DEF Owing
<1>4. CASE StartCall(p) \/ Die(p)
  BY <1>3, <1>4 DEF StartCall, Die
<1>5. CASE LoadJob(p)
  BY <1>1, <1>5, <1>d, WorkerCallAssumption DEF LoadJob, Operation, PCs, Owing, CompletedData, CreateOrLoadJob
<1>6. CASE Replay(p)
  <2>1. CASE Goto(p, "loaded")
    BY <1>1, <2>1 DEF PCs, Owing
  <2>2. CASE /\ CompletedData(p) /\ ArtifactTrusted
             /\ call' = [call EXCEPT ![p].pc = "returned", ![p].answer = artifact[1]]
    <3>1. call'[p].pc = "returned" /\ call'[p].answer = artifact[1]
      BY <2>2, <1>a
    <3>2. ~Owns(p)' /\ ~Holds(p)'
      BY <3>1 DEF Owns, Holds, InCharge, Working
    <3>3. Own(p)'
      BY <1>a, <1>c, <3>1, <3>2 DEF Own, Working, Holds, InCharge
    <3>4. Attempted(call'[p].answer)
      BY <2>2, <3>1 DEF CompletedData, ArtifactTrusted, CallIInv, CallRest, ResultAttempted
    <3> QED
      BY <1>a, <1>b, <3>1, <3>2, <3>3, <3>4, QuietRest DEF Owing
  <2> QED
    BY <1>6, <1>d, <2>1, <2>2 DEF Replay, Operation
<1>7. CASE SetLimit(p)
  <2>1. /\ call'[p].pc = "loop" /\ call'[p].att = call[p].att
        /\ call'[p].answer = call[p].answer
    BY <1>7, <1>a DEF SetLimit
  <2>2. ~Owns(p)' /\ ~Holds(p)'
    BY <2>1 DEF Owns, Holds, InCharge, Working
  <2>3. Own(p)'
    BY <1>a, <1>c, <2>1, <2>2 DEF Own, Working, Holds, InCharge
  <2> QED
    BY <1>a, <1>b, <2>1, <2>2, <2>3, QuietRest DEF Owing
<1>8. CASE Loop(p) \/ Begin(p)
  BY <1>1, <1>8, <1>d DEF Loop, Begin, Operation, PCs, Owing, BeginAttempt, CompletedData, BeginAllowed
<1>9. CASE WorkerAnswers(p)
  <2>1. PICK r \in Results : call' = [call EXCEPT ![p].pc = "publish", ![p].result = r]
    BY <1>9 DEF WorkerAnswers
  <2>2. /\ call'[p].pc = "publish" /\ call'[p].att = call[p].att /\ call'[p].result \in Results
        /\ call'[p].answer = call[p].answer /\ call[p].pc = "worker"
    BY <1>9, <1>a, <2>1 DEF WorkerAnswers, At
  <2>3. Own(p)' /\ (Owns(p)' => Owns(p)) /\ (Holds(p)' => Holds(p))
    BY <1>a, <1>c, <2>2 DEF Own, Owns, Working, Holds, InCharge
  <2> QED
    BY <1>a, <1>b, <2>2, <2>3, QuietRest DEF Owing
<1>10. CASE PublishArtifact(p)
  <2>1. /\ call'[p].pc = "finish" /\ call'[p].att = call[p].att /\ call'[p].result = call[p].result
        /\ call'[p].answer = call[p].answer /\ call[p].pc = "publish"
    BY <1>10, <1>a DEF PublishArtifact, At, Goto
  <2>2. Own(p)' /\ (Owns(p)' => Owns(p)) /\ (Holds(p)' => Holds(p))
    BY <1>a, <1>c, <2>1 DEF Own, Owns, Working, Holds, InCharge
  <2> QED
    BY <1>a, <1>b, <2>1, <2>2, QuietRest DEF Owing
<1>11. CASE StepRaises(p)
  BY <1>2, <1>11 DEF StepRaises, Owns, InCharge
<1>12. CASE Packet(p) \/ Finish(p) \/ Close(p)
  <2>1. Owns(p)
    BY <1>12 DEF Packet, Finish, Close, At, Owns, InCharge, Working
  <2>2. call[p].att \in AttemptIds /\ (call[p].pc \in {"finish", "close"} => call[p].result \in Results)
    BY <1>a, <2>1 DEF Own
  <2>3. \E e \in Errors : Raise(p, e)
    BY <1>12, <1>d, <2>2
       DEF Packet, Finish, Close, At, Operation, Errors, CompletedData, RecordPacket, CompleteAttempt, Active,
           CompleteJob, Acceptable, Recoverable
  <2> QED
    BY <1>2, <2>1, <2>3
<1>13. CASE Handle(p) \/ GiveUp(p)
  <2>1. CASE Goto(p, "raised") \/ Goto(p, "loop")
    BY <1>1, <2>1 DEF PCs, Owing
  <2>2. call[p].pc = "handle" => call[p].att \in AttemptIds
    BY <1>a DEF Own, Owns
  <2> QED
    BY <1>13, <1>d, <2>1, <2>2 DEF Handle, GiveUp, At, Operation, CompletedData, FailAttempt, Active, FailJob, BlockJob
<1> QED
  BY <1>4, <1>5, <1>6, <1>7, <1>8, <1>9, <1>10, <1>11, <1>12, <1>13
-----------------------------------------------------------------------------
\* The steps of a call that enter an operation of the store.
LEMMA EnteringSteps ==
    ASSUME CallIInv, CallTypeOK', NEW p \in Procs, pend'[p] # Idle, At(p, call[p].pc),
           \/ LoadJob(p) \/ Replay(p) \/ Begin(p) \/ Packet(p) \/ Finish(p) \/ Close(p)
           \/ Handle(p) \/ GiveUp(p)
    PROVE  CallRest'
<1> USE DEF CallTypeOK, Call
<1>a. /\ pend[p] = Idle
      /\ call \in [Procs -> Call] /\ call[p] \in Call /\ Own(p) /\ pend \in [Procs -> Pending]
      /\ TypeOK' /\ job \in Job
  BY DEF At, CallIInv, CallRest, OwnInv, IInv, TypeOK
<1>b. \A q \in Procs \ {p} : call'[q] = call[q]
  BY OthersCalls DEF CallIInv, Step
<1>c. ASSUME UNCHANGED storeVars
      PROVE  FALSE
  BY <1>a, <1>c DEF storeVars
<1>d. ASSUME Operation(p)
      PROVE  Running' = Running /\ Present' = Present /\ job' = job /\ attempts' = attempts
  BY <1>d, OperationSavesNothing, StableAttempts
<1>e. ASSUME NEW op \in Ops, NEW j, EnterJob(p, op, j)
      PROVE  pend'[p].op = op /\ pend'[p].job = j /\ pend'[p].att = 0
  BY <1>a, <1>e DEF EnterJob, Enter
<1>f. ASSUME NEW op \in Ops, NEW a, NEW rec, EnterAttempt(p, op, a, rec)
      PROVE  pend'[p].op = op /\ pend'[p].att = a /\ pend'[p].rec = rec
  BY <1>a, <1>f DEF EnterAttempt, Enter
<1>g. ASSUME NEW pc \in PCs, Goto(p, pc)
      PROVE  /\ call'[p].pc = pc /\ call'[p].att = call[p].att
             /\ call'[p].result = call[p].result /\ call'[p].answer = call[p].answer
  BY <1>a, <1>g DEF Goto
<1>h. \A q \in Procs \ {p} : Owns(p) /\ Owns(q) => call[p].att # call[q].att
  BY DEF CallIInv, CallRest, Apart
<1>i. \A q \in Procs \ {p} : Holds(p) => ~Holds(q)
  BY DEF CallIInv, CallRest, Apart
<1>1. CASE LoadJob(p) \/ Replay(p)
  <2>1. /\ Operation(p) /\ call'[p].pc = "creating" /\ call'[p].answer = call[p].answer
        /\ \/ pend'[p].op = "create"
           \/ pend'[p].op = "retract" /\ job.status = "complete"
    <3>1. CASE CreateOrLoadJob(p, Spec0) /\ Goto(p, "creating")
      BY <3>1, <1>e, <1>g, WorkerCallAssumption DEF CreateOrLoadJob, Operation, Ops, PCs
    <3>2. CASE CompletedData(p) /\ call' = [call EXCEPT ![p].pc = "creating"]
      <4>1. EnterJob(p, "retract", [job EXCEPT !.status = "pending"]) /\ job.status = "complete"
        BY <3>2, <1>a DEF CompletedData
      <4> QED
        BY <3>2, <4>1, <1>a, <1>e DEF Operation, Ops
    <3>3. ~(CompletedData(p) /\ ArtifactTrusted /\ UNCHANGED <<lock, pend>>)
      BY <1>a
    <3> QED
      BY <1>1, <1>c, <3>1, <3>2, <1>a DEF LoadJob, Replay, CompletedData
  <2>2. ~Owns(p)' /\ ~Holds(p)' /\ ~Working(p)'
    BY <2>1 DEF Owns, Holds, InCharge, Working
  <2>3. PendMatch(p)' /\ Own(p)'
    BY <1>d, <2>1, <2>2 DEF PendMatch, Own
  <2> QED
    BY <1>a, <1>b, <2>1, <2>2, <2>3, EnteringRest
<1>2. CASE Begin(p)
  <2>1. BeginAttempt(p) /\ call' = [call EXCEPT ![p].pc = "beginning", ![p].att = pend'[p].att, ![p].begun = @ + 1]
    BY <1>2, <1>c DEF Begin
  <2>2. PICK n \in AttemptIds : /\ FreeNumber(n)
                                /\ Enter(p, "begin", n, [NoAttempt EXCEPT !.status = "running"],
                                         [job EXCEPT !.status = "running"])
    BY <2>1 DEF BeginAttempt
  <2>3. pend'[p].op = "begin" /\ pend'[p].att = n
    BY <2>2, <1>a DEF Enter
  <2>4. call'[p].pc = "beginning" /\ call'[p].att = n /\ call'[p].answer = call[p].answer
    BY <2>1, <2>3, <1>a
  <2>5. n \notin Present
    BY <2>2 DEF FreeNumber, Taken
  <2>6. \A q \in Procs \ {p} : Owns(q) => call[q].att # n
    <3>1. \A q \in Procs : call[q].pc # "beginning"
      BY <2>1, Alone DEF BeginAttempt, CanEnter, CallIInv, IInv, CallRest, PendMatches, PendMatch, Idle
    <3> QED
      BY <2>5, <3>1 DEF CallIInv, CallRest, OwnInv, Own
  <2>7. ~Holds(p)' /\ ~Working(p)'
    BY <2>4 DEF Holds, InCharge, Working
  <2>8. PendMatch(p)' /\ Own(p)'
    BY <1>d, <2>3, <2>4, <2>7 DEF PendMatch, Own
  <2> QED
    BY <1>a, <1>b, <2>1, <2>4, <2>6, <2>7, <2>8, EnteringRest DEF Operation
<1>3. CASE Packet(p)
  <2>1. RecordPacket(p, call[p].att) /\ Goto(p, "recording")
    BY <1>3, <1>c DEF Packet
  <2>2. Operation(p) /\ Owns(p) /\ Holds(p) /\ Working(p)
    BY <2>1, <1>3, <1>a DEF Operation, Packet, At, Owns, Own, InCharge, Working, Holds
  <2>3. pend'[p].op = "packet" /\ pend'[p].att = call[p].att
    BY <2>1, <1>f DEF RecordPacket, Ops
  <2>4. PendMatch(p)' /\ Own(p)'
    BY <1>a, <1>d, <1>g, <2>1, <2>2, <2>3 DEF PendMatch, Own, Owns, InCharge, Working, Holds, PCs
  <2> QED
    BY <1>a, <1>b, <1>g, <1>h, <1>i, <2>1, <2>2, <2>4, EnteringRest DEF PCs
<1>4. CASE Finish(p)
  <2>1. CompleteAttempt(p, call[p].att, call[p].result) /\ Goto(p, "finishing")
    BY <1>4, <1>c DEF Finish
  <2>2. Operation(p) /\ Owns(p) /\ Holds(p) /\ Working(p) /\ call[p].result \in Results
    BY <2>1, <1>4, <1>a DEF Operation, Finish, At, Owns, Own, InCharge, Working, Holds
  <2>3. pend'[p].op = "finish" /\ pend'[p].att = call[p].att /\ pend'[p].rec.result = call[p].result
    <3>1. attempts[call[p].att] \in Attempt
      BY <1>a, <2>2 DEF Own, CallIInv, IInv, TypeOK
    <3>2. EnterAttempt(p, "finish", call[p].att,
                       [attempts[call[p].att] EXCEPT !.status = "complete", !.result = call[p].result])
      BY <2>1 DEF CompleteAttempt
    <3>3. /\ pend'[p].op = "finish" /\ pend'[p].att = call[p].att
          /\ pend'[p].rec = [attempts[call[p].att] EXCEPT !.status = "complete", !.result = call[p].result]
      BY <3>2, <1>f DEF Ops
    <3> QED
      BY <3>1, <3>3 DEF Attempt
  <2>4. PendMatch(p)' /\ Own(p)'
    BY <1>a, <1>d, <1>g, <2>1, <2>2, <2>3 DEF PendMatch, Own, Owns, InCharge, Working, Holds, PCs
  <2> QED
    BY <1>a, <1>b, <1>g, <1>h, <1>i, <2>1, <2>2, <2>4, EnteringRest DEF PCs
<1>5. CASE Close(p)
  <2>1. CompleteJob(p, call[p].result) /\ Goto(p, IF Acceptable(call[p].result) THEN "closing" ELSE "rejecting")
    BY <1>5, <1>c DEF Close
  <2>2. Operation(p) /\ Owns(p) /\ Holds(p) /\ call[p].pc = "close" /\ call[p].result \in Results
    BY <2>1, <1>5, <1>a DEF Operation, Close, At, Owns, Own, InCharge, Working, Holds
  <2>3. CASE Acceptable(call[p].result)
    <3>1. pend'[p].op = "complete" /\ pend'[p].job.result = call[p].result
      <4>1. EnterJob(p, "complete", [job EXCEPT !.status = "complete", !.artifact = artifact,
                                                !.result = call[p].result])
        BY <2>1, <2>3 DEF CompleteJob
      <4>2. /\ pend'[p].op = "complete"
            /\ pend'[p].job = [job EXCEPT !.status = "complete", !.artifact = artifact,
                                          !.result = call[p].result]
        BY <4>1, <1>e DEF Ops
      <4> QED
        BY <4>2, <1>a DEF Job
    <3>2. PendMatch(p)' /\ Own(p)'
      BY <1>a, <1>d, <1>g, <2>1, <2>2, <2>3, <3>1 DEF PendMatch, Own, Owns, InCharge, Working, Holds, PCs
    <3> QED
      BY <1>a, <1>b, <1>g, <1>h, <1>i, <2>1, <2>2, <2>3, <3>2, EnteringRest DEF PCs
  <2>4. CASE ~Acceptable(call[p].result)
    <3>1. pend'[p].op = "reject"
      BY <2>1, <2>4, <1>a, <1>e DEF CompleteJob, Ops
    <3>2. PendMatch(p)' /\ Own(p)'
      BY <1>a, <1>d, <1>g, <2>1, <2>2, <2>4, <3>1 DEF PendMatch, Own, Owns, InCharge, Working, Holds, PCs
    <3> QED
      BY <1>a, <1>b, <1>g, <1>h, <1>i, <2>1, <2>2, <2>4, <3>2, EnteringRest DEF PCs
  <2> QED
    BY <2>3, <2>4
<1>6. CASE Handle(p)
  <2>1. FailAttempt(p, call[p].att) /\ Goto(p, "failing")
    BY <1>6, <1>c DEF Handle
  <2>2. Operation(p) /\ Owns(p) /\ call[p].att \in AttemptIds /\ call[p].att \in Present
    BY <2>1, <1>6, <1>a DEF Operation, Handle, At, Owns, Own
  <2>7. /\ call'[p].pc = "failing" /\ call'[p].att = call[p].att
        /\ ~Working(p)'
    BY <2>1, <1>g DEF PCs, Working
  <2>3. pend'[p].op = "fail" /\ pend'[p].att = call[p].att
    BY <2>1, <1>a DEF FailAttempt, Enter
  <2>4. job.status = "running" /\ Running = {call[p].att}
    BY <2>1 DEF FailAttempt, Active
  <2>5. PendMatch(p)' /\ Own(p)'
    BY <1>d, <2>2, <2>3, <2>4, <2>7 DEF PendMatch, Own
  <2>6. \A q \in Procs \ {p} : ~Holds(q)
    <3>1. \A q \in Procs : call[q].pc # "failing"
      BY <2>1, Alone DEF FailAttempt, CanEnter, CallIInv, IInv, CallRest, PendMatches, PendMatch, Idle
    <3> QED
      BY <1>h, <2>2, <2>4, <3>1 DEF CallIInv, CallRest, OwnInv, Own, Holds, InCharge, Owns
  <2> QED
    BY <1>a, <1>b, <1>g, <1>h, <2>1, <2>2, <2>5, <2>6, EnteringRest DEF PCs
<1>7. CASE GiveUp(p)
  <2>1. (BlockJob(p) \/ FailJob(p)) /\ Goto(p, "givingup")
    BY <1>7, <1>c DEF GiveUp
  <2>2. Operation(p) /\ pend'[p].op \in {"failjob", "block"} /\ job.status = "pending"
    BY <2>1, <1>e DEF BlockJob, FailJob, Operation, Ops
  <2>3. call'[p].pc = "givingup" /\ call'[p].answer = call[p].answer
    BY <2>1, <1>g DEF PCs
  <2>4. ~Owns(p)' /\ ~Holds(p)' /\ ~Working(p)'
    BY <2>3 DEF Owns, Holds, InCharge, Working
  <2>5. PendMatch(p)' /\ Own(p)'
    BY <1>d, <2>2, <2>3, <2>4 DEF PendMatch, Own
  <2> QED
    BY <1>a, <1>b, <2>2, <2>3, <2>4, <2>5, EnteringRest
<1> QED
  BY <1>1, <1>2, <1>3, <1>4, <1>5, <1>6, <1>7
-----------------------------------------------------------------------------
\* A save of p finds no other call holding the job: p's own operation has just
\* seen that it is not running, or it is p that holds it.
LEMMA NoOtherHolds ==
    ASSUME CallIInv, NEW p \in Procs, pend[p] # Idle
    PROVE  \A q \in Procs \ {p} : ~Holds(q)
<1> SUFFICES ASSUME NEW q \in Procs \ {p}, Holds(q)
             PROVE  FALSE
  OBVIOUS
<1>1. job.status = "running" /\ ~Holds(p)
  BY DEF CallIInv, CallRest, OwnInv, Own, Apart
<1>2. PendOK(pend[p]) /\ PendMatch(p) /\ Own(p)
  BY Saver DEF CallIInv, CallRest, OwnInv, PendMatches
<1>3. call[p].pc \in {"creating", "beginning", "givingup"}
  BY <1>1, OwesWhileSaving DEF CallIInv, CallRest, Owing, Holds, InCharge, Working
<1> QED
  BY <1>1, <1>2, <1>3
     DEF PendOK, BeginPend, AttemptPend, FailPend, ClosePend, CreatePend, OtherPend, PendMatch, Own

\* A result an attempt has completed with stays such a result.
LEMMA AttemptedStays ==
    ASSUME IInv, [Next]_storeVars, NEW r, Attempted(r)
    PROVE  Attempted(r)'
<1>1. PICK a \in Present : attempts[a].status = "complete" /\ attempts[a].result = r
  BY DEF Attempted
<1>2. a \in AttemptIds /\ attempts'[a] = attempts[a]
  BY <1>1, FinishedStep DEF Present
<1> QED
  BY <1>1, <1>2 DEF Attempted, Present

\* What a step of p's operation does to the files.
LEMMA SaveEffect ==
    ASSUME CallIInv, NEW p \in Procs, pend[p] # Idle,
           WriteAttempt(p) \/ WriteJob(p) \/ WriteFails(p) \/ Crash(p)
    PROVE  /\ \A q \in Procs \ {p} : pend[q] = Idle /\ pend'[q] = Idle
           /\ \A a \in Present : a \in Present' \/ (pend[p].op = "begin" /\ a = pend[p].att)
<1>1. /\ pend[p] \in Pending /\ PendOK(pend[p])
      /\ \A q \in Procs \ {p} : pend[q] = Idle
      /\ pend \in [Procs -> Pending] /\ attempts \in [AttemptIds -> Attempt]
  BY Saver DEF CallIInv, IInv, TypeOK
<1>2. \A q \in Procs \ {p} : pend'[q] = pend[q]
  BY <1>1 DEF WriteAttempt, WriteJob, WriteFails, Crash, Release
<1>3. CASE WriteAttempt(p)
  <2>1. pend[p].rec.status # "absent"
    BY <1>1, <1>3 DEF WriteAttempt, PendOK, BeginPend, AttemptPend, FailPend, ClosePend, CreatePend, OtherPend
  <2>2. \A a \in Present : a \in Present'
    BY <1>1, <1>3, <2>1 DEF WriteAttempt, Present
  <2> QED
    BY <1>1, <1>2, <2>2
<1>4. CASE WriteJob(p) \/ Crash(p)
  BY <1>1, <1>2, <1>4 DEF WriteJob, Crash, Present
<1>5. CASE WriteFails(p)
  BY <1>1, <1>2, <1>5 DEF WriteFails, Present
<1> QED
  BY <1>3, <1>4, <1>5

\* What the other calls know survives a save of p.
LEMMA OthersSurviveSave ==
    ASSUME CallIInv, NEW p \in Procs, pend[p] # Idle,
           WriteAttempt(p) \/ WriteJob(p) \/ WriteFails(p) \/ Crash(p),
           \A q \in Procs \ {p} : call'[q] = call[q]
    PROVE  \A q \in Procs \ {p} : PendMatch(q)' /\ Own(q)' /\ AnswerOK(q)'
<1> SUFFICES ASSUME NEW q \in Procs \ {p}
             PROVE  PendMatch(q)' /\ Own(q)' /\ AnswerOK(q)'
  OBVIOUS
<1>1. call'[q] = call[q] /\ pend[q] = Idle /\ pend'[q] = Idle /\ call[q].pc \notin Owing
  BY SaveEffect, OwesWhileSaving DEF CallIInv, CallRest
<1>2. ~Holds(q) /\ Own(q)
  BY NoOtherHolds DEF CallIInv, CallRest, OwnInv
<1>3. PendMatch(q)'
  BY <1>1 DEF PendMatch, CallIInv, CallRest, PendMatches
<1>4. Owns(q) => call[q].att \in Present'
  <2>1. pend[p].op = "begin" => Owns(p) /\ pend[p].att = call[p].att
    BY DEF CallIInv, CallRest, PendMatches, PendMatch, OwnInv, Own, Owns
  <2>2. Owns(q) => call[q].att \in Present
    BY <1>1, <1>2 DEF Own, Owing
  <2> QED
    BY <2>1, <2>2, SaveEffect DEF CallIInv, CallRest, Apart
<1>5. Own(q)'
  BY <1>1, <1>2, <1>4 DEF Own, Owns, Holds, InCharge, Working, Owing, Idle
<1>6. AnswerOK(q)'
  BY <1>1, AttemptedStays DEF CallIInv, CallRest, AnswerIsAttempted, AnswerOK, Attempted, Next
<1> QED
  BY <1>3, <1>5, <1>6
-----------------------------------------------------------------------------
\* The saves of a call's operations.
LEMMA SaveRest ==
    ASSUME CallIInv, CallTypeOK', NEW p \in Procs, Save(p)
    PROVE  CallRest'
<1> DEFINE w == pend[p]  a == call[p].att  r == call[p].result
           AttemptedNow(x) == \E n \in Present' : attempts'[n].status = "complete" /\ attempts'[n].result = x
<1> USE DEF CallTypeOK, Call
<1>a. w # Idle
  BY DEF Save, WriteAttempt, WriteJob, Idle
<1>b. /\ w \in Pending /\ PendOK(w) /\ PendMatch(p) /\ Own(p) /\ call[p].pc \in Owing
      /\ call[p] \in Call /\ pend \in [Procs -> Pending]
      /\ attempts \in [AttemptIds -> Attempt] /\ call \in [Procs -> Call]
  BY <1>a, Saver, OwesWhileSaving DEF CallIInv, IInv, TypeOK, CallRest, OwnInv, PendMatches
<1>c. \A q \in Procs \ {p} : call'[q] = call[q]
  BY OthersCalls DEF CallIInv, Step
<1>d. \A q \in Procs \ {p} : PendMatch(q)' /\ Own(q)' /\ AnswerOK(q)' /\ ~Holds(q)
  BY <1>a, <1>c, OthersSurviveSave, NoOtherHolds DEF Save
<1>e. \A q \in Procs \ {p} : Owns(p) /\ Owns(q) => a # call[q].att
  BY DEF CallIInv, CallRest, Apart
<1>f. \A x : Attempted(x) => AttemptedNow(x)
  BY AttemptedStays DEF CallIInv, Save, Next, Attempted
<1>g. call[p].answer # None => Attempted(call[p].answer)
  BY DEF CallIInv, CallRest, AnswerIsAttempted, Attempted
<1>h. pend'[p] = Idle \/ pend'[p] = [w EXCEPT !.wrote = TRUE]
  BY <1>b DEF Save, WriteAttempt, WriteJob, Release
<1>i. Idle.op = "idle"
  BY DEF Idle
<1>j. WriteAttempt(p) => Running' = IF w.rec.status = "running" THEN Running \cup {w.att} ELSE Running \ {w.att}
  BY <1>b, JobStoreAssumption DEF WriteAttempt, Running, Pending, AttemptIds
<1>k. WriteJob(p) => Running' = Running /\ Present' = Present
  BY StableAttempts DEF WriteJob
<1>l. WriteAttempt(p) => job' = job /\ attempts' = [attempts EXCEPT ![w.att] = w.rec]
  BY DEF WriteAttempt
<1>m. WriteJob(p) => job' = w.job /\ attempts' = attempts /\ pend'[p] = Idle
  BY <1>b DEF WriteJob, Release
<1> HIDE DEF AttemptedNow
\* What changes of p's record when the operation is over, and when it is not.
<1>n. ASSUME pend'[p] # Idle
      PROVE  call' = call /\ pend'[p] = [w EXCEPT !.wrote = TRUE] /\ WriteAttempt(p) /\ w.job # NoJob
  BY <1>b, <1>h, <1>m, <1>n DEF Save, WriteAttempt, Release
<1>o. ASSUME pend'[p] = Idle
      PROVE  /\ call'[p].pc = After[call[p].pc] /\ call'[p].att = a /\ call'[p].result = r
             /\ call'[p].answer = IF call[p].pc = "closing" THEN r ELSE call[p].answer
  BY <1>b, <1>o DEF Save
<1>p. ASSUME PendMatch(p)', Own(p)', Owns(p)' => Owns(p) /\ call'[p].att = a,
             call'[p].answer # None => AttemptedNow(call'[p].answer),
             job'.status = "complete" => job' = job \/ AttemptedNow(job'.result)
      PROVE  CallRest'
  <2>1. ResultAttempted'
    BY <1>f, <1>p DEF CallIInv, CallRest, ResultAttempted, Attempted, AttemptedNow
  <2> QED
    BY <1>c, <1>d, <1>e, <1>p, <2>1, RestByParts DEF CallIInv, AnswerOK, Attempted, AttemptedNow
<1>1. CASE call[p].pc \in {"creating", "givingup"}
  <2>1. w.op \in {"create", "retract", "failjob", "block"} /\ w.att = 0
    BY <1>1, <1>b DEF PendMatch, PendOK, BeginPend, AttemptPend, FailPend, ClosePend, CreatePend, OtherPend
  <2>2. WriteJob(p)
    BY <2>1 DEF Save, WriteAttempt
  <2>3. call'[p].pc \in {"loaded", "raised"} /\ call'[p].answer = call[p].answer /\ pend'[p].op = "idle"
    BY <1>1, <1>i, <1>m, <1>o, <2>2, AfterSave
  <2>4. ~Owns(p)' /\ ~Holds(p)' /\ ~Working(p)'
    BY <2>3 DEF Owns, Holds, InCharge, Working
  <2>5. PendMatch(p)' /\ Own(p)'
    BY <2>3, <2>4 DEF PendMatch, Own
  <2>6. job'.status # "complete"
    BY <1>b, <1>m, <2>1, <2>2 DEF PendOK, BeginPend, AttemptPend, FailPend, ClosePend, CreatePend, OtherPend
  <2> QED
    BY <1>f, <1>g, <1>p, <2>3, <2>4, <2>5, <2>6
<1>2. CASE call[p].pc = "beginning"
  <2>1. BeginPend(w) /\ w.att = a /\ a \in AttemptIds
    BY <1>2, <1>b DEF PendMatch, Own, Owns, PendOK, AttemptPend, FailPend, ClosePend, CreatePend, OtherPend
  <2>2. CASE WriteAttempt(p)
    <3>1. pend'[p].op = "begin" /\ pend'[p].att = a /\ call' = call
      <4>1. w.job # NoJob
        BY <2>1 DEF BeginPend, NoJob
      <4>2. pend'[p] = [w EXCEPT !.wrote = TRUE]
        BY <1>b, <2>2, <4>1 DEF WriteAttempt
      <4>3. pend'[p].op = "begin" /\ pend'[p].att = a
        BY <1>b, <2>1, <4>2 DEF BeginPend, Pending
      <4> QED
        BY <1>i, <1>n, <4>3
    <3>2. Own(p)'
      BY <1>2, <2>1, <3>1 DEF Own, Owns, Holds, InCharge, Working
    <3>3. PendMatch(p)'
      BY <1>2, <3>1 DEF PendMatch
    <3> QED
      BY <1>f, <1>g, <1>l, <1>p, <2>2, <3>1, <3>2, <3>3 DEF Owns, InCharge, Working
  <2>3. CASE WriteJob(p)
    <3>1. w.wrote /\ Running = {a}
      BY <2>1, <2>3 DEF WriteJob, BeginPend
    <3>2. call'[p].pc = "packet" /\ call'[p].att = a /\ call'[p].answer = call[p].answer /\ pend'[p].op = "idle"
      BY <1>2, <1>i, <1>m, <1>o, <2>3, AfterSave
    <3>3. job'.status = "running" /\ Running' = {a} /\ a \in Present'
      BY <1>k, <1>m, <2>1, <2>3, <3>1, RunningPresent DEF BeginPend
    <3>4. Own(p)' /\ PendMatch(p)'
      BY <2>1, <3>2, <3>3 DEF Own, PendMatch
    <3> QED
      BY <1>2, <1>f, <1>g, <1>p, <3>2, <3>3, <3>4 DEF Owns, InCharge, Working
  <2> QED
    BY <2>2, <2>3 DEF Save
<1>3. CASE call[p].pc \in {"recording", "finishing"}
  <2>1. AttemptPend(w) /\ w.att = a /\ a \in AttemptIds
    BY <1>3, <1>b DEF PendMatch, Own, Owns, InCharge, Working, PendOK, BeginPend, FailPend, ClosePend, CreatePend,
                      OtherPend
  <2>2. WriteAttempt(p) /\ pend'[p] = Idle
    BY <1>b, <1>m, <1>n, <2>1 DEF Save, WriteJob, AttemptPend
  <2>3. /\ job'.status = "running" /\ a \in Present' /\ attempts'[a] = w.rec /\ job'= job
        /\ w.rec.status = "running" => Running' = {a}
        /\ w.rec.status = "complete" => Running' = {}
    BY <1>b, <1>j, <1>l, <2>1, <2>2 DEF AttemptPend, Present
  <2>4. CASE call[p].pc = "recording"
    <3>1. w.rec.status = "running"
      BY <1>b, <2>1, <2>4 DEF AttemptPend, PendMatch
    <3>2. call'[p].pc = "worker" /\ call'[p].att = a /\ call'[p].answer = call[p].answer /\ pend'[p].op = "idle"
      BY <2>4, <1>i, <1>o, <2>2, AfterSave
    <3>3. Own(p)' /\ PendMatch(p)'
      BY <2>1, <2>3, <3>1, <3>2 DEF Own, PendMatch
    <3> QED
      BY <2>3, <2>4, <1>f, <1>g, <1>p, <3>2, <3>3 DEF Owns, InCharge, Working
  <2>5. CASE call[p].pc = "finishing"
    <3>1. w.rec.status = "complete" /\ w.rec.result = r /\ r \in Results
      BY <1>b, <2>1, <2>5 DEF AttemptPend, PendMatch, Own
    <3>2. /\ call'[p].pc = "close" /\ call'[p].att = a /\ call'[p].answer = call[p].answer /\ pend'[p].op = "idle"
          /\ call'[p].result = r
      BY <2>5, <1>i, <1>o, <2>2, AfterSave
    <3>3. Own(p)' /\ PendMatch(p)'
      BY <2>1, <2>3, <3>1, <3>2 DEF Own, PendMatch, Working
    <3> QED
      BY <2>3, <2>5, <1>f, <1>g, <1>p, <3>2, <3>3 DEF Owns, InCharge, Working
  <2> QED
    BY <1>3, <2>4, <2>5
<1>4. CASE call[p].pc = "closing"
  <2>1. ClosePend(w) /\ a \in Present /\ attempts[a].status = "complete" /\ attempts[a].result = r /\ w.job.result = r
    BY <1>4, <1>b DEF PendMatch, Own, Owns, InCharge, PendOK, BeginPend, AttemptPend, FailPend, CreatePend, OtherPend
  <2>2. WriteJob(p)
    BY <2>1 DEF Save, WriteAttempt, ClosePend
  <2>3. call'[p].pc = "returned" /\ call'[p].answer = r /\ pend'[p].op = "idle"
    BY <1>4, <1>i, <1>m, <1>o, <2>2, AfterSave
  <2>4. AttemptedNow(r) /\ job'.result = r
    BY <1>f, <1>m, <2>1, <2>2 DEF Attempted
  <2>5. ~Owns(p)' /\ ~Holds(p)' /\ ~Working(p)'
    BY <2>3 DEF Owns, Holds, InCharge, Working
  <2>6. PendMatch(p)' /\ Own(p)'
    BY <2>3, <2>5 DEF PendMatch, Own
  <2> QED
    BY <1>p, <2>3, <2>4, <2>5, <2>6
<1>5. CASE call[p].pc = "rejecting"
  <2>1. w.op = "reject" /\ w.att = 0 /\ w.job.status # "complete" /\ a \in Present /\ a \in AttemptIds
    BY <1>5, <1>b DEF PendMatch, Own, Owns, PendOK, BeginPend, AttemptPend, FailPend, ClosePend, CreatePend, OtherPend
  <2>2. WriteJob(p)
    BY <2>1 DEF Save, WriteAttempt
  <2>3. call'[p].pc = "handle" /\ call'[p].answer = call[p].answer /\ pend'[p].op = "idle" /\ call'[p].att = a
    BY <1>5, <1>i, <1>m, <1>o, <2>2, AfterSave
  <2>4. ~Holds(p)' /\ ~Working(p)'
    BY <2>3 DEF Holds, InCharge, Working
  <2>5. PendMatch(p)' /\ Own(p)'
    BY <1>k, <2>1, <2>2, <2>3, <2>4 DEF PendMatch, Own
  <2> QED
    BY <1>5, <1>f, <1>g, <1>m, <1>p, <2>1, <2>2, <2>3, <2>5 DEF Owns
<1>6. CASE call[p].pc = "failing"
  <2>1. FailPend(w) /\ w.att = a /\ a \in AttemptIds /\ a \in Present
    BY <1>6, <1>b DEF PendMatch, Own, Owns, PendOK, BeginPend, AttemptPend, ClosePend, CreatePend, OtherPend
  <2>2. CASE WriteAttempt(p)
    <3>1. pend'[p].op = "fail" /\ pend'[p].att = a /\ call' = call
      <4>1. w.job # NoJob
        BY <2>1 DEF FailPend, NoJob
      <4>2. pend'[p] = [w EXCEPT !.wrote = TRUE]
        BY <1>b, <2>2, <4>1 DEF WriteAttempt
      <4>3. pend'[p].op = "fail" /\ pend'[p].att = a
        BY <1>b, <2>1, <4>2 DEF FailPend, Pending
      <4> QED
        BY <1>i, <1>n, <4>3
    <3>2. job' = job /\ a \in Present'
      BY <1>b, <1>l, <2>1, <2>2 DEF FailPend, Present
    <3>3. Own(p)' /\ PendMatch(p)'
      BY <1>6, <2>1, <3>1, <3>2 DEF Own, Owns, Holds, InCharge, Working, PendMatch, FailPend
    <3> QED
      BY <1>f, <1>g, <1>p, <3>1, <3>2, <3>3 DEF Owns, InCharge, Working
  <2>3. CASE WriteJob(p)
    <3>1. call'[p].pc = "giveup" /\ call'[p].answer = call[p].answer /\ pend'[p].op = "idle"
      BY <1>6, <1>i, <1>m, <1>o, <2>3, AfterSave
    <3>2. ~Owns(p)' /\ ~Holds(p)' /\ ~Working(p)'
      BY <3>1 DEF Owns, Holds, InCharge, Working
    <3>3. PendMatch(p)' /\ Own(p)' /\ job'.status # "complete"
      BY <1>m, <2>1, <2>3, <3>1, <3>2 DEF PendMatch, Own, FailPend
    <3> QED
      BY <1>f, <1>g, <1>p, <3>1, <3>2, <3>3
  <2> QED
    BY <2>2, <2>3 DEF Save
<1> QED
  BY <1>b, <1>1, <1>2, <1>3, <1>4, <1>5, <1>6 DEF Owing
-----------------------------------------------------------------------------
\* An operation that raises or dies with its process leaves the call outside the
\* job: it goes on to deal with the failure of its attempt, or has ended.
LEMMA CutCallRest ==
    ASSUME CallIInv, CallTypeOK', NEW p \in Procs, pend[p] # Idle, SaveFails(p) \/ Die(p)
    PROVE  CallRest'
<1> USE DEF CallTypeOK, Call
<1>a. /\ PendOK(pend[p]) /\ PendMatch(p) /\ Own(p) /\ call[p].pc \in Owing
      /\ call[p] \in Call /\ pend \in [Procs -> Pending] /\ call \in [Procs -> Call]
  BY Saver, OwesWhileSaving DEF CallIInv, IInv, TypeOK, CallRest, OwnInv, PendMatches
<1>b. \A q \in Procs \ {p} : call'[q] = call[q]
  BY OthersCalls DEF CallIInv, Step
<1>c. WriteFails(p) \/ Crash(p)
  BY DEF SaveFails, Die
<1>d. \A q \in Procs \ {p} : PendMatch(q)' /\ Own(q)' /\ AnswerOK(q)'
  BY <1>b, <1>c, OthersSurviveSave
<1>e. pend'[p].op = "idle" /\ job' = job
  BY <1>a, <1>c DEF WriteFails, Crash, Release, Idle
<1>f. ResultAttempted'
  BY <1>c, <1>e, AttemptedStays DEF CallIInv, CallRest, ResultAttempted, Next, Attempted
<1>g. /\ call'[p].pc \in {"handle", "raised", "idle"}
      /\ call'[p].pc = "handle" => /\ call[p].pc \in {"recording", "finishing", "closing", "rejecting"}
                                   /\ call'[p].att = call[p].att
      /\ call'[p].answer \in {None, call[p].answer}
  BY <1>a DEF SaveFails, Die, Raise, Goto, NoCall
<1>h. PendMatch(p)'
  BY <1>e, <1>g DEF PendMatch
<1>i. ~Holds(p)' /\ ~Working(p)' /\ (Owns(p)' => call'[p].pc = "handle")
  BY <1>g DEF Holds, InCharge, Working, Owns
<1>j. call'[p].pc = "handle" => Owns(p) /\ call[p].att \in Present' /\ call[p].att \in AttemptIds
  BY <1>a, <1>c, <1>g, SaveEffect DEF Own, Owns, InCharge, Working, PendMatch
<1>k. Own(p)'
  BY <1>e, <1>g, <1>i, <1>j DEF Own
<1>n. \A x : Attempted(x) => \E a \in Present' : attempts'[a].status = "complete" /\ attempts'[a].result = x
  BY <1>c, AttemptedStays DEF CallIInv, Next, Attempted
<1>l. AnswerOK(p)'
  <2>1. call[p].answer # None => \E a \in Present' : /\ attempts'[a].status = "complete"
                                                     /\ attempts'[a].result = call[p].answer
    BY <1>n DEF CallIInv, CallRest, AnswerIsAttempted, Attempted
  <2> QED
    BY <1>g, <2>1 DEF AnswerOK, Attempted
<1>m. Owns(p)' => \A q \in Procs \ {p} : Owns(q) => call'[p].att # call[q].att
  BY <1>g, <1>i, <1>j DEF CallIInv, CallRest, Apart
<1> QED
  BY <1>b, <1>d, <1>f, <1>h, <1>i, <1>k, <1>l, <1>m, RestByParts DEF CallIInv

\* Every step keeps what the invariant says of the calls.
LEMMA CallRestStep ==
    ASSUME CallIInv, CallTypeOK', CallNext
    PROVE  CallRest'
<1>1. ASSUME NEW p \in Procs, StartCall(p) \/ Step(p) \/ StepRaises(p) \/ SaveFails(p) \/ Die(p)
      PROVE  CallRest'
  <2>a. /\ pend[p] # Idle => call[p].pc \in Owing
        /\ pend \in [Procs -> Pending]
    BY OwesWhileSaving DEF CallIInv, CallRest, IInv, TypeOK
  <2>1. CASE Save(p)
    BY <2>1, SaveRest
  <2>2. CASE SaveFails(p) \/ (Die(p) /\ pend[p] # Idle)
    <3>1. pend[p] # Idle
      BY <2>2 DEF SaveFails, WriteFails, Idle
    <3> QED
      BY <2>2, <3>1, CutCallRest
  <2>3. CASE Die(p) /\ pend[p] = Idle
    <3>1. UNCHANGED storeVars
      BY <2>3 DEF Die, Crash, Idle
    <3> QED
      BY <2>3, <3>1, QuietSteps DEF At, storeVars
  <2>4. CASE \/ LoadJob(p) \/ Replay(p) \/ Begin(p) \/ Packet(p) \/ Finish(p) \/ Close(p)
             \/ Handle(p) \/ GiveUp(p)
    <3>1. At(p, call[p].pc)
      BY <2>4 DEF LoadJob, Replay, Begin, Packet, Finish, Close, Handle, GiveUp, At
    <3>2. CASE pend'[p] # Idle
      BY <2>4, <3>1, <3>2, EnteringSteps
    <3>3. CASE pend'[p] = Idle
      <4>1. Operation(p) \/ UNCHANGED storeVars
        BY <2>4, CallOperates DEF CallIInv, CallRest
      <4>2. job' = job /\ attempts' = attempts /\ pend' = pend
        <5>1. CASE Operation(p)
          BY <3>3, <5>1, OperationEnters, OperationSavesNothing, <2>a, <3>1
             DEF CompletedData, CallIInv, IInv, At, EnterJob, Enter
        <5> QED
          BY <4>1, <5>1 DEF storeVars
      <4> QED
        BY <2>4, <3>1, <4>2, QuietSteps
    <3> QED
      BY <3>2, <3>3
  <2>5. CASE StartCall(p) \/ SetLimit(p) \/ Loop(p) \/ WorkerAnswers(p) \/ StepRaises(p) \/ PublishArtifact(p)
    <3>1. At(p, call[p].pc) /\ job' = job /\ attempts' = attempts /\ pend' = pend
      BY <2>5 DEF StartCall, SetLimit, Loop, WorkerAnswers, StepRaises, PublishArtifact, At, storeVars,
                  WriteArtifact
    <3> QED
      BY <2>5, <3>1, QuietSteps
  <2> QED
    BY <1>1, <2>1, <2>2, <2>3, <2>4, <2>5 DEF Step
<1>2. CASE Tamper
  <2>1. call' = call /\ job' = job /\ attempts' = attempts /\ pend' = pend /\ Running' = Running /\ Present' = Present
    BY <1>2, StableAttempts DEF Tamper, WriteArtifact
  <2>2. PendMatches' /\ OwnInv'
    BY <2>1 DEF CallIInv, CallRest, PendMatches, PendMatch, OwnInv, Own, Owns, Holds, InCharge, Working
  <2>3. Apart' /\ ResultAttempted' /\ AnswerIsAttempted'
    BY <2>1 DEF CallIInv, CallRest, Apart, ResultAttempted, AnswerIsAttempted, Attempted, Owns, Holds, InCharge, Working
  <2> QED
    BY <2>2, <2>3 DEF CallRest
<1> QED
  BY <1>1, <1>2 DEF CallNext
-----------------------------------------------------------------------------
\* A settled attempt stays settled: only a begin_attempt withdraws an attempt,
\* its own, and a new one takes a number no attempt has.
LEMMA SettledGrows ==
    ASSUME IInv, [Next]_storeVars
    PROVE  Settled \subseteq Settled'
<1> SUFFICES ASSUME NEW a \in Settled
             PROVE  a \in Settled'
  OBVIOUS
<1>a. /\ a \in Present /\ a \in AttemptIds /\ \A q \in Procs : pend[q].op = "begin" => pend[q].att # a
      /\ pend \in [Procs -> Pending] /\ attempts \in [AttemptIds -> Attempt]
  BY DEF Settled, Present, IInv, TypeOK
<1>b. ASSUME a \in Present', \A q \in Procs : pend'[q].op = "begin" => pend'[q].att # a
      PROVE  a \in Settled'
  BY <1>b DEF Settled
<1>1. ASSUME NEW p \in Procs, Operation(p)
      PROVE  a \in Settled'
  <2>1. a \in Present'
    BY <1>a, <1>1, OperationSavesNothing DEF Present
  <2>2. \A q \in Procs \ {p} : pend'[q] = pend[q]
    BY <1>1, <1>a DEF Operation, CreateOrLoadJob, BeginAttempt, RecordPacket, FailAttempt,
         CompleteAttempt, CompleteJob, FailJob, BlockJob, CompletedData, Enter, EnterJob, EnterAttempt
  <2>3. CASE BeginAttempt(p)
    <3>1. PICK n \in AttemptIds : /\ FreeNumber(n)
                                  /\ Enter(p, "begin", n, [NoAttempt EXCEPT !.status = "running"],
                                           [job EXCEPT !.status = "running"])
      BY <2>3 DEF BeginAttempt
    <3>2. pend'[p].att # a
      BY <1>a, <3>1 DEF Enter, FreeNumber, Taken
    <3> QED
      BY <1>a, <1>b, <2>1, <2>2, <3>2
  <2>4. CASE ~BeginAttempt(p)
    <3>1. pend'[p].op # "begin" \/ pend'[p] = pend[p]
      <4>a. ASSUME NEW op \in Ops \ {"begin"}, NEW n, NEW rec, NEW j, Enter(p, op, n, rec, j)
            PROVE  pend'[p].op # "begin"
        BY <1>a, <4>a DEF Enter
      <4>1. ASSUME NEW s \in Specs, CreateOrLoadJob(p, s)
            PROVE  pend'[p].op # "begin"
        BY <4>1, <4>a DEF CreateOrLoadJob, EnterJob, Ops
      <4>2. ASSUME NEW n \in AttemptIds, RecordPacket(p, n) \/ FailAttempt(p, n)
            PROVE  pend'[p].op # "begin"
        BY <4>2, <4>a DEF RecordPacket, FailAttempt, EnterAttempt, Ops
      <4>3. ASSUME NEW n \in AttemptIds, NEW r \in Results, CompleteAttempt(p, n, r)
            PROVE  pend'[p].op # "begin"
        BY <4>3, <4>a DEF CompleteAttempt, EnterAttempt, Ops
      <4>4. ASSUME NEW r \in Results, CompleteJob(p, r)
            PROVE  pend'[p].op # "begin"
        BY <4>4, <4>a DEF CompleteJob, EnterJob, Ops
      <4>5. ASSUME FailJob(p) \/ BlockJob(p)
            PROVE  pend'[p].op # "begin"
        BY <4>5, <4>a DEF FailJob, BlockJob, EnterJob, Ops
      <4>6. ASSUME CompletedData(p)
            PROVE  pend'[p].op # "begin" \/ pend'[p] = pend[p]
        BY <4>6, <4>a DEF CompletedData, EnterJob, Ops
      <4> QED
        BY <1>1, <2>4, <4>1, <4>2, <4>3, <4>4, <4>5, <4>6 DEF Operation
    <3> QED
      BY <1>a, <1>b, <2>1, <2>2, <3>1
  <2> QED
    BY <2>3, <2>4
<1>2. ASSUME NEW p \in Procs, WriteAttempt(p) \/ WriteJob(p) \/ WriteFails(p) \/ Crash(p)
      PROVE  a \in Settled'
  <2>1. a \in Present'
    <3>1. CASE WriteAttempt(p)
      <4>1. PendOK(pend[p]) /\ pend[p].rec.status # "absent"
        BY <3>1, Saver
           DEF WriteAttempt, Idle, PendOK, BeginPend, AttemptPend, FailPend, ClosePend, CreatePend, OtherPend
      <4> QED
        BY <1>a, <3>1, <4>1 DEF WriteAttempt, Present
    <3>2. CASE WriteJob(p) \/ Crash(p)
      BY <1>a, <3>2 DEF WriteJob, Crash, Present
    <3>3. CASE WriteFails(p)
      BY <1>a, <3>3 DEF WriteFails, Present
    <3> QED
      BY <1>2, <3>1, <3>2, <3>3
  <2>2. \A q \in Procs : \/ pend'[q] = pend[q] \/ pend'[q] = Idle
                         \/ pend'[q].op = pend[q].op /\ pend'[q].att = pend[q].att
    BY <1>2, <1>a DEF WriteAttempt, WriteJob, WriteFails, Crash, Release, Pending
  <2> QED
    BY <1>a, <1>b, <2>1, <2>2 DEF Idle
<1>3. CASE \/ \E c \in Content \cup {None} : WriteArtifact(c)
           \/ UNCHANGED storeVars
  BY <1>3, <1>a, <1>b DEF WriteArtifact, storeVars, Present
<1> QED
  BY <1>1, <1>2, <1>3 DEF Next

\* A call counts an attempt when it reserves it, and the attempt is settled when
\* begin_attempt returns.
LEMMA BegunStep ==
    ASSUME CallIInv, CallTypeOK', CallNext
    PROVE  BegunInv'
<1> USE DEF CallTypeOK, Call
<1>a. Settled \subseteq Settled'
  BY SettledGrows, CallStepIsStoreStep DEF CallIInv, CallRest
<1>b. Settled' \subseteq AttemptIds
  BY DEF Settled, Present
<1>c. /\ Cardinality(Settled) \in Nat /\ Cardinality(Settled') \in Nat
      /\ Cardinality(Settled) <= Cardinality(Settled')
  BY <1>a, <1>b, AttemptsFinite, SettledPresent
<1>d. \A q \in Procs : /\ call[q] \in Call /\ call'[q] \in Call
                       /\ call[q].begun \in Nat /\ call'[q].begun \in Nat
  BY DEF CallIInv
<1>e. \A q \in Procs : /\ call[q].pc = "beginning" => call[q].begun <= Cardinality(Settled) + 1
                       /\ call[q].pc \notin {"beginning", "raised"} => call[q].begun <= Cardinality(Settled)
  BY DEF CallIInv, BegunInv
<1>1. ASSUME NEW p \in Procs, StartCall(p) \/ Step(p) \/ StepRaises(p) \/ SaveFails(p) \/ Die(p)
      PROVE  /\ call'[p].pc = "beginning" => call'[p].begun <= Cardinality(Settled') + 1
             /\ call'[p].pc \notin {"beginning", "raised"} => call'[p].begun <= Cardinality(Settled')
  <2>a. call \in [Procs -> Call]
    BY DEF CallIInv
  <2>b. ASSUME NEW pc \in PCs, Goto(p, pc)
        PROVE  call'[p].pc = pc /\ call'[p].begun = call[p].begun
    BY <2>a, <2>b DEF Goto
  <2>c. ASSUME NEW e \in Errors, Raise(p, e)
        PROVE  call'[p].pc = "handle" /\ call'[p].begun = call[p].begun
    BY <2>a, <2>c DEF Raise
  <2>1. CASE call'[p].begun = 0
    BY <1>c, <2>1
  <2>2. CASE /\ call'[p].begun = call[p].begun /\ call[p].pc \notin {"beginning", "raised"}
    BY <1>c, <1>d, <1>e, <2>2
  <2>3. CASE StartCall(p) \/ Die(p)
    BY <2>a, <2>1, <2>3 DEF StartCall, Die, NoCall
  <2>4. CASE Begin(p)
    <3>1. CASE call' = [call EXCEPT ![p].pc = "beginning", ![p].att = pend'[p].att, ![p].begun = @ + 1]
      <4>1. call'[p].pc = "beginning" /\ call'[p].begun = call[p].begun + 1 /\ call[p].pc = "begin"
        BY <2>a, <2>4, <3>1 DEF Begin, At
      <4> QED
        BY <1>c, <1>d, <1>e, <4>1
    <3>2. CASE Goto(p, "raised")
      BY <2>b, <3>2 DEF PCs
    <3> QED
      BY <2>4, <3>1, <3>2 DEF Begin
  <2>5. CASE Save(p)
    <3>a. pend[p] # Idle /\ call[p].pc \in Owing
      BY <2>5, OwesWhileSaving DEF CallIInv, CallRest, Save, WriteAttempt, WriteJob, Idle
    <3>1. call'[p].begun = call[p].begun
      BY <2>a, <2>5 DEF Save
    <3>2. CASE call[p].pc = "beginning" /\ pend'[p] # Idle
      <4>1. call' = call
        BY <2>5, <3>2 DEF Save
      <4> QED
        BY <1>c, <1>d, <1>e, <3>2, <4>1
    <3>3. CASE call[p].pc = "beginning" /\ pend'[p] = Idle
      <4>1. PendMatch(p) /\ PendOK(pend[p]) /\ pend[p] \in Pending /\ pend \in [Procs -> Pending]
        BY <3>a, Saver DEF CallIInv, CallRest, PendMatches, IInv, TypeOK
      <4>2. BeginPend(pend[p]) /\ pend[p].op = "begin"
        BY <3>3, <4>1 DEF PendMatch, PendOK, AttemptPend, FailPend, ClosePend, CreatePend, OtherPend
      <4>3. pend[p].wrote /\ attempts' = attempts
        <5>1. ~WriteAttempt(p)
          <6>1. pend[p].job # NoJob
            BY <4>2 DEF BeginPend, NoJob
          <6>2. ASSUME pend' = [pend EXCEPT ![p].wrote = TRUE]
                PROVE  FALSE
            BY <3>3, <4>1, <4>2, <6>2 DEF Idle, Pending
          <6> QED
            BY <6>1, <6>2 DEF WriteAttempt
        <5> QED
          BY <2>5, <4>2, <5>1 DEF Save, WriteJob, BeginPend
      <4>4. pend[p].att \in Running
        BY <4>2, <4>3 DEF BeginPend
      <4>5. pend[p].att \in Settled' /\ pend[p].att \notin Settled
        <5>1. \A q \in Procs : pend'[q] = Idle
          BY <2>5, <3>3, <3>a, SaveEffect DEF Save
        <5>2. pend[p].att \in Present'
          BY <4>3, <4>4 DEF Running, Present
        <5> QED
          BY <4>2, <5>1, <5>2 DEF Settled, Idle
      <4>6. Settled \cup {pend[p].att} \subseteq Settled'
        BY <1>a, <4>5
      <4>7. Cardinality(Settled \cup {pend[p].att}) = Cardinality(Settled) + 1
        BY <4>5, AttemptsFinite, SettledPresent, FS_AddElement
      <4>8. Cardinality(Settled) + 1 <= Cardinality(Settled')
        BY <1>b, <4>6, <4>7, AttemptsFinite
      <4>9. call'[p].pc = "packet"
        BY <2>a, <2>5, <3>3, AfterSave DEF Save
      <4> QED
        BY <1>c, <1>d, <1>e, <3>1, <3>3, <4>8, <4>9
    <3>4. CASE call[p].pc # "beginning"
      BY <2>2, <3>1, <3>4, <3>a DEF Owing
    <3> QED
      BY <3>2, <3>3, <3>4
  <2>6. CASE SaveFails(p)
    <3>1. CASE call[p].pc = "beginning"
      BY <2>6, <2>b, <3>1 DEF SaveFails, PCs
    <3>2. CASE call[p].pc # "beginning"
      <4>1. call[p].pc \in Owing
        BY <2>6, OwesWhileSaving DEF CallIInv, CallRest, SaveFails, WriteFails
      <4>2. call'[p].begun = call[p].begun
        BY <2>6, <2>b, <2>c DEF SaveFails, PCs, Errors
      <4> QED
        BY <2>2, <3>2, <4>1, <4>2 DEF Owing
    <3> QED
      BY <3>1, <3>2
  <2>7. CASE \/ LoadJob(p) \/ Replay(p) \/ SetLimit(p) \/ Loop(p) \/ Packet(p) \/ WorkerAnswers(p)
             \/ PublishArtifact(p) \/ Finish(p) \/ Close(p) \/ StepRaises(p) \/ Handle(p) \/ GiveUp(p)
    <3>1. call[p].pc \notin {"beginning", "raised"}
      BY <2>7 DEF LoadJob, Replay, SetLimit, Loop, Packet, WorkerAnswers, PublishArtifact, Finish, Close,
                  StepRaises, Handle, GiveUp, At, Working
    <3>2. call'[p].begun = call[p].begun
      <4>1. CASE LoadJob(p) \/ Loop(p) \/ PublishArtifact(p)
        BY <2>b, <4>1 DEF LoadJob, Loop, PublishArtifact, PCs
      <4>2. CASE Replay(p) \/ SetLimit(p) \/ WorkerAnswers(p)
        BY <2>a, <4>2 DEF Replay, SetLimit, WorkerAnswers, Goto
      <4>3. CASE Packet(p) \/ Finish(p) \/ Close(p) \/ Handle(p)
        BY <2>b, <2>c, <4>3 DEF Packet, Finish, Close, Handle, PCs, Errors
      <4>4. CASE StepRaises(p) \/ GiveUp(p)
        BY <2>b, <2>c, <4>4 DEF StepRaises, GiveUp, PCs
      <4> QED
        BY <2>7, <4>1, <4>2, <4>3, <4>4
    <3> QED
      BY <2>2, <3>1, <3>2
  <2> QED
    BY <1>1, <2>3, <2>4, <2>5, <2>6, <2>7 DEF Step
<1>2. ASSUME NEW q \in Procs, call'[q] = call[q]
      PROVE  /\ call'[q].pc = "beginning" => call'[q].begun <= Cardinality(Settled') + 1
             /\ call'[q].pc \notin {"beginning", "raised"} => call'[q].begun <= Cardinality(Settled')
  BY <1>2, <1>c, <1>d, <1>e
<1>3. CASE Tamper
  BY <1>2, <1>3 DEF Tamper, BegunInv
<1>4. ASSUME NEW p \in Procs, StartCall(p) \/ Step(p) \/ StepRaises(p) \/ SaveFails(p) \/ Die(p)
      PROVE  BegunInv'
  BY <1>1, <1>2, <1>4, OthersCalls DEF CallIInv, BegunInv
<1> QED
  BY <1>3, <1>4 DEF CallNext
-----------------------------------------------------------------------------
\* The invariant holds when no call has been made.
LEMMA CallInvInit == CallInit => CallIInv
<1> SUFFICES ASSUME CallInit
             PROVE  CallIInv
  OBVIOUS
<1>1. IInv
  BY InvInit DEF CallInit
<1>2. \A p \in Procs : call[p] = NoCall /\ pend[p] = Idle
  BY DEF CallInit, Init
<1>3. CallTypeOK
  <2>1. NoCall \in Call
    BY JobStoreAssumption DEF NoCall, Call, PCs
  <2> QED
    BY <1>1, <2>1 DEF CallTypeOK, IInv, CallInit
<1>4. PendMatches
  BY <1>2 DEF PendMatches, PendMatch, NoCall, Idle
<1>5. \A p \in Procs : ~Owns(p) /\ ~Holds(p) /\ ~Working(p)
  BY <1>2 DEF Owns, Holds, InCharge, Working, NoCall
<1>6. OwnInv
  BY <1>2, <1>5 DEF OwnInv, Own, NoCall, Idle
<1>7. Apart /\ ResultAttempted /\ AnswerIsAttempted
  BY <1>2, <1>5 DEF Apart, ResultAttempted, AnswerIsAttempted, CallInit, Init, NoJob, NoCall
<1>8. BegunInv
  BY <1>2, SettledPresent DEF BegunInv, NoCall
<1> QED
  BY <1>1, <1>3, <1>4, <1>6, <1>7, <1>8 DEF CallIInv, CallRest

\* Every step keeps the invariant.
LEMMA CallInvStep == CallIInv /\ [CallNext]_vars => CallIInv'
<1> SUFFICES ASSUME CallIInv, [CallNext]_vars
             PROVE  CallIInv'
  OBVIOUS
<1>1. CASE CallNext
  <2>1. IInv'
    BY <1>1, CallStepIsStoreStep, InvStep DEF CallIInv, CallRest
  <2>2. CallTypeOK'
    BY <1>1, <2>1, CallTyped DEF CallTypeOK, IInv
  <2> QED
    BY <1>1, <2>1, <2>2, CallRestStep, BegunStep DEF CallIInv
<1>2. CASE UNCHANGED vars
  <2>1. IInv'
    BY <1>2, InvStep DEF CallIInv, vars
  <2>2. /\ call' = call /\ job' = job /\ attempts' = attempts /\ pend' = pend
        /\ Running' = Running /\ Present' = Present
    BY <1>2, StableAttempts DEF vars, storeVars
  <2>3. CallTypeOK' /\ BegunInv'
    BY <2>1, <2>2 DEF CallIInv, CallTypeOK, IInv, BegunInv, Settled
  <2>4. PendMatches' /\ OwnInv'
    BY <2>2 DEF CallIInv, CallRest, PendMatches, PendMatch, OwnInv, Own, Owns, Holds, InCharge, Working
  <2>5. Apart' /\ ResultAttempted' /\ AnswerIsAttempted'
    BY <2>2 DEF CallIInv, CallRest, Apart, ResultAttempted, AnswerIsAttempted, Attempted, Owns, Holds, InCharge, Working
  <2> QED
    BY <2>1, <2>3, <2>4, <2>5 DEF CallIInv, CallRest
<1> QED
  BY <1>1, <1>2

\* The invariant holds in every state controllers can bring about.
THEOREM CallInvariant == CallSpec => []CallIInv
BY CallInvInit, CallInvStep, PTL DEF CallSpec

\* The calls and the records they share are well typed.
THEOREM CallTypeCorrect == CallSpec => []CallTypeOK
<1>1. CallIInv => CallTypeOK
  BY DEF CallIInv
<1> QED
  BY <1>1, CallInvariant, PTL

\* Whatever controllers share the run, crash and come back, no two of them are in
\* charge of the job's attempt at once.
THEOREM OneWorkerAtATime == CallSpec => []OneWorker
<1>1. CallIInv => OneWorker
  BY DEF CallIInv, CallRest, Apart, OneWorker, Holds
<1> QED
  BY <1>1, CallInvariant, PTL

\* Nobody closes, fails or replaces the attempt under a live worker.
THEOREM WorkerKeepsAttempt == CallSpec => []WorkerOwnsAttempt
<1>1. CallIInv => WorkerOwnsAttempt
  BY DEF CallIInv, CallRest, OwnInv, Own, WorkerOwnsAttempt, Holds, InCharge
<1> QED
  BY <1>1, CallInvariant, PTL

\* A call answers with nothing but the result of a completed attempt, also when
\* others rewrite the artifact between any two of its steps.
THEOREM AnswerAttempted == CallSpec => []AnswerIsAttempted
<1>1. CallIInv => AnswerIsAttempted
  BY DEF CallIInv, CallRest
<1> QED
  BY <1>1, CallInvariant, PTL

\* The controllers use the job's records as JobStore lets them: all that is proved
\* of the records alone holds of the records under any number of calls.
THEOREM CallUsesStore == CallSpec => Spec
<1>1. CallInit => Init
  BY DEF CallInit
<1>2. CallIInv /\ [CallNext]_vars => [Next]_storeVars
  BY CallStepIsStoreStep DEF CallIInv, CallRest, vars
<1> QED
  BY <1>1, <1>2, CallInvariant, PTL DEF CallSpec, Spec
-----------------------------------------------------------------------------
\* The attempt limit.  No attempt is withdrawn while saving does not fail.
LEMMA PresentGrows ==
    ASSUME CallIInv, ~DiskFails, CallNext
    PROVE  Present \subseteq Present' /\ Present' \subseteq AttemptIds
<1>1. Present' \subseteq AttemptIds
  BY DEF Present
<1>2. ASSUME NEW p \in Procs, Save(p)
      PROVE  Present \subseteq Present'
  <2>1. pend[p] # Idle /\ PendOK(pend[p]) /\ attempts \in [AttemptIds -> Attempt]
    BY <1>2, Saver DEF CallIInv, IInv, TypeOK, Save, WriteAttempt, WriteJob, Idle
  <2>2. CASE WriteAttempt(p)
    <3>1. pend[p].rec.status # "absent"
      BY <2>1, <2>2 DEF WriteAttempt, PendOK, BeginPend, AttemptPend, FailPend, ClosePend, CreatePend, OtherPend
    <3> QED
      BY <2>1, <2>2, <3>1 DEF WriteAttempt, Present
  <2>3. CASE WriteJob(p)
    BY <2>3 DEF WriteJob, Present
  <2> QED
    BY <1>2, <2>2, <2>3 DEF Save
<1>3. ASSUME attempts' = attempts
      PROVE  Present \subseteq Present'
  BY <1>3 DEF Present
<1>4. ASSUME NEW p \in Procs, StartCall(p) \/ Step(p) \/ StepRaises(p) \/ Die(p), ~Save(p)
      PROVE  attempts' = attempts
  <2>1. CASE \/ LoadJob(p) \/ Replay(p) \/ Begin(p) \/ Packet(p) \/ Finish(p) \/ Close(p)
             \/ Handle(p) \/ GiveUp(p)
    BY <2>1, CallOperates, OperationSavesNothing DEF CallIInv, CallRest, storeVars
  <2>2. CASE \/ StartCall(p) \/ SetLimit(p) \/ Loop(p) \/ WorkerAnswers(p) \/ PublishArtifact(p)
             \/ StepRaises(p) \/ Die(p)
    BY <2>2 DEF StartCall, SetLimit, Loop, WorkerAnswers, PublishArtifact, StepRaises, Die, Crash,
                WriteArtifact, storeVars
  <2> QED
    BY <1>4, <2>1, <2>2 DEF Step
<1>5. ASSUME Tamper
      PROVE  Present \subseteq Present'
  <2>1. attempts' = attempts
    BY <1>5 DEF Tamper, WriteArtifact, storeVars
  <2> QED
    BY <1>3, <2>1
<1> QED
  BY <1>1, <1>2, <1>3, <1>4, <1>5 DEF CallNext, SaveFails

\* Whose step it is, the operations of the other calls are not touched.
LEMMA OthersPend ==
    ASSUME CallIInv, NEW p \in Procs, StartCall(p) \/ Step(p) \/ StepRaises(p) \/ Die(p)
    PROVE  \A q \in Procs \ {p} : pend'[q] = pend[q]
<1>1. ASSUME Operation(p)
      PROVE  \A q \in Procs \ {p} : pend'[q] = pend[q]
  BY <1>1 DEF CallIInv, IInv, TypeOK, Operation, CreateOrLoadJob, BeginAttempt, RecordPacket, FailAttempt,
              CompleteAttempt, CompleteJob, FailJob, BlockJob, CompletedData, Enter, EnterJob, EnterAttempt
<1>2. CASE \/ LoadJob(p) \/ Replay(p) \/ Begin(p) \/ Packet(p) \/ Finish(p) \/ Close(p)
           \/ Handle(p) \/ GiveUp(p)
  BY <1>1, <1>2, CallOperates DEF CallIInv, CallRest, storeVars
<1>3. CASE \/ StartCall(p) \/ SetLimit(p) \/ Loop(p) \/ WorkerAnswers(p) \/ PublishArtifact(p) \/ StepRaises(p)
  BY <1>3 DEF StartCall, SetLimit, Loop, WorkerAnswers, PublishArtifact, StepRaises, WriteArtifact, storeVars
<1>4. CASE Save(p) \/ Die(p)
  BY <1>4 DEF Save, Die, WriteAttempt, WriteJob, Crash, Release, CallIInv, IInv, TypeOK, storeVars
<1> QED
  BY <1>2, <1>3, <1>4 DEF Step

\* One step of p keeps what p's call may begin.
LEMMA BudgetStep ==
    ASSUME CallIInv, CallTypeOK', BudgetInv, ~Unlimited, ~DiskFails, NEW p \in Procs, CallNext,
           StartCall(p) \/ Step(p) \/ StepRaises(p) \/ Die(p)
    PROVE  BudgetOK(p)'
<1> USE DEF CallTypeOK, Call
<1>a. /\ call \in [Procs -> Call] /\ call[p] \in Call /\ call'[p] \in Call
      /\ MaxWorkerAttempts \in Nat \ {0} /\ MaxAttempts \in Nat
      /\ BudgetOK(p) /\ pend \in [Procs -> Pending]
  BY WorkerCallAssumption, JobStoreAssumption DEF CallIInv, BudgetInv, Unlimited, IInv, TypeOK
<1>b. /\ Cardinality(Present) \in Nat /\ Cardinality(Present') \in Nat
      /\ Cardinality(Present) <= Cardinality(Present')
  BY PresentGrows, SettledPresent, AttemptsFinite
<1>c. call[p].pc \notin Owing => pend[p] = Idle
  BY OwesWhileSaving DEF CallIInv, CallRest
<1>d. ASSUME NEW pc \in PCs, Goto(p, pc)
      PROVE  call'[p].pc = pc /\ call'[p].begun = call[p].begun /\ call'[p].limit = call[p].limit
  BY <1>a, <1>d DEF Goto
<1>e. ASSUME NEW e \in Errors, Raise(p, e)
      PROVE  call'[p].pc = "handle" /\ call'[p].begun = call[p].begun /\ call'[p].limit = call[p].limit
  BY <1>a, <1>e DEF Raise
<1>f. Idle.op = "idle"
  BY DEF Idle
\* Where p neither begins an attempt nor enters its loop, its numbers stay.
<1>1. ASSUME call'[p].begun = call[p].begun, call'[p].limit = call[p].limit, pend[p].op # "begin",
             call'[p].pc \in BeforeLoop => call[p].pc \in BeforeLoop,
             call'[p].pc \notin BeforeLoop \cup Over => call[p].pc \notin BeforeLoop \cup Over,
             call'[p].pc # "begin"
      PROVE  BudgetOK(p)'
  <2>1. /\ call'[p].begun <= MaxWorkerAttempts
        /\ call'[p].pc \in BeforeLoop => call'[p].begun = 0
    BY <1>1, <1>a DEF BudgetOK
  <2>2. call'[p].pc \notin BeforeLoop \cup Over =>
            call'[p].begun + call'[p].limit <= MaxWorkerAttempts + Cardinality(Present')
    <3>1. SUFFICES ASSUME call'[p].pc \notin BeforeLoop \cup Over
                   PROVE  call'[p].begun + call'[p].limit <= MaxWorkerAttempts + Cardinality(Present')
      OBVIOUS
    <3>2. call[p].begun + call[p].limit <= MaxWorkerAttempts + Cardinality(Present)
      BY <1>1, <1>a, <1>b, <3>1 DEF BudgetOK
    <3>3. call[p].begun \in Nat /\ call[p].limit \in Nat
      BY <1>a
    <3> QED
      BY <1>1, <1>a, <1>b, <3>2, <3>3
  <2>3. call'[p].begun \in Nat /\ call'[p].limit \in Nat
    BY <1>a
  <2> HIDE DEF CallTypeOK, Call
  <2> QED
    BY <1>1, <1>a, <1>b, <2>1, <2>2, <2>3 DEF BudgetOK
<1>2. CASE StartCall(p) \/ Die(p)
  <2>1. call'[p].begun = 0 /\ call'[p].pc \in {"load", "idle"}
    BY <1>a, <1>2 DEF StartCall, Die, NoCall
  <2> QED
    BY <1>a, <2>1 DEF BudgetOK, BeforeLoop, Over
<1>3. CASE LoadJob(p) \/ Replay(p)
  <2>1. /\ call'[p].begun = call[p].begun /\ call'[p].limit = call[p].limit
        /\ call'[p].pc \in {"creating", "replaying", "loaded", "returned"}
        /\ call[p].pc \in {"load", "replaying"}
    BY <1>a, <1>3 DEF LoadJob, Replay, Goto, At
  <2> QED
    BY <1>1, <1>c, <1>f, <2>1 DEF BeforeLoop, Over, Owing
<1>4. CASE SetLimit(p)
  <2>1. /\ call'[p].begun = call[p].begun /\ call'[p].limit = Cardinality(Present) + MaxWorkerAttempts
        /\ call'[p].pc = "loop" /\ call[p].pc = "loaded" /\ Present' = Present
    BY <1>a, <1>4, StableAttempts DEF SetLimit, At, storeVars
  <2>2. call[p].begun = 0
    BY <1>a, <2>1 DEF BudgetOK, BeforeLoop
  <2> HIDE DEF CallTypeOK, Call
  <2> QED
    BY <1>a, <1>b, <2>1, <2>2 DEF BudgetOK, BeforeLoop, Over
<1>5. CASE Loop(p)
  <2>1. /\ call'[p].begun = call[p].begun /\ call'[p].limit = call[p].limit /\ call[p].pc = "loop"
        /\ call'[p].pc = IF AttemptsLeft(p) THEN "begin" ELSE "raised"
        /\ pend[p] = Idle /\ pend' = pend /\ Present' = Present
    BY <1>5, <1>d, StableAttempts DEF Loop, At, storeVars, PCs
  <2>2. CASE AttemptsLeft(p)
    <3>1. Cardinality(Present) < call[p].limit
      BY <2>2 DEF AttemptsLeft
    <3>2. call[p].begun \in Nat /\ call[p].limit \in Nat
      BY <1>a
    <3>3. call[p].begun + call[p].limit <= MaxWorkerAttempts + Cardinality(Present)
      BY <1>a, <1>b, <1>f, <2>1 DEF BudgetOK, BeforeLoop, Over
    <3>4. call[p].begun < MaxWorkerAttempts
      BY <1>a, <1>b, <3>1, <3>2, <3>3
    <3> HIDE DEF CallTypeOK, Call
    <3> QED
      BY <1>a, <1>b, <1>f, <2>1, <2>2, <3>2, <3>3, <3>4 DEF BudgetOK, BeforeLoop, Over
  <2>3. CASE ~AttemptsLeft(p)
    BY <1>1, <1>f, <2>1, <2>3 DEF BeforeLoop, Over
  <2> QED
    BY <2>2, <2>3
<1>6. CASE Begin(p)
  <2>1. CASE Goto(p, "raised")
    BY <1>1, <1>6, <1>d, <1>f, <2>1 DEF Begin, At, BeforeLoop, Over, PCs
  <2>2. CASE /\ BeginAttempt(p)
             /\ call' = [call EXCEPT ![p].pc = "beginning", ![p].att = pend'[p].att, ![p].begun = @ + 1]
    <3>1. /\ call'[p].pc = "beginning" /\ call'[p].begun = call[p].begun + 1 /\ call[p].pc = "begin"
          /\ call'[p].limit = call[p].limit /\ pend[p] = Idle
      BY <1>6, <1>a, <2>2 DEF Begin, At
    <3>2. pend'[p].op = "begin" /\ ~pend'[p].wrote
      BY <1>a, <2>2 DEF BeginAttempt, Enter
    <3>3. call[p].begun \in Nat /\ call[p].limit \in Nat
      BY <1>a
    <3>4. /\ call[p].begun + call[p].limit <= MaxWorkerAttempts + Cardinality(Present)
          /\ call[p].begun < MaxWorkerAttempts
      BY <1>a, <1>b, <1>f, <3>1 DEF BudgetOK, BeforeLoop, Over
    <3> HIDE DEF CallTypeOK, Call
    <3> QED
      BY <1>a, <1>b, <3>1, <3>2, <3>3, <3>4 DEF BudgetOK, BeforeLoop, Over
  <2> QED
    BY <1>6, <2>1, <2>2 DEF Begin
<1>7. CASE Save(p)
  <2>a. /\ pend[p] # Idle /\ call[p].pc \in Owing /\ PendMatch(p) /\ PendOK(pend[p]) /\ pend[p] \in Pending
    BY <1>7, OwesWhileSaving, Saver DEF CallIInv, CallRest, PendMatches, Save, WriteAttempt, WriteJob, Idle
  <2>b. /\ call'[p].begun = call[p].begun /\ call'[p].limit = call[p].limit
        /\ call'[p].pc = IF pend'[p] # Idle THEN call[p].pc ELSE After[call[p].pc]
    BY <1>7, <1>a DEF Save
  <2>1. CASE call[p].pc = "beginning"
    <3>1. BeginPend(pend[p]) /\ pend[p].op = "begin" /\ pend[p].job # NoJob /\ pend[p].att \in AttemptIds
      BY <2>1, <2>a, JobStoreAssumption
         DEF PendMatch, PendOK, BeginPend, AttemptPend, FailPend, ClosePend, CreatePend, OtherPend, NoJob, Pending,
             AttemptIds
    <3>2. /\ call[p].begun \in Nat /\ call[p].limit \in Nat /\ call[p].begun <= MaxWorkerAttempts
          /\ call[p].begun + call[p].limit <=
                MaxWorkerAttempts + Cardinality(Present) + (IF ~pend[p].wrote THEN 1 ELSE 0)
      BY <1>a, <1>b, <2>1, <3>1 DEF BudgetOK, BeforeLoop, Over
    <3>3. CASE WriteAttempt(p)
      <4>1. ~pend[p].wrote /\ pend'[p].op = "begin" /\ pend'[p].wrote
        BY <1>a, <2>a, <3>1, <3>3 DEF WriteAttempt, Pending
      <4>2. pend[p].att \in Present' /\ pend[p].att \notin Present
        BY <3>1, <3>3, <4>1 DEF WriteAttempt, BeginPend, Present, CallIInv, IInv, TypeOK
      <4>3. Present \cup {pend[p].att} \subseteq Present' /\ Present' \subseteq AttemptIds
        BY <4>2, PresentGrows
      <4>4. Cardinality(Present) + 1 <= Cardinality(Present')
        <5>1. IsFiniteSet(Present) /\ Cardinality(Present \cup {pend[p].att}) = Cardinality(Present) + 1
          BY <4>2, SettledPresent, AttemptsFinite, FS_AddElement
        <5>2. Cardinality(Present \cup {pend[p].att}) <= Cardinality(Present')
          BY <4>3, AttemptsFinite
        <5> QED
          BY <5>1, <5>2
      <4>5. call'[p].pc = "beginning"
        BY <2>1, <2>b, <4>1 DEF Idle
      <4> HIDE DEF CallTypeOK, Call
      <4> QED
        BY <1>a, <1>b, <2>b, <3>2, <4>1, <4>4, <4>5 DEF BudgetOK, BeforeLoop, Over
    <3>4. CASE WriteJob(p)
      <4>1. pend[p].wrote /\ pend'[p] = Idle
        BY <1>a, <3>1, <3>4 DEF WriteJob, Release, BeginPend
      <4>2. call'[p].pc = "packet"
        BY <2>1, <2>b, <4>1, AfterSave
      <4> HIDE DEF CallTypeOK, Call
      <4> QED
        BY <1>a, <1>b, <1>f, <2>b, <3>2, <4>1, <4>2 DEF BudgetOK, BeforeLoop, Over
    <3> QED
      BY <1>7, <3>3, <3>4 DEF Save
  <2>2. CASE call[p].pc # "beginning"
    <3>1. pend[p].op # "begin"
      BY <2>2, <2>a DEF PendMatch
    <3>2. /\ call'[p].pc # "begin"
          /\ call'[p].pc \in BeforeLoop => call[p].pc \in BeforeLoop
          /\ call'[p].pc \notin BeforeLoop \cup Over => call[p].pc \notin BeforeLoop \cup Over
      BY <2>2, <2>a, <2>b, AfterSave DEF Owing, BeforeLoop, Over
    <3> QED
      BY <1>1, <2>b, <3>1, <3>2
  <2> QED
    BY <2>1, <2>2
<1>8. CASE \/ Packet(p) \/ WorkerAnswers(p) \/ PublishArtifact(p) \/ Finish(p) \/ Close(p)
           \/ StepRaises(p) \/ Handle(p) \/ GiveUp(p)
  <2>1. pend[p] = Idle /\ call[p].pc \in {"packet", "worker", "publish", "finish", "close", "handle", "giveup"}
    BY <1>8, <1>c DEF Packet, WorkerAnswers, PublishArtifact, Finish, Close, StepRaises, Handle, GiveUp, At,
                Working, CallIInv, CallRest, PendMatches, PendMatch, Idle
  <2>2. /\ call'[p].begun = call[p].begun /\ call'[p].limit = call[p].limit
        /\ call'[p].pc \in {"recording", "publish", "finish", "finishing", "closing", "rejecting", "handle",
                            "failing", "givingup", "loop", "raised"}
    <3>1. CASE Packet(p) \/ Finish(p) \/ Handle(p)
      BY <1>d, <1>e, <3>1 DEF Packet, Finish, Handle, PCs, Errors
    <3>2. CASE WorkerAnswers(p)
      BY <1>a, <3>2 DEF WorkerAnswers
    <3>3. CASE PublishArtifact(p) \/ StepRaises(p)
      BY <1>d, <1>e, <3>3 DEF PublishArtifact, StepRaises, PCs
    <3>4. CASE Close(p) \/ GiveUp(p)
      BY <1>d, <1>e, <3>4 DEF Close, GiveUp, PCs, Errors
    <3> QED
      BY <1>8, <3>1, <3>2, <3>3, <3>4
  <2> QED
    BY <1>1, <1>f, <2>1, <2>2 DEF BeforeLoop, Over
<1> QED
  BY <1>2, <1>3, <1>4, <1>5, <1>6, <1>7, <1>8 DEF Step

\* While saving does not fail, one call begins no more attempts than
\* max_worker_attempts, whatever the other controllers begin meanwhile.
THEOREM BudgetKept == ~DiskFails => (CallSpec => []AttemptBudget)
<1> SUFFICES ASSUME ~DiskFails
             PROVE  CallSpec => []AttemptBudget
  OBVIOUS
<1>1. CallInit => BudgetInv
  BY WorkerCallAssumption DEF CallInit, BudgetInv, BudgetOK, NoCall, BeforeLoop, Over, Unlimited
<1>2. CallIInv /\ CallIInv' /\ BudgetInv /\ [CallNext]_vars => BudgetInv'
  <2> SUFFICES ASSUME CallIInv, CallIInv', BudgetInv, [CallNext]_vars, ~Unlimited, NEW q \in Procs
               PROVE  BudgetOK(q)'
    BY DEF BudgetInv, Unlimited
  <2>a. CallTypeOK' /\ BudgetOK(q)
    BY DEF CallIInv, BudgetInv
  <2>1. ASSUME call'[q] = call[q], pend'[q] = pend[q], Cardinality(Present) <= Cardinality(Present'),
               Cardinality(Present') \in Nat
        PROVE  BudgetOK(q)'
    <3>1. call[q].begun \in Nat /\ call[q].limit \in Nat /\ MaxWorkerAttempts \in Nat /\ Cardinality(Present) \in Nat
      BY SettledPresent, WorkerCallAssumption DEF CallIInv, CallTypeOK, Call
    <3> QED
      BY <2>1, <2>a, <3>1 DEF BudgetOK
  <2>2. ASSUME NEW p \in Procs, StartCall(p) \/ Step(p) \/ StepRaises(p) \/ Die(p), CallNext
        PROVE  BudgetOK(q)'
    <3>1. CASE q = p
      BY <2>2, <2>a, <3>1, BudgetStep
    <3>2. CASE q # p
      <4>1. call'[q] = call[q]
        BY <2>2, <3>2, OthersCalls DEF CallIInv
      <4>2. Cardinality(Present) <= Cardinality(Present') /\ Cardinality(Present') \in Nat
        BY <2>2, PresentGrows, AttemptsFinite
      <4>3. CASE pend'[q] = pend[q]
        BY <2>1, <4>1, <4>2, <4>3
      <4>4. CASE pend'[q] # pend[q]
        BY <2>2, <3>2, <4>4, OthersPend
      <4> QED
        BY <4>3, <4>4
    <3> QED
      BY <3>1, <3>2
  <2>3. CASE Tamper \/ UNCHANGED vars
    <3>1. call' = call /\ pend' = pend /\ Present' = Present
      BY <2>3, StableAttempts DEF Tamper, vars, storeVars, WriteArtifact
    <3> QED
      BY <2>1, <3>1, SettledPresent
  <2> QED
    BY <2>2, <2>3 DEF CallNext, SaveFails
<1>3. BudgetInv => AttemptBudget
  BY DEF BudgetInv, BudgetOK, AttemptBudget
<1> QED
  BY <1>1, <1>2, <1>3, CallInvariant, PTL DEF CallSpec
=============================================================================
