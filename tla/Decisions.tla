----------------------------- MODULE Decisions ------------------------------
(***************************************************************************)
(* A product decision only the operator may take: the run that stops for   *)
(* it, the sessions of "manageroo decisions answer" that answer it, and    *)
(* the continuations that apply the answer (discovery_policy.py,           *)
(* entrypoint.py, and the decision part of Orchestrator.run).              *)
(*                                                                         *)
(* One decision is modelled.  Sessions and continuations take different    *)
(* locks and pass the answer through files under planning/.                *)
(***************************************************************************)
EXTENDS Naturals, FiniteSets

CONSTANTS
    Controllers,  \* processes that run or continue the run
    Sessions,     \* operators' answering sessions, one answer each
    Choices,      \* the options of the decision
    Faults,       \* kinds of fault that may happen
    MaxFaults,    \* bound: faults in one behaviour
    None

\* "race": a session saves between the look and the rename of a restore.
FaultKinds == {"kill", "hangup", "write", "race"}

ASSUME DecisionsAssumption ==
    /\ Faults \subseteq FaultKinds
    /\ MaxFaults \in Nat
    /\ Controllers \cap Sessions = {}
    /\ None \notin Controllers \cup Sessions \cup Choices \cup [by : Sessions, choice : Choices]
    /\ Choices \cap {"missing", "open"} = {}

VARIABLES
    pc,          \* where each process stands
    productLock, \* the controller that holds the lock of product-model.json
    answerLock,  \* the session that holds the lock of resolved-decisions.json
    product,     \* product-model.json: "missing", its decision "open", or a choice
    blocking,    \* blocking-decisions.json: "none", "present" or renamed "aside"
    resolved,    \* resolved-decisions.json: a submission
    claims,      \* submissions a continuation has renamed to claim them
    resolution,  \* decision-resolution.json: the choice it records
    mine,        \* per controller: the submission it is applying
    used,        \* per controller: the product model it goes on with
    answer,      \* per session: the operator's choice
    faults       \* faults so far

files == <<product, blocking, resolved, claims, resolution>>
locals == <<mine, used, answer>>
vars == <<pc, productLock, answerLock, files, locals, faults>>

-----------------------------------------------------------------------------
Submission == [by : Sessions, choice : Choices]
ControllerPCs == {"off", "recover", "unlink", "claim", "apply", "write", "record", "finish",
                  "restore", "rename", "check", "product", "analysed", "block", "plan",
                  "implementing"}
SessionPCs == {"idle", "asking", "lock", "aside", "save", "back", "publish",
               "saved", "refused", "dead"}

TypeOK ==
    /\ \A c \in Controllers : pc[c] \in ControllerPCs
    /\ \A s \in Sessions : pc[s] \in SessionPCs
    /\ productLock \in Controllers \cup {None}
    /\ answerLock \in Sessions \cup {None}
    /\ product \in Choices \cup {"missing", "open"}
    /\ blocking \in {"none", "present", "aside"}
    /\ resolved \in Submission \cup {None}
    /\ claims \subseteq Submission
    /\ resolution \in Choices \cup {None}
    /\ mine \in [Controllers -> Submission \cup {None}]
    /\ used \in [Controllers -> Choices \cup {"missing", "open"}]
    /\ answer \in [Sessions -> Choices \cup {None}]
    /\ faults \in 0 .. MaxFaults

\* A new run: its first controller does not continue anything.
Init ==
    /\ \E first \in Controllers :
          pc = [p \in Controllers \cup Sessions |->
                   IF p = first THEN "product" ELSE IF p \in Sessions THEN "idle" ELSE "off"]
    /\ productLock = None
    /\ answerLock = None
    /\ product = "missing"
    /\ blocking = "none"
    /\ resolved = None
    /\ claims = {}
    /\ resolution = None
    /\ mine = [c \in Controllers |-> None]
    /\ used = [c \in Controllers |-> "missing"]
    /\ answer = [s \in Sessions |-> None]
    /\ faults = 0

-----------------------------------------------------------------------------
At(p, step) == pc[p] = step
Goto(p, next) == pc' = [pc EXCEPT ![p] = next]
Fault(kind) == kind \in Faults /\ faults < MaxFaults /\ faults' = faults + 1

\* The product model, its choice and the record of it agree.
FullyResolved == resolution # None /\ product = resolution

\* A controller leaves apply_resolved_decisions, and with it the lock.
Leave(c, next) == productLock' = None /\ Goto(c, next)

Continue(c) ==
    /\ At(c, "off")
    /\ productLock = None
    /\ productLock' = c
    /\ Goto(c, "recover")
    /\ mine' = [mine EXCEPT ![c] = None]
    /\ UNCHANGED <<answerLock, files, used, answer, faults>>

\* _recover_orphaned_claim: a claim of a process that died goes back by a link,
\* unless something else has been submitted since.

\* Mutant: a newer submission replaces the orphaned one.
RecoverClaim_Newest(c) ==
    /\ At(c, "recover")
    /\ \/ claims = {} /\ Goto(c, "claim") /\ UNCHANGED <<productLock, resolved, claims>>
       \/ /\ claims # {} /\ resolved # None
          /\ claims' = {}
          /\ Goto(c, "claim")
          /\ UNCHANGED <<productLock, resolved>>
       \/ /\ resolved = None /\ Cardinality(claims) = 1
          /\ resolved' \in claims
          /\ Goto(c, "unlink")
          /\ UNCHANGED <<productLock, claims>>
       \/ /\ resolved = None /\ Cardinality(claims) > 1
          /\ Leave(c, "off")
          /\ UNCHANGED <<resolved, claims>>
    /\ UNCHANGED <<answerLock, product, blocking, resolution, locals, faults>>
RecoverClaim(c) ==
    /\ At(c, "recover")
    /\ \/ claims = {} /\ Goto(c, "claim") /\ UNCHANGED <<productLock, resolved, claims>>
       \/ /\ claims # {} /\ claims = {resolved}
          /\ claims' = {}
          /\ Goto(c, "claim")
          /\ UNCHANGED <<productLock, resolved>>
       \/ /\ resolved = None /\ Cardinality(claims) = 1
          /\ resolved' \in claims
          /\ Goto(c, "unlink")
          /\ UNCHANGED <<productLock, claims>>
       \/ /\ claims # {} /\ claims # {resolved}
          /\ resolved # None \/ Cardinality(claims) > 1
          /\ Leave(c, "off")
          /\ UNCHANGED <<resolved, claims>>
    /\ UNCHANGED <<answerLock, product, blocking, resolution, locals, faults>>

UnlinkClaim(c) ==
    /\ At(c, "unlink")
    /\ claims' = {}
    /\ Goto(c, "claim")
    /\ UNCHANGED <<productLock, answerLock, product, blocking, resolved, resolution, locals, faults>>

ClaimResolved(c) ==
    /\ At(c, "claim")
    /\ IF resolved = None
       THEN Leave(c, "check") /\ UNCHANGED <<resolved, claims, mine>>
       ELSE /\ claims' = claims \cup {resolved}
            /\ mine' = [mine EXCEPT ![c] = resolved]
            /\ resolved' = None
            /\ Goto(c, "apply")
            /\ UNCHANGED productLock
    /\ UNCHANGED <<answerLock, product, blocking, resolution, used, answer, faults>>

\* An answer settles an open decision; one that is settled must not differ.

\* Mutant: the answer replaces an applied choice.
Apply_Replace(c) ==
    /\ At(c, "apply")
    /\ Goto(c, IF product = mine[c].choice THEN "record" ELSE "write")
    /\ UNCHANGED <<productLock, answerLock, files, locals, faults>>
Apply(c) ==
    /\ At(c, "apply")
    /\ Goto(c, IF product = "open" THEN "write"
               ELSE IF product = mine[c].choice THEN "record" ELSE "restore")
    /\ UNCHANGED <<productLock, answerLock, files, locals, faults>>

\* The product model with the choice is written locked: from then on the store
\* refuses every other write of it.
WriteProduct(c) ==
    /\ At(c, "write")
    /\ product' = mine[c].choice
    /\ Goto(c, "record")
    /\ UNCHANGED <<productLock, answerLock, blocking, resolved, claims, resolution, locals, faults>>

WriteResolution(c) ==
    /\ At(c, "record")
    /\ resolution' = IF resolution = None THEN mine[c].choice ELSE resolution
    /\ Goto(c, "finish")
    /\ UNCHANGED <<productLock, answerLock, product, blocking, resolved, claims, locals, faults>>

FinishClaim(c) ==
    /\ At(c, "finish")
    /\ claims' = claims \ {mine[c]}
    /\ Leave(c, "check")
    /\ UNCHANGED <<answerLock, product, blocking, resolved, resolution, locals, faults>>

ApplyFails(c) ==
    /\ pc[c] \in {"write", "record"}
    /\ Fault("write")
    /\ Goto(c, "restore")
    /\ UNCHANGED <<productLock, answerLock, files, locals>>

\* _restore_failed_claim, whose look and rename are two system calls.
RestoreClaim(c) ==
    /\ At(c, "restore")
    /\ \/ /\ resolved = None
          /\ resolved' = mine[c]
          /\ claims' = claims \ {mine[c]}
          /\ Leave(c, "off")
          /\ UNCHANGED faults
       \/ /\ resolved = None
          /\ Fault("race")
          /\ Goto(c, "rename")
          /\ UNCHANGED <<productLock, resolved, claims>>
       \/ /\ resolved # None
          /\ Leave(c, "off")
          /\ UNCHANGED <<resolved, claims, faults>>
    /\ UNCHANGED <<answerLock, product, blocking, resolution, locals>>

RenameBack(c) ==
    /\ At(c, "rename")
    /\ resolved' = mine[c]
    /\ claims' = claims \ {mine[c]}
    /\ Leave(c, "off")
    /\ UNCHANGED <<answerLock, product, blocking, resolution, locals, faults>>
-----------------------------------------------------------------------------
\* The run itself: it stops while the decision is open, as far as it can see.

CheckBlocking(c) ==
    /\ At(c, "check")
    /\ Goto(c, IF blocking = "present" /\ ~FullyResolved THEN "off" ELSE "product")
    /\ UNCHANGED <<productLock, answerLock, files, locals, faults>>

ReadProduct(c) ==
    /\ At(c, "product")
    /\ used' = [used EXCEPT ![c] = product]
    /\ Goto(c, IF product = "missing" THEN "analysed" ELSE "plan")
    /\ UNCHANGED <<productLock, answerLock, files, mine, answer, faults>>

\* The analyst's answer leaves the decision open: the model is written unlocked.
WriteOpenProduct(c) ==
    /\ At(c, "analysed")
    /\ IF product \in {"missing", "open"}
       THEN product' = "open" /\ Goto(c, "block")
       ELSE UNCHANGED product /\ Goto(c, "off")
    /\ UNCHANGED <<productLock, answerLock, blocking, resolved, claims, resolution, locals, faults>>

\* Written locked; a second controller's write of it is refused.
WriteBlocking(c) ==
    /\ At(c, "block")
    /\ blocking' = IF blocking = "none" THEN "present" ELSE blocking
    /\ Goto(c, "off")
    /\ UNCHANGED <<productLock, answerLock, product, resolved, claims, resolution, locals, faults>>

\* verify_locked before the contract is locked: a locked artifact must be there.
LockContract(c) ==
    /\ At(c, "plan")
    /\ Goto(c, IF blocking = "aside" THEN "off" ELSE "implementing")
    /\ UNCHANGED <<productLock, answerLock, files, locals, faults>>

Kill(c) ==
    /\ pc[c] \notin {"off", "implementing"}
    /\ Fault("kill")
    /\ Goto(c, "off")
    /\ productLock' = IF productLock = c THEN None ELSE productLock
    /\ UNCHANGED <<answerLock, files, locals>>
-----------------------------------------------------------------------------
\* A session reads the question, asks the operator, and saves under its lock.

SessionEnds(s, how) == answerLock' = None /\ Goto(s, how)

\* The question is on file under its name, and not resolved in full.
StillAsked == blocking = "present" /\ ~FullyResolved

ReadQuestion(s) ==
    /\ At(s, "idle")
    /\ StillAsked
    /\ Goto(s, "asking")
    /\ UNCHANGED <<productLock, answerLock, files, locals, faults>>

Choose(s) ==
    /\ At(s, "asking")
    /\ \E choice \in Choices : answer' = [answer EXCEPT ![s] = choice]
    /\ Goto(s, "lock")
    /\ UNCHANGED <<productLock, answerLock, files, mine, used, faults>>

\* A submission that waits, or a question that is no longer open, refuses it.
EnterAnswer(s) ==
    /\ At(s, "lock")
    /\ answerLock = None
    /\ IF resolved = None /\ StillAsked
       THEN answerLock' = s /\ Goto(s, "aside")
       ELSE SessionEnds(s, "refused")
    /\ UNCHANGED <<productLock, files, locals, faults>>

\* _claimed_blocking_decisions renames the question while the answer is saved.
SetAside(s) ==
    /\ At(s, "aside")
    /\ blocking' = "aside"
    /\ Goto(s, "save")
    /\ UNCHANGED <<productLock, answerLock, product, resolved, claims, resolution, locals, faults>>

Submitted(s) == [by |-> s, choice |-> answer[s]]

SaveAnswer(s) ==
    /\ At(s, "save")
    /\ IF FullyResolved \/ resolved # None
       THEN blocking' = "present" /\ SessionEnds(s, "refused") /\ UNCHANGED resolved
       ELSE resolved' = Submitted(s) /\ Goto(s, "back") /\ UNCHANGED <<answerLock, blocking>>
    /\ UNCHANGED <<productLock, product, claims, resolution, locals, faults>>

PutBack(s) ==
    /\ At(s, "back")
    /\ blocking' = "present"
    /\ Goto(s, "publish")
    /\ UNCHANGED <<productLock, answerLock, product, resolved, claims, resolution, locals, faults>>

Publish(s) ==
    /\ At(s, "publish")
    /\ SessionEnds(s, "saved")
    /\ UNCHANGED <<productLock, files, locals, faults>>

\* The planning directory is not the pinned one any more, or publishing fails:
\* the answer is withdrawn if it is still there.
Withdraw(s) ==
    /\ At(s, "publish")
    /\ Fault("write")
    /\ SessionEnds(s, "refused")
    /\ resolved' = None
    /\ UNCHANGED <<productLock, product, blocking, claims, resolution, locals>>

\* Killed, or its input ended.
HangUp(s) ==
    /\ pc[s] \in {"asking", "lock", "aside", "save", "back", "publish"}
    /\ Fault("hangup")
    /\ Goto(s, "dead")
    /\ answerLock' = IF answerLock = s THEN None ELSE answerLock
    /\ UNCHANGED <<productLock, files, locals>>

Next ==
    \/ \E c \in Controllers :
          \/ Continue(c) \/ RecoverClaim(c) \/ UnlinkClaim(c) \/ ClaimResolved(c) \/ Apply(c)
          \/ WriteProduct(c) \/ WriteResolution(c) \/ FinishClaim(c) \/ ApplyFails(c)
          \/ RestoreClaim(c) \/ RenameBack(c)
          \/ CheckBlocking(c) \/ ReadProduct(c) \/ WriteOpenProduct(c) \/ WriteBlocking(c)
          \/ LockContract(c) \/ Kill(c)
    \/ \E s \in Sessions :
          \/ ReadQuestion(s) \/ Choose(s) \/ EnterAnswer(s) \/ SetAside(s) \/ SaveAnswer(s)
          \/ PutBack(s) \/ Publish(s) \/ Withdraw(s)
          \/ HangUp(s)

Spec == Init /\ [][Next]_vars
-----------------------------------------------------------------------------
\* All controllers that go on with a settled decision go on with the same
\* choice, the one on disk, which some session gave; the record never contradicts
\* it.  Answers given late, twice or applied half-way do not change it.
OneDecision ==
    /\ resolution \in {None, product}
    /\ product \in Choices => \E s \in Sessions : answer[s] = product
    /\ \A c \in Controllers : used[c] \in Choices => used[c] = product

\* discovery_policy.py:155-156: no submission of an operator is deleted: an
\* answer a session reported as saved is applied, or still on disk.
SubmissionKept ==
    \A s \in Sessions :
        At(s, "saved") =>
            \/ product = answer[s]
            \/ Submitted(s) \in claims \cup {resolved}

\* docs/ENFORCEMENT_MATRIX.md: "Unresolved product decision cannot be skipped on
\* continue".  No controller begins to implement with an open decision.
NoOpenDecision == \A c \in Controllers : At(c, "implementing") => used[c] \in Choices
=============================================================================
