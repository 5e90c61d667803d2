--------------------------- MODULE ControllerProofs ---------------------------
(***************************************************************************)
(* Theorems about the parts of a controller that answer for their own      *)
(* records: product decisions, repair lanes, the phases of a run, the      *)
(* worker adapters and the gate runner with its services; and about the    *)
(* skill routing beside them.  They share no variable; each section gives a *)
(* part's inductive invariant, the lemmas that every action keeps it, and  *)
(* the properties that follow.                                             *)
(***************************************************************************)
EXTENDS MCController, Capability, TLAPS, WellFoundedInduction

\* A set of natural numbers with a bound has a greatest member.
LEMMA GreatestMember ==
    ASSUME NEW n \in Nat, NEW S \in SUBSET (1 .. n), S # {}
    PROVE  \E m \in S : \A k \in S : k <= m
<1> DEFINE T == {i \in Nat : n - i \in S}
<1>1. T \subseteq Nat /\ T # {}
  <2>1. PICK m \in S : TRUE
    OBVIOUS
  <2>2. n - m \in Nat /\ n - (n - m) = m
    OBVIOUS
  <2> QED
    BY <2>1, <2>2
<1>2. PICK x \in T : \A y \in T : ~ (<<y, x>> \in OpToRel(<, Nat))
  BY <1>1, NatLessThanWellFounded, WFMin
<1>3. \A y \in T : ~ (y < x)
  <2>1. \A y \in Nat : y < x => <<y, x>> \in OpToRel(<, Nat)
    BY <1>1 DEF OpToRel
  <2> QED
    BY <1>1, <1>2, <2>1
<1>4. \A k \in S : k <= n - x
  <2> TAKE k \in S
  <2>1. n - k \in T
    OBVIOUS
  <2> QED
    BY <2>1, <1>3
<1> QED
  BY <1>4
-----------------------------------------------------------------------------
(* Decisions: one choice, whoever answers and whichever controller applies. *)

\* Where a controller holds the lock of the product model, and a session that
\* of the submissions.
Applying == {"recover", "unlink", "claim", "apply", "write", "record", "finish", "restore", "rename"}
Saving == {"aside", "save", "back", "publish"}

\* Where the answer of a session does not change any more.
Answered == {"back", "publish", "saved", "refused", "dead"}

\* Every process stands somewhere, the locks are where their holders are, and a
\* session that goes for its lock, or has saved, has an answer.
LocksInv ==
    /\ pc \in [Controllers \cup Sessions -> ControllerPCs \cup SessionPCs]
    /\ \A c \in Controllers : pc[c] \in Applying <=> productLock = c
    /\ \A s \in Sessions : /\ pc[s] \in Saving <=> answerLock = s
                           /\ pc[s] \in Saving \cup {"lock", "saved"} => answer[s] \in Choices

\* A submission holds what its session was told, whatever is done with it.
Genuine(r) == r = Submitted(r.by) /\ pc[r.by] \in Answered

AnswersGenuine ==
    /\ resolved # None => Genuine(resolved)
    /\ \A r \in claims : Genuine(r)
    /\ \A c \in Controllers :
          pc[c] \in {"apply", "write", "record", "finish", "restore", "rename"} =>
              mine[c] # None /\ Genuine(mine[c])

\* A choice is written once, over the open decision, before any record of it.
ChoiceInv ==
    /\ resolution \in {None, product}
    /\ product \in Choices => \E s \in Sessions : answer[s] = product /\ pc[s] \in Answered
    /\ \A c \in Controllers :
          /\ used[c] \in Choices => used[c] = product
          /\ At(c, "write") => product = "open"
          /\ pc[c] \in {"record", "finish"} => product = mine[c].choice

DecisionInv == TypeOK /\ LocksInv /\ AnswersGenuine /\ ChoiceInv

\* Where each submission is: a controller that applies one has it as the only
\* claim, and clears no other one than it put back.
ClaimsInv ==
    /\ \A r, q \in claims : r = q
    /\ \A c \in Controllers :
          /\ At(c, "claim") => claims = {}
          /\ At(c, "unlink") => \A r \in claims : r = resolved \/ pc[r.by] = "refused"
          /\ pc[c] \in {"apply", "write", "record", "finish", "restore"} => claims = {mine[c]}
          /\ pc[c] # "rename"

\* A session that saves a submission finds no other in its place, and one that
\* has saved it can point to it.
SavedInv ==
    \A s \in Sessions :
        /\ pc[s] \in {"back", "publish"} =>
              /\ resolved \in {None, Submitted(s)}
              /\ resolved = None => claims \subseteq {Submitted(s)}
        /\ pc[s] \in {"back", "publish", "saved"} =>
              product = answer[s] \/ Submitted(s) \in claims \cup {resolved}

KeptInv == "race" \notin Faults => ClaimsInv /\ SavedInv

\* The initial states of a decision are typed.
LEMMA DecisionTypeInit == Init => TypeOK
BY DecisionsAssumption DEF Init, TypeOK, ControllerPCs, SessionPCs

\* Every step keeps the types, the locks' holders and the answers' presence.
LEMMA DecisionTypeStep == TypeOK /\ LocksInv /\ AnswersGenuine /\ [Next]_vars => TypeOK' /\ LocksInv'
<1> SUFFICES ASSUME TypeOK, LocksInv, AnswersGenuine, [Next]_vars
             PROVE  TypeOK' /\ LocksInv'
  OBVIOUS
<1>a. /\ \A c \in Controllers : pc[c] \in {"write", "record"} => mine[c].choice \in Choices
      /\ \A s \in Sessions : pc[s] = "save" => Submitted(s) \in Submission
  BY DEF TypeOK, LocksInv, AnswersGenuine, Submission, Submitted, Saving
<1> USE DecisionsAssumption, <1>a
        DEF TypeOK, LocksInv, At, Goto, Fault, files, locals, Leave, SessionEnds, ControllerPCs,
            SessionPCs, Applying, Saving

<1>1. CASE \E c \in Controllers : Continue(c)
  BY <1>1 DEF Continue
<1>2. CASE \E c \in Controllers : RecoverClaim(c)
  BY <1>2 DEF RecoverClaim
<1>3. CASE \E c \in Controllers : UnlinkClaim(c)
  BY <1>3 DEF UnlinkClaim
<1>4. CASE \E c \in Controllers : ClaimResolved(c)
  BY <1>4 DEF ClaimResolved
<1>5. CASE \E c \in Controllers : Apply(c)
  BY <1>5 DEF Apply
<1>6. CASE \E c \in Controllers : WriteProduct(c)
  BY <1>6 DEF WriteProduct
<1>7. CASE \E c \in Controllers : WriteResolution(c)
  BY <1>7 DEF WriteResolution
<1>8. CASE \E c \in Controllers : FinishClaim(c)
  BY <1>8 DEF FinishClaim
<1>9. CASE \E c \in Controllers : ApplyFails(c)
  BY <1>9 DEF ApplyFails
<1>10. CASE \E c \in Controllers : RestoreClaim(c)
  BY <1>10 DEF RestoreClaim
<1>11. CASE \E c \in Controllers : RenameBack(c)
  BY <1>11 DEF RenameBack
<1>12. CASE \E c \in Controllers : CheckBlocking(c)
  BY <1>12 DEF CheckBlocking
<1>13. CASE \E c \in Controllers : ReadProduct(c)
  BY <1>13 DEF ReadProduct
<1>14. CASE \E c \in Controllers : WriteOpenProduct(c)
  BY <1>14 DEF WriteOpenProduct
<1>15. CASE \E c \in Controllers : WriteBlocking(c)
  BY <1>15 DEF WriteBlocking
<1>16. CASE \E c \in Controllers : LockContract(c)
  BY <1>16 DEF LockContract
<1>17. CASE \E c \in Controllers : Kill(c)
  BY <1>17 DEF Kill
<1>18. CASE \E s \in Sessions : ReadQuestion(s)
  BY <1>18 DEF ReadQuestion
<1>19. CASE \E s \in Sessions : Choose(s)
  BY <1>19 DEF Choose
<1>20. CASE \E s \in Sessions : EnterAnswer(s)
  BY <1>20 DEF EnterAnswer
<1>21. CASE \E s \in Sessions : SetAside(s)
  BY <1>21 DEF SetAside
<1>22. CASE \E s \in Sessions : SaveAnswer(s)
  BY <1>22 DEF SaveAnswer
<1>23. CASE \E s \in Sessions : PutBack(s)
  BY <1>23 DEF PutBack
<1>24. CASE \E s \in Sessions : Publish(s)
  BY <1>24 DEF Publish
<1>25. CASE \E s \in Sessions : Withdraw(s)
  BY <1>25 DEF Withdraw
<1>26. CASE \E s \in Sessions : HangUp(s)
  BY <1>26 DEF HangUp
<1>27. CASE UNCHANGED vars
  BY <1>27 DEF vars
<1> QED
  BY <1>1, <1>2, <1>3, <1>4, <1>5, <1>6, <1>7, <1>8, <1>9, <1>10, <1>11, <1>12, <1>13, <1>14,
     <1>15, <1>16, <1>17, <1>18, <1>19, <1>20, <1>21, <1>22, <1>23, <1>24, <1>25, <1>26, <1>27
     DEF Next

\* No step changes an answer that was submitted, or submits another's.
LEMMA AnswersStep == TypeOK /\ LocksInv /\ AnswersGenuine /\ [Next]_vars => AnswersGenuine'
<1> SUFFICES ASSUME TypeOK, LocksInv, AnswersGenuine, [Next]_vars
             PROVE  AnswersGenuine'
  OBVIOUS
<1>a. /\ resolved # None => resolved.by \in Sessions
      /\ \A r \in claims : r.by \in Sessions
      /\ \A c \in Controllers : mine[c] # None => mine[c].by \in Sessions
      /\ \A s \in Sessions : Submitted(s).by = s
  BY DEF TypeOK, Submission, Submitted
<1> USE DecisionsAssumption, <1>a
        DEF TypeOK, LocksInv, AnswersGenuine, Genuine, Submitted, Answered, At, Goto, Fault,
            files, locals, Leave, SessionEnds, ControllerPCs, SessionPCs, Applying

<1>1. CASE \E c \in Controllers : Continue(c)
  BY <1>1 DEF Continue
<1>2. CASE \E c \in Controllers : RecoverClaim(c)
  BY <1>2 DEF RecoverClaim
<1>3. CASE \E c \in Controllers : UnlinkClaim(c)
  BY <1>3 DEF UnlinkClaim
<1>4. CASE \E c \in Controllers : ClaimResolved(c)
  BY <1>4 DEF ClaimResolved
<1>5. CASE \E c \in Controllers : Apply(c)
  BY <1>5 DEF Apply
<1>6. CASE \E c \in Controllers : WriteProduct(c)
  BY <1>6 DEF WriteProduct
<1>7. CASE \E c \in Controllers : WriteResolution(c)
  BY <1>7 DEF WriteResolution
<1>8. CASE \E c \in Controllers : FinishClaim(c)
  BY <1>8 DEF FinishClaim
<1>9. CASE \E c \in Controllers : ApplyFails(c)
  BY <1>9 DEF ApplyFails
<1>10. CASE \E c \in Controllers : RestoreClaim(c)
  BY <1>10 DEF RestoreClaim
<1>11. CASE \E c \in Controllers : RenameBack(c)
  BY <1>11 DEF RenameBack
<1>12. CASE \E c \in Controllers : CheckBlocking(c)
  BY <1>12 DEF CheckBlocking
<1>13. CASE \E c \in Controllers : ReadProduct(c)
  BY <1>13 DEF ReadProduct
<1>14. CASE \E c \in Controllers : WriteOpenProduct(c)
  BY <1>14 DEF WriteOpenProduct
<1>15. CASE \E c \in Controllers : WriteBlocking(c)
  BY <1>15 DEF WriteBlocking
<1>16. CASE \E c \in Controllers : LockContract(c)
  BY <1>16 DEF LockContract
<1>17. CASE \E c \in Controllers : Kill(c)
  BY <1>17 DEF Kill
<1>18. CASE \E s \in Sessions : ReadQuestion(s)
  BY <1>18 DEF ReadQuestion
<1>19. CASE \E s \in Sessions : Choose(s)
  BY <1>19 DEF Choose
<1>20. CASE \E s \in Sessions : EnterAnswer(s)
  BY <1>20 DEF EnterAnswer
<1>21. CASE \E s \in Sessions : SetAside(s)
  BY <1>21 DEF SetAside
<1>22. CASE \E s \in Sessions : SaveAnswer(s)
  BY <1>22 DEF SaveAnswer
<1>23. CASE \E s \in Sessions : PutBack(s)
  BY <1>23 DEF PutBack
<1>24. CASE \E s \in Sessions : Publish(s)
  BY <1>24 DEF Publish
<1>25. CASE \E s \in Sessions : Withdraw(s)
  BY <1>25 DEF Withdraw
<1>26. CASE \E s \in Sessions : HangUp(s)
  BY <1>26 DEF HangUp
<1>27. CASE UNCHANGED vars
  BY <1>27 DEF vars
<1> QED
  BY <1>1, <1>2, <1>3, <1>4, <1>5, <1>6, <1>7, <1>8, <1>9, <1>10, <1>11, <1>12, <1>13, <1>14,
     <1>15, <1>16, <1>17, <1>18, <1>19, <1>20, <1>21, <1>22, <1>23, <1>24, <1>25, <1>26, <1>27
     DEF Next

\* No step changes a choice, or records another.
LEMMA ChoiceStep == TypeOK /\ LocksInv /\ AnswersGenuine /\ ChoiceInv /\ [Next]_vars => ChoiceInv'
<1> SUFFICES ASSUME TypeOK, LocksInv, AnswersGenuine, ChoiceInv, [Next]_vars
             PROVE  ChoiceInv'
  OBVIOUS
<1>a. \A c \in Controllers :
         pc[c] \in {"write", "record", "finish"} =>
             /\ mine[c].choice \in Choices /\ mine[c].by \in Sessions
             /\ answer[mine[c].by] = mine[c].choice /\ pc[mine[c].by] \in Answered
  BY DEF TypeOK, AnswersGenuine, Genuine, Submission, Submitted
<1> USE DecisionsAssumption, <1>a
        DEF TypeOK, LocksInv, ChoiceInv, Answered, At, Goto, Fault, files, locals, Leave,
            SessionEnds, ControllerPCs, SessionPCs, Applying

<1>1. CASE \E c \in Controllers : Continue(c)
  BY <1>1 DEF Continue
<1>2. CASE \E c \in Controllers : RecoverClaim(c)
  BY <1>2 DEF RecoverClaim
<1>3. CASE \E c \in Controllers : UnlinkClaim(c)
  BY <1>3 DEF UnlinkClaim
<1>4. CASE \E c \in Controllers : ClaimResolved(c)
  BY <1>4 DEF ClaimResolved
<1>5. CASE \E c \in Controllers : Apply(c)
  BY <1>5 DEF Apply
<1>6. CASE \E c \in Controllers : WriteProduct(c)
  BY <1>6 DEF WriteProduct
<1>7. CASE \E c \in Controllers : WriteResolution(c)
  BY <1>7 DEF WriteResolution
<1>8. CASE \E c \in Controllers : FinishClaim(c)
  BY <1>8 DEF FinishClaim
<1>9. CASE \E c \in Controllers : ApplyFails(c)
  BY <1>9 DEF ApplyFails
<1>10. CASE \E c \in Controllers : RestoreClaim(c)
  BY <1>10 DEF RestoreClaim
<1>11. CASE \E c \in Controllers : RenameBack(c)
  BY <1>11 DEF RenameBack
<1>12. CASE \E c \in Controllers : CheckBlocking(c)
  BY <1>12 DEF CheckBlocking
<1>13. CASE \E c \in Controllers : ReadProduct(c)
  BY <1>13 DEF ReadProduct
<1>14. CASE \E c \in Controllers : WriteOpenProduct(c)
  BY <1>14 DEF WriteOpenProduct
<1>15. CASE \E c \in Controllers : WriteBlocking(c)
  BY <1>15 DEF WriteBlocking
<1>16. CASE \E c \in Controllers : LockContract(c)
  BY <1>16 DEF LockContract
<1>17. CASE \E c \in Controllers : Kill(c)
  BY <1>17 DEF Kill
<1>18. CASE \E s \in Sessions : ReadQuestion(s)
  BY <1>18 DEF ReadQuestion
<1>19. CASE \E s \in Sessions : Choose(s)
  BY <1>19 DEF Choose
<1>20. CASE \E s \in Sessions : EnterAnswer(s)
  BY <1>20 DEF EnterAnswer
<1>21. CASE \E s \in Sessions : SetAside(s)
  BY <1>21 DEF SetAside
<1>22. CASE \E s \in Sessions : SaveAnswer(s)
  BY <1>22 DEF SaveAnswer
<1>23. CASE \E s \in Sessions : PutBack(s)
  BY <1>23 DEF PutBack
<1>24. CASE \E s \in Sessions : Publish(s)
  BY <1>24 DEF Publish
<1>25. CASE \E s \in Sessions : Withdraw(s)
  BY <1>25 DEF Withdraw
<1>26. CASE \E s \in Sessions : HangUp(s)
  BY <1>26 DEF HangUp
<1>27. CASE UNCHANGED vars
  BY <1>27 DEF vars
<1> QED
  BY <1>1, <1>2, <1>3, <1>4, <1>5, <1>6, <1>7, <1>8, <1>9, <1>10, <1>11, <1>12, <1>13, <1>14,
     <1>15, <1>16, <1>17, <1>18, <1>19, <1>20, <1>21, <1>22, <1>23, <1>24, <1>25, <1>26, <1>27
     DEF Next

\* Unless a restore races a session, no claim is dropped that a session relies on.
LEMMA ClaimsStep ==
    TypeOK /\ LocksInv /\ AnswersGenuine /\ ClaimsInv /\ SavedInv /\ "race" \notin Faults /\ [Next]_vars
        => ClaimsInv'
<1> SUFFICES ASSUME TypeOK, LocksInv, AnswersGenuine, ClaimsInv, SavedInv, "race" \notin Faults, [Next]_vars
             PROVE  ClaimsInv'
  OBVIOUS
<1>a. /\ resolved # None => resolved.by \in Sessions /\ pc[resolved.by] \in Answered
      /\ \A r \in claims : r # None /\ r.by \in Sessions /\ pc[r.by] \in Answered
  BY DecisionsAssumption DEF TypeOK, AnswersGenuine, Genuine, Submission
<1>b. \A s \in Sessions : Submitted(s).by = s
  BY DEF Submitted
<1> USE DecisionsAssumption
        DEF ClaimsInv, At, Goto, Fault, files, locals, Leave, SessionEnds, Applying
<1>c. /\ pc \in [Controllers \cup Sessions -> ControllerPCs \cup SessionPCs]
      /\ mine \in [Controllers -> Submission \cup {None}]
      /\ \A c \in Controllers : pc[c] \in Applying <=> productLock = c
  BY DEF TypeOK, LocksInv

<1>1. CASE \E c \in Controllers : Continue(c)
  BY <1>1, <1>a, <1>c DEF Continue
<1>2. CASE \E c \in Controllers : RecoverClaim(c)
  BY <1>2, <1>a, <1>c DEF RecoverClaim
<1>3. CASE \E c \in Controllers : UnlinkClaim(c)
  BY <1>3, <1>a, <1>c DEF UnlinkClaim
<1>4. CASE \E c \in Controllers : ClaimResolved(c)
  BY <1>4, <1>a, <1>c DEF ClaimResolved
<1>5. CASE \E c \in Controllers : Apply(c)
  BY <1>5, <1>a, <1>c DEF Apply
<1>6. CASE \E c \in Controllers : WriteProduct(c)
  BY <1>6, <1>a, <1>c DEF WriteProduct
<1>7. CASE \E c \in Controllers : WriteResolution(c)
  BY <1>7, <1>a, <1>c DEF WriteResolution
<1>8. CASE \E c \in Controllers : FinishClaim(c)
  BY <1>8, <1>a, <1>c DEF FinishClaim
<1>9. CASE \E c \in Controllers : ApplyFails(c)
  BY <1>9, <1>a, <1>c DEF ApplyFails
<1>10. CASE \E c \in Controllers : RestoreClaim(c)
  BY <1>10, <1>a, <1>c DEF RestoreClaim
<1>11. CASE \E c \in Controllers : RenameBack(c)
  BY <1>11, <1>a, <1>c DEF RenameBack
<1>12. CASE \E c \in Controllers : CheckBlocking(c)
  BY <1>12, <1>a, <1>c DEF CheckBlocking
<1>13. CASE \E c \in Controllers : ReadProduct(c)
  BY <1>13, <1>a, <1>c DEF ReadProduct
<1>14. CASE \E c \in Controllers : WriteOpenProduct(c)
  BY <1>14, <1>a, <1>c DEF WriteOpenProduct
<1>15. CASE \E c \in Controllers : WriteBlocking(c)
  BY <1>15, <1>a, <1>c DEF WriteBlocking
<1>16. CASE \E c \in Controllers : LockContract(c)
  BY <1>16, <1>a, <1>c DEF LockContract
<1>17. CASE \E c \in Controllers : Kill(c)
  BY <1>17, <1>a, <1>c DEF Kill
<1>18. CASE \E s \in Sessions : ReadQuestion(s)
  BY <1>18, <1>a, <1>c DEF ReadQuestion, Answered
<1>19. CASE \E s \in Sessions : Choose(s)
  BY <1>19, <1>a, <1>c DEF Choose, Answered
<1>20. CASE \E s \in Sessions : EnterAnswer(s)
  BY <1>20, <1>a, <1>c DEF EnterAnswer, Answered
<1>21. CASE \E s \in Sessions : SetAside(s)
  BY <1>21, <1>a, <1>c DEF SetAside, Answered
<1>22. CASE \E s \in Sessions : SaveAnswer(s)
  BY <1>22, <1>a, <1>c DEF SaveAnswer, Answered
<1>23. CASE \E s \in Sessions : PutBack(s)
  BY <1>23, <1>a, <1>c DEF PutBack, Answered
<1>24. CASE \E s \in Sessions : Publish(s)
  BY <1>24, <1>a, <1>c DEF Publish, Answered
<1>25. CASE \E s \in Sessions : Withdraw(s)
  <2>1. PICK s \in Sessions : Withdraw(s)
    BY <1>25
  <2>2. /\ resolved \in {None, Submitted(s)}
        /\ pc' = [pc EXCEPT ![s] = "refused"] /\ claims' = claims /\ mine' = mine
    BY <2>1 DEF Withdraw, SavedInv
  <2> QED
    BY <2>2, <1>a, <1>b, <1>c
<1>26. CASE \E s \in Sessions : HangUp(s)
  BY <1>26, <1>a, <1>c DEF HangUp, Answered
<1>27. CASE UNCHANGED vars
  BY <1>27 DEF vars
<1> QED
  BY <1>1, <1>2, <1>3, <1>4, <1>5, <1>6, <1>7, <1>8, <1>9, <1>10, <1>11, <1>12, <1>13, <1>14,
     <1>15, <1>16, <1>17, <1>18, <1>19, <1>20, <1>21, <1>22, <1>23, <1>24, <1>25, <1>26, <1>27
     DEF Next

\* Unless a restore races a session, no step loses a submission that was saved.
LEMMA SavedStep ==
    DecisionInv /\ ClaimsInv /\ SavedInv /\ "race" \notin Faults /\ [Next]_vars => SavedInv'
<1> SUFFICES ASSUME DecisionInv, ClaimsInv, SavedInv, "race" \notin Faults, [Next]_vars
             PROVE  SavedInv'
  OBVIOUS
<1>a. /\ \A s \in Sessions : Submitted(s).by = s /\ Submitted(s).choice = answer[s]
      /\ \A s \in Sessions : pc[s] \in Saving \cup {"saved"} => answer[s] \in Choices /\ Submitted(s) # None
      /\ \A c \in Controllers :
            pc[c] \in {"apply", "write", "record", "finish", "restore"} => mine[c] # None
  BY DecisionsAssumption DEF DecisionInv, LocksInv, AnswersGenuine, Submitted
<1> USE DecisionsAssumption
        DEF SavedInv, At, Goto, Fault, files, locals, Leave, SessionEnds, Applying
<1>c. /\ pc \in [Controllers \cup Sessions -> ControllerPCs \cup SessionPCs]
      /\ answer \in [Sessions -> Choices \cup {None}]
      /\ \A c \in Controllers : pc[c] \in Applying <=> productLock = c
      /\ \A s \in Sessions : pc[s] \in Saving <=> answerLock = s
  BY DEF TypeOK, LocksInv, DecisionInv
<1>d. \A s \in Sessions : answer'[s] = answer[s] => Submitted(s)' = Submitted(s)
  BY DEF Submitted
<1>e. /\ \A r, q \in claims : r = q
      /\ \A c \in Controllers :
          /\ At(c, "claim") => claims = {}
          /\ At(c, "unlink") => \A r \in claims : r = resolved \/ pc[r.by] = "refused"
          /\ pc[c] \in {"apply", "write", "record", "finish", "restore"} => claims = {mine[c]} /\ mine[c] # None
          /\ At(c, "write") => product = "open"
          /\ pc[c] \in {"record", "finish"} => product = mine[c].choice
          /\ pc[c] # "rename"
      /\ "open" \notin Choices /\ "missing" \notin Choices
  BY <1>a, <1>c DEF DecisionInv, ChoiceInv, ClaimsInv

<1>1. CASE \E c \in Controllers : Continue(c)
  BY <1>1, <1>a, <1>c, <1>d, <1>e DEF Continue
<1>2. CASE \E c \in Controllers : RecoverClaim(c)
  BY <1>2, <1>a, <1>c, <1>d, <1>e DEF RecoverClaim
<1>3. CASE \E c \in Controllers : UnlinkClaim(c)
  BY <1>3, <1>a, <1>c, <1>d, <1>e DEF UnlinkClaim
<1>4. CASE \E c \in Controllers : ClaimResolved(c)
  BY <1>4, <1>a, <1>c, <1>d, <1>e DEF ClaimResolved
<1>5. CASE \E c \in Controllers : Apply(c)
  BY <1>5, <1>a, <1>c, <1>d, <1>e DEF Apply
<1>6. CASE \E c \in Controllers : WriteProduct(c)
  BY <1>6, <1>a, <1>c, <1>d, <1>e DEF WriteProduct
<1>7. CASE \E c \in Controllers : WriteResolution(c)
  BY <1>7, <1>a, <1>c, <1>d, <1>e DEF WriteResolution
<1>8. CASE \E c \in Controllers : FinishClaim(c)
  BY <1>8, <1>a, <1>c, <1>d, <1>e DEF FinishClaim
<1>9. CASE \E c \in Controllers : ApplyFails(c)
  BY <1>9, <1>a, <1>c, <1>d, <1>e DEF ApplyFails
<1>10. CASE \E c \in Controllers : RestoreClaim(c)
  BY <1>10, <1>a, <1>c, <1>d, <1>e DEF RestoreClaim
<1>11. CASE \E c \in Controllers : RenameBack(c)
  BY <1>11, <1>a, <1>c, <1>d, <1>e DEF RenameBack
<1>12. CASE \E c \in Controllers : CheckBlocking(c)
  BY <1>12, <1>a, <1>c, <1>d, <1>e DEF CheckBlocking
<1>13. CASE \E c \in Controllers : ReadProduct(c)
  BY <1>13, <1>a, <1>c, <1>d, <1>e DEF ReadProduct
<1>14. CASE \E c \in Controllers : WriteOpenProduct(c)
  <2>1. PICK c \in Controllers : WriteOpenProduct(c)
    BY <1>14
  <2>2. /\ UNCHANGED <<resolved, claims, answer>> /\ pc' = [pc EXCEPT ![c] = pc'[c]]
        /\ product \in Choices => product' = product
    BY <2>1, <1>c, <1>e DEF WriteOpenProduct
  <2>3. \A s \in Sessions : pc'[s] = pc[s]
    BY <2>2, <1>c
  <2> QED
    BY <2>2, <2>3, <1>a, <1>d DEF Saving
<1>15. CASE \E c \in Controllers : WriteBlocking(c)
  BY <1>15, <1>a, <1>c, <1>d, <1>e DEF WriteBlocking
<1>16. CASE \E c \in Controllers : LockContract(c)
  BY <1>16, <1>a, <1>c, <1>d, <1>e DEF LockContract
<1>17. CASE \E c \in Controllers : Kill(c)
  BY <1>17, <1>a, <1>c, <1>d, <1>e DEF Kill
<1>18. CASE \E s \in Sessions : ReadQuestion(s)
  BY <1>18, <1>a, <1>c, <1>d, <1>e DEF ReadQuestion, Saving
<1>19. CASE \E s \in Sessions : Choose(s)
  BY <1>19, <1>a, <1>c, <1>d, <1>e DEF Choose, Saving
<1>20. CASE \E s \in Sessions : EnterAnswer(s)
  BY <1>20, <1>a, <1>c, <1>d, <1>e DEF EnterAnswer, Saving
<1>21. CASE \E s \in Sessions : SetAside(s)
  BY <1>21, <1>a, <1>c, <1>d, <1>e DEF SetAside, Saving
<1>22. CASE \E s \in Sessions : SaveAnswer(s)
  BY <1>22, <1>a, <1>c, <1>d, <1>e DEF SaveAnswer, Saving
<1>23. CASE \E s \in Sessions : PutBack(s)
  BY <1>23, <1>a, <1>c, <1>d, <1>e DEF PutBack, Saving
<1>24. CASE \E s \in Sessions : Publish(s)
  BY <1>24, <1>a, <1>c, <1>d, <1>e DEF Publish, Saving
<1>25. CASE \E s \in Sessions : Withdraw(s)
  BY <1>25, <1>a, <1>c, <1>d, <1>e DEF Withdraw, Saving
<1>26. CASE \E s \in Sessions : HangUp(s)
  BY <1>26, <1>a, <1>c, <1>d, <1>e DEF HangUp, Saving
<1>27. CASE UNCHANGED vars
  BY <1>27, <1>d DEF vars
<1> QED
  BY <1>1, <1>2, <1>3, <1>4, <1>5, <1>6, <1>7, <1>8, <1>9, <1>10, <1>11, <1>12, <1>13, <1>14,
     <1>15, <1>16, <1>17, <1>18, <1>19, <1>20, <1>21, <1>22, <1>23, <1>24, <1>25, <1>26, <1>27
     DEF Next

\* The initial states satisfy what the decision is kept by.
LEMMA DecisionInit == Init => DecisionInv /\ KeptInv
<1> SUFFICES ASSUME Init
             PROVE  LocksInv /\ AnswersGenuine /\ ChoiceInv /\ ClaimsInv /\ SavedInv
  BY DecisionTypeInit DEF DecisionInv, KeptInv
<1>1. /\ LocksInv
      /\ \A p \in Controllers \cup Sessions : pc[p] \in {"product", "idle", "off"}
  BY DecisionsAssumption DEF Init, LocksInv, ControllerPCs, SessionPCs, Applying, Saving
<1>2. AnswersGenuine /\ ChoiceInv /\ ClaimsInv /\ SavedInv
  BY <1>1, DecisionsAssumption DEF Init, AnswersGenuine, ChoiceInv, ClaimsInv, SavedInv, At
<1> QED
  BY <1>1, <1>2

\* Every step keeps it.
LEMMA DecisionStep == DecisionInv /\ KeptInv /\ [Next]_vars => DecisionInv' /\ KeptInv'
BY DecisionTypeStep, AnswersStep, ChoiceStep, ClaimsStep, SavedStep DEF DecisionInv, KeptInv

\* The inductive invariant of a decision.
THEOREM DecisionInvariant == Spec => [](DecisionInv /\ KeptInv)
BY DecisionInit, DecisionStep, PTL DEF Spec

\* All controllers that go on with a settled decision go on with the choice on
\* disk, which a session gave, and the record never contradicts it: whatever the
\* sessions and the continuations of the run do, and whatever goes wrong.
THEOREM OneChoice == Spec => []OneDecision
<1>1. DecisionInv => OneDecision
  BY DEF DecisionInv, ChoiceInv, OneDecision
<1> QED
  BY <1>1, DecisionInvariant, PTL

\* No submission a session reported as saved is lost, unless a session saves
\* between the look and the rename of a failed claim's restore.
THEOREM NoAnswerLost == "race" \notin Faults => (Spec => []SubmissionKept)
<1> SUFFICES ASSUME "race" \notin Faults
             PROVE  Spec => []SubmissionKept
  OBVIOUS
<1>1. KeptInv => SubmissionKept
  BY DEF KeptInv, SavedInv, SubmissionKept, At
<1> QED
  BY <1>1, DecisionInvariant, PTL

-----------------------------------------------------------------------------
(* ExternalRepair: the lanes hand back approved edits only.                *)

\* The shape of the controller's records, in full.
LaneRecords ==
    /\ LaneTypeOK
    /\ entry \in [number : 1 .. MaxEntries, inputs : 0 .. MaxEntries]
    /\ manifests \in [Lane -> [baseline : Commit, checkpoint : Commit, inputs : 0 .. MaxEntries,
                               there : BOOLEAN]]
    /\ report \in [failed : BOOLEAN, first : Commit, final : Commit, inputs : 0 .. MaxEntries,
                   there : BOOLEAN]
    /\ lanePc \in {"returned", "checked", "approved", "committed", "undo", "reinstall"} => lane <= Lanes

\* A commit that is recorded anywhere was made: a new one is none of them.
MadeCommits ==
    /\ head <= commits /\ baseline <= commits /\ report.final <= commits
    /\ \A l \in Lane : manifests[l].checkpoint <= commits
    /\ \A c \in tainted : c <= commits

\* The workspace is displaced while it is replaced and, if the controller is
\* killed then, after.  Every place finds the edits as the one before left them.
WorkspaceInv ==
    /\ lanePc \notin {"restoring", "reinstall", "off"} => workspace = "present"
    /\ lanePc \in {"entering", "lane", "committed", "report", "done"} => work \in {"clean", "stray"}
    /\ lanePc = "approved" => ignored /\ work # "outside"
    /\ lanePc \in {"entering", "restoring", "lane", "checked", "approved", "committed", "undo", "reinstall"} => meta

\* The commits a controller may hand back or restore are approved.  An unapproved
\* one is at HEAD only while the lane that made it is judged or undone.
ApprovedInv ==
    /\ lanePc = "returned" /\ head \in tainted => ~meta
    /\ lanePc = "undo" /\ head \in tainted => ignored
    /\ lanePc \notin {"returned", "undo", "restoring", "reinstall"} => head \notin tainted
    /\ lanePc \in {"restoring", "returned", "checked", "approved", "committed", "undo", "reinstall"}
          => baseline \notin tainted
    /\ \A l \in Lane : manifests[l].there => manifests[l].checkpoint \notin tainted
    /\ report.there /\ ~report.failed => report.final \notin tainted

LaneInv == LaneRecords /\ MadeCommits /\ WorkspaceInv /\ (~orphaned => ApprovedInv)

\* A commit is a new one, and unapproved if its edits or what it builds on are.
LEMMA CommitDoes ==
    ASSUME LaneRecords, NEW unapproved, CommitWork(unapproved)
    PROVE  /\ commits' = commits + 1 /\ head' = commits' /\ work' = "clean"
           /\ commits' \in Commit /\ tainted' \subseteq Commit
           /\ tainted' \subseteq tainted \cup {commits'}
           /\ ~unapproved /\ head \notin tainted => tainted' = tainted
BY ExternalRepairAssumption DEF CommitWork, LaneRecords, LaneTypeOK, Commit

\* The last of the lanes that have a manifest is one of them.
LEMMA LastOfPrefix ==
    ASSUME Prefix # {}
    PROVE  LastOf(Prefix) \in Prefix /\ LastOf(Prefix) \in Lane
<1>1. Lanes \in Nat /\ Prefix \in SUBSET (1 .. Lanes)
  BY ExternalRepairAssumption DEF Prefix, Lane
<1>2. \E m \in Prefix : \A k \in Prefix : k <= m
  BY <1>1, GreatestMember
<1> QED
  BY <1>1, <1>2 DEF LastOf, Lane

\* The initial states satisfy the invariant of the lanes.
LEMMA LaneInvInit == LaneInit => LaneInv
<1> SUFFICES ASSUME LaneInit
             PROVE  LaneInv
  OBVIOUS
<1>1. /\ 0 \in Commit /\ 1 \in 1 .. Lanes + 1
      /\ 1 \in 1 .. MaxEntries /\ 0 \in 0 .. MaxEntries /\ 1 \in 0 .. MaxEntries
  BY ExternalRepairAssumption DEF Commit
<1>2. LaneRecords
  BY <1>1 DEF LaneInit, LaneRecords, LaneTypeOK, NoManifest, NoReport
<1> QED
  BY <1>1, <1>2 DEF LaneInit, LaneInv, MadeCommits, WorkspaceInv, ApprovedInv, NoManifest, NoReport

\* Every step keeps the records' shape.
LEMMA LaneRecordsStep == LaneRecords /\ [LaneNext]_laneVars => LaneRecords'
<1> SUFFICES ASSUME LaneRecords, [LaneNext]_laneVars
             PROVE  LaneRecords'
  OBVIOUS
<1>a. /\ lanePc \in {"returned", "checked", "approved", "committed", "undo", "reinstall"} =>
            lane + 1 \in 1 .. Lanes + 1
      /\ \A n \in 1 .. MaxEntries : n < MaxEntries => n + 1 \in 1 .. MaxEntries /\ n + 1 \in 0 .. MaxEntries
      /\ 1 \in 1 .. Lanes + 1 /\ 1 \in Lane /\ 0 \in Commit
      /\ \A l \in Lane : l + 1 \in 1 .. Lanes + 1 /\ l <= Lanes
  BY ExternalRepairAssumption DEF LaneRecords, LaneTypeOK, Lane, Commit
<1>b. /\ entry.number \in 1 .. MaxEntries /\ entry.inputs \in 0 .. MaxEntries
      /\ \A l \in Lane : /\ manifests[l].baseline \in Commit /\ manifests[l].checkpoint \in Commit
      /\ report.first \in Commit /\ report.final \in Commit /\ head \in Commit
  BY DEF LaneRecords, LaneTypeOK
<1> USE DEF LaneRecords, LaneTypeOK, Raise, IgnoredAsFound, laneLocal, laneTree, laneFiles

<1>1. CASE EnterFresh
  BY <1>1, <1>a, <1>b, CommitDoes, LastOfPrefix DEF EnterFresh, ChainEnd
<1>2. CASE ResumeChain
  BY <1>2, <1>a, <1>b, CommitDoes, LastOfPrefix DEF ResumeChain, ChainEnd
<1>3. CASE ResumeReport
  BY <1>3, <1>a, <1>b, CommitDoes, LastOfPrefix DEF ResumeReport, ChainEnd
<1>4. CASE RefuseInputs
  BY <1>4, <1>a, <1>b, CommitDoes, LastOfPrefix DEF RefuseInputs, ChainEnd
<1>5. CASE RefuseResume
  BY <1>5, <1>a, <1>b, CommitDoes, LastOfPrefix DEF RefuseResume, ChainEnd
<1>6. CASE FinishRestore
  BY <1>6, <1>a, <1>b, CommitDoes, LastOfPrefix DEF FinishRestore, ChainEnd
<1>7. CASE StartLane
  BY <1>7, <1>a, <1>b, CommitDoes, LastOfPrefix DEF StartLane, ChainEnd
<1>8. CASE LaneEdits
  BY <1>8, <1>a, <1>b, CommitDoes, LastOfPrefix DEF LaneEdits, ChainEnd
<1>9. CASE CheckMetadata
  BY <1>9, <1>a, <1>b, CommitDoes, LastOfPrefix DEF CheckMetadata, ChainEnd
<1>10. CASE CheckLane
  BY <1>10, <1>a, <1>b, CommitDoes, LastOfPrefix DEF CheckLane, ChainEnd
<1>11. CASE Straggler
  BY <1>11, <1>a, <1>b, CommitDoes, LastOfPrefix DEF Straggler, ChainEnd
<1>12. CASE CheckpointLane
  BY <1>12, <1>a, <1>b, CommitDoes, LastOfPrefix DEF CheckpointLane, ChainEnd
<1>13. CASE WriteManifest
  BY <1>13, <1>a, <1>b, CommitDoes, LastOfPrefix DEF WriteManifest, ChainEnd
<1>14. CASE UndoLane
  BY <1>14, <1>a, <1>b, CommitDoes, LastOfPrefix DEF UndoLane, ChainEnd
<1>15. CASE Reinstall
  BY <1>15, <1>a, <1>b, CommitDoes, LastOfPrefix DEF Reinstall, ChainEnd
<1>16. CASE WriteLaneReport
  BY <1>16, <1>a, <1>b, CommitDoes, LastOfPrefix DEF WriteLaneReport, ChainEnd
<1>17. CASE KillLane
  BY <1>17, <1>a, <1>b, CommitDoes, LastOfPrefix DEF KillLane, ChainEnd
<1>18. CASE ContinueLanes
  BY <1>18, <1>a, <1>b, CommitDoes, LastOfPrefix DEF ContinueLanes, ChainEnd
<1>19. CASE RefuseRestore
  BY <1>19, <1>a, <1>b, CommitDoes, LastOfPrefix DEF RefuseRestore, ChainEnd
<1>20. CASE UNCHANGED laneVars
  BY <1>20, <1>a, <1>b, CommitDoes, LastOfPrefix DEF laneVars, ChainEnd
<1> QED
  BY <1>1, <1>2, <1>3, <1>4, <1>5, <1>6, <1>7, <1>8, <1>9, <1>10, <1>11, <1>12, <1>13, <1>14,
     <1>15, <1>16, <1>17, <1>18, <1>19, <1>20 DEF LaneNext

\* Every step keeps the recorded commits below the next one.
LEMMA MadeCommitsStep == LaneRecords /\ MadeCommits /\ [LaneNext]_laneVars => MadeCommits'
<1> SUFFICES ASSUME LaneRecords, MadeCommits, [LaneNext]_laneVars
             PROVE  MadeCommits'
  OBVIOUS
<1> USE ExternalRepairAssumption
        DEF LaneRecords, LaneTypeOK, MadeCommits, Raise, IgnoredAsFound, laneLocal, laneTree,
            laneFiles, Lane, Commit
<1>a. ASSUME commits' = commits + 1, head' = commits', tainted' \subseteq tainted \cup {commits'},
             UNCHANGED <<baseline, manifests, report>>
      PROVE  MadeCommits'
  BY <1>a

<1>1. CASE EnterFresh
  BY <1>1, <1>a, LastOfPrefix DEF EnterFresh, ChainEnd
<1>2. CASE ResumeChain
  BY <1>2, <1>a, LastOfPrefix DEF ResumeChain, ChainEnd
<1>3. CASE ResumeReport
  BY <1>3, <1>a, LastOfPrefix DEF ResumeReport, ChainEnd
<1>4. CASE RefuseInputs
  BY <1>4, <1>a, LastOfPrefix DEF RefuseInputs, ChainEnd
<1>5. CASE RefuseResume
  BY <1>5, <1>a, LastOfPrefix DEF RefuseResume, ChainEnd
<1>6. CASE FinishRestore
  BY <1>6, <1>a, LastOfPrefix DEF FinishRestore, ChainEnd
<1>7. CASE StartLane
  BY <1>7, <1>a, LastOfPrefix DEF StartLane, ChainEnd
<1>8. CASE LaneEdits
  <2>1. /\ UNCHANGED <<baseline, manifests, report>>
        /\ \/ UNCHANGED <<head, commits, tainted>>
           \/ \E unapproved \in BOOLEAN : CommitWork(unapproved)
    BY <1>8 DEF LaneEdits
  <2>2. CASE UNCHANGED <<head, commits, tainted>>
    BY <2>1, <2>2
  <2>3. CASE \E unapproved \in BOOLEAN : CommitWork(unapproved)
    BY <2>1, <2>3, <1>a, CommitDoes
  <2> QED
    BY <2>1, <2>2, <2>3
<1>9. CASE CheckMetadata
  BY <1>9, <1>a, LastOfPrefix DEF CheckMetadata, ChainEnd
<1>10. CASE CheckLane
  BY <1>10, <1>a, LastOfPrefix DEF CheckLane, ChainEnd
<1>11. CASE Straggler
  BY <1>11, <1>a, LastOfPrefix DEF Straggler, ChainEnd
<1>12. CASE CheckpointLane
  <2>1. /\ UNCHANGED <<baseline, manifests, report>>
        /\ \/ UNCHANGED <<head, commits, tainted>>
           \/ \E unapproved \in BOOLEAN : CommitWork(unapproved)
    BY <1>12 DEF CheckpointLane
  <2>2. CASE UNCHANGED <<head, commits, tainted>>
    BY <2>1, <2>2
  <2>3. CASE \E unapproved \in BOOLEAN : CommitWork(unapproved)
    BY <2>1, <2>3, <1>a, CommitDoes
  <2> QED
    BY <2>1, <2>2, <2>3
<1>13. CASE WriteManifest
  BY <1>13, <1>a, LastOfPrefix DEF WriteManifest, ChainEnd
<1>14. CASE UndoLane
  BY <1>14, <1>a, LastOfPrefix DEF UndoLane, ChainEnd
<1>15. CASE Reinstall
  BY <1>15, <1>a, LastOfPrefix DEF Reinstall, ChainEnd
<1>16. CASE WriteLaneReport
  BY <1>16, <1>a, LastOfPrefix DEF WriteLaneReport, ChainEnd
<1>17. CASE KillLane
  BY <1>17, <1>a, LastOfPrefix DEF KillLane, ChainEnd
<1>18. CASE ContinueLanes
  BY <1>18, <1>a, LastOfPrefix DEF ContinueLanes, ChainEnd
<1>19. CASE RefuseRestore
  BY <1>19, <1>a, LastOfPrefix DEF RefuseRestore, ChainEnd
<1>20. CASE UNCHANGED laneVars
  BY <1>20, <1>a, LastOfPrefix DEF laneVars, ChainEnd
<1> QED
  BY <1>1, <1>2, <1>3, <1>4, <1>5, <1>6, <1>7, <1>8, <1>9, <1>10, <1>11, <1>12, <1>13, <1>14,
     <1>15, <1>16, <1>17, <1>18, <1>19, <1>20 DEF LaneNext

\* Every step leaves the workspace and the edits in it as its next place expects.
LEMMA WorkspaceStep == WorkspaceInv /\ [LaneNext]_laneVars => WorkspaceInv'
<1> SUFFICES ASSUME WorkspaceInv, [LaneNext]_laneVars
             PROVE  WorkspaceInv'
  OBVIOUS
<1> USE DEF WorkspaceInv, Raise, IgnoredAsFound, laneLocal, laneTree, laneFiles

<1>1. CASE EnterFresh
  BY <1>1 DEF EnterFresh, CommitWork
<1>2. CASE ResumeChain
  BY <1>2 DEF ResumeChain, CommitWork
<1>3. CASE ResumeReport
  BY <1>3 DEF ResumeReport, CommitWork
<1>4. CASE RefuseInputs
  BY <1>4 DEF RefuseInputs, CommitWork
<1>5. CASE RefuseResume
  BY <1>5 DEF RefuseResume, CommitWork
<1>6. CASE FinishRestore
  BY <1>6 DEF FinishRestore, CommitWork
<1>7. CASE StartLane
  BY <1>7 DEF StartLane, CommitWork
<1>8. CASE LaneEdits
  BY <1>8 DEF LaneEdits, CommitWork
<1>9. CASE CheckMetadata
  BY <1>9 DEF CheckMetadata, CommitWork
<1>10. CASE CheckLane
  BY <1>10 DEF CheckLane, CommitWork
<1>11. CASE Straggler
  BY <1>11 DEF Straggler, CommitWork
<1>12. CASE CheckpointLane
  BY <1>12 DEF CheckpointLane, CommitWork
<1>13. CASE WriteManifest
  BY <1>13 DEF WriteManifest, CommitWork
<1>14. CASE UndoLane
  BY <1>14 DEF UndoLane, CommitWork
<1>15. CASE Reinstall
  BY <1>15 DEF Reinstall, CommitWork
<1>16. CASE WriteLaneReport
  BY <1>16 DEF WriteLaneReport, CommitWork
<1>17. CASE KillLane
  BY <1>17 DEF KillLane, CommitWork
<1>18. CASE ContinueLanes
  BY <1>18 DEF ContinueLanes, CommitWork
<1>19. CASE RefuseRestore
  BY <1>19 DEF RefuseRestore, CommitWork
<1>20. CASE UNCHANGED laneVars
  BY <1>20 DEF laneVars, CommitWork
<1> QED
  BY <1>1, <1>2, <1>3, <1>4, <1>5, <1>6, <1>7, <1>8, <1>9, <1>10, <1>11, <1>12, <1>13, <1>14,
     <1>15, <1>16, <1>17, <1>18, <1>19, <1>20 DEF LaneNext

\* Every step keeps what may be handed back approved.
LEMMA ApprovedStep ==
    LaneRecords /\ MadeCommits /\ WorkspaceInv /\ ApprovedInv /\ ~orphaned' /\ [LaneNext]_laneVars => ApprovedInv'
<1> SUFFICES ASSUME LaneRecords, MadeCommits, WorkspaceInv, ApprovedInv, ~orphaned', [LaneNext]_laneVars
             PROVE  ApprovedInv'
  OBVIOUS
<1>a. /\ head \in Nat /\ commits \in Nat /\ baseline \in Nat
      /\ manifests \in [Lane -> [baseline : Commit, checkpoint : Commit, inputs : 0 .. MaxEntries, there : BOOLEAN]]
      /\ head <= commits /\ baseline <= commits /\ report.final <= commits /\ report.final \in Nat
      /\ \A l \in Lane : manifests[l].checkpoint <= commits /\ manifests[l].checkpoint \in Nat
      /\ \A l \in Prefix : l \in Lane /\ manifests[l].there
      /\ commits + 1 \notin tainted
      /\ lanePc \in {"returned", "checked", "approved", "committed", "undo", "reinstall"} => lane \in Lane
  BY ExternalRepairAssumption DEF LaneRecords, LaneTypeOK, MadeCommits, Commit, Lane, Prefix
<1>b. ASSUME commits' = commits + 1, tainted' \subseteq tainted \cup {commits'},
             NEW c \in Nat, c <= commits, c \notin tainted
      PROVE  c \notin tainted'
  BY <1>a, <1>b
<1>c. ASSUME commits' = commits + 1, tainted' \subseteq tainted \cup {commits'},
             UNCHANGED <<baseline, manifests, report>>
      PROVE  /\ baseline \notin tainted => baseline' \notin tainted'
             /\ report.final \notin tainted => report'.final \notin tainted'
             /\ \A l \in Lane : manifests[l].checkpoint \notin tainted => manifests'[l].checkpoint \notin tainted'
  BY <1>a, <1>b, <1>c
<1> USE DEF WorkspaceInv, ApprovedInv, Raise, IgnoredAsFound, laneLocal, laneTree, laneFiles

<1>1. CASE EnterFresh
  BY <1>1, <1>a, <1>c, CommitDoes, LastOfPrefix DEF EnterFresh, ChainEnd
<1>2. CASE ResumeChain
  BY <1>2, <1>a, <1>c, CommitDoes, LastOfPrefix DEF ResumeChain, ChainEnd
<1>3. CASE ResumeReport
  BY <1>3, <1>a, <1>c, CommitDoes, LastOfPrefix DEF ResumeReport, ChainEnd
<1>4. CASE RefuseInputs
  BY <1>4, <1>a, <1>c, CommitDoes, LastOfPrefix DEF RefuseInputs, ChainEnd
<1>5. CASE RefuseResume
  BY <1>5, <1>a, <1>c, CommitDoes, LastOfPrefix DEF RefuseResume, ChainEnd
<1>6. CASE FinishRestore
  BY <1>6, <1>a, <1>c, CommitDoes, LastOfPrefix DEF FinishRestore, ChainEnd
<1>7. CASE StartLane
  BY <1>7, <1>a, <1>c, CommitDoes, LastOfPrefix DEF StartLane, ChainEnd
<1>8. CASE LaneEdits
  BY <1>8, <1>a, <1>c, CommitDoes, LastOfPrefix DEF LaneEdits, ChainEnd
<1>9. CASE CheckMetadata
  BY <1>9, <1>a, <1>c, CommitDoes, LastOfPrefix DEF CheckMetadata, ChainEnd
<1>10. CASE CheckLane
  BY <1>10, <1>a, <1>c, CommitDoes, LastOfPrefix DEF CheckLane, ChainEnd
<1>11. CASE Straggler
  BY <1>11, <1>a, <1>c, CommitDoes, LastOfPrefix DEF Straggler, ChainEnd
<1>12. CASE CheckpointLane
  <2>1. UNCHANGED <<baseline, manifests, report>>
    BY <1>12 DEF CheckpointLane
  <2>2. CASE work \in {"clean", "stray"} /\ lanePc' = "committed" /\ UNCHANGED <<head, commits, tainted, work>>
    BY <1>12, <2>1, <2>2 DEF CheckpointLane
  <2>3. CASE work = "inside" /\ CommitWork(FALSE) /\ lanePc' = "committed"
    <3>1. head \notin tainted
      BY <1>12 DEF CheckpointLane
    <3>2. tainted' = tainted /\ head' = commits + 1
      BY <2>3, <3>1 DEF CommitWork
    <3> QED
      BY <1>12, <2>1, <2>3, <3>2, <1>a DEF CheckpointLane
  <2>4. CASE work = "late" /\ CommitWork(TRUE) /\ lanePc' = "undo"
    BY <1>12, <2>1, <2>4, <1>c, CommitDoes DEF CheckpointLane
  <2> QED
    BY <1>12, <2>2, <2>3, <2>4 DEF CheckpointLane
<1>13. CASE WriteManifest
  BY <1>13, <1>a, <1>c, CommitDoes, LastOfPrefix DEF WriteManifest, ChainEnd
<1>14. CASE UndoLane
  BY <1>14, <1>a, <1>c, CommitDoes, LastOfPrefix DEF UndoLane, ChainEnd
<1>15. CASE Reinstall
  BY <1>15, <1>a, <1>c, CommitDoes, LastOfPrefix DEF Reinstall, ChainEnd
<1>16. CASE WriteLaneReport
  BY <1>16, <1>a, <1>c, CommitDoes, LastOfPrefix DEF WriteLaneReport, ChainEnd
<1>17. CASE KillLane
  BY <1>17, <1>a, <1>c, CommitDoes, LastOfPrefix DEF KillLane, ChainEnd
<1>18. CASE ContinueLanes
  BY <1>18, <1>a, <1>c, CommitDoes, LastOfPrefix DEF ContinueLanes, ChainEnd
<1>19. CASE RefuseRestore
  BY <1>19, <1>a, <1>c, CommitDoes, LastOfPrefix DEF RefuseRestore, ChainEnd
<1>20. CASE UNCHANGED laneVars
  BY <1>20, <1>a, <1>c, CommitDoes, LastOfPrefix DEF laneVars, ChainEnd
<1> QED
  BY <1>1, <1>2, <1>3, <1>4, <1>5, <1>6, <1>7, <1>8, <1>9, <1>10, <1>11, <1>12, <1>13, <1>14,
     <1>15, <1>16, <1>17, <1>18, <1>19, <1>20 DEF LaneNext

\* Every step keeps the invariant of the lanes.
LEMMA LaneInvStep == LaneInv /\ [LaneNext]_laneVars => LaneInv'
<1> SUFFICES ASSUME LaneInv, [LaneNext]_laneVars
             PROVE  LaneInv'
  OBVIOUS
<1>1. orphaned => orphaned'
  BY
     DEF LaneNext, Raise, IgnoredAsFound, laneLocal, laneTree, laneFiles, CommitWork,
         EnterFresh, ResumeChain, ResumeReport, RefuseInputs, RefuseResume, FinishRestore,
         RefuseRestore, StartLane, LaneEdits, CheckMetadata, CheckLane, Straggler, CheckpointLane,
         WriteManifest, UndoLane, Reinstall, WriteLaneReport, KillLane, ContinueLanes, laneVars
<1> QED
  BY <1>1, LaneRecordsStep, MadeCommitsStep, WorkspaceStep, ApprovedStep DEF LaneInv

\* The inductive invariant of the lanes.
THEOREM LaneInvariant == LaneSpec => []LaneInv
BY LaneInvInit, LaneInvStep, PTL DEF LaneSpec

\* The commit the lanes hand back, and every checkpoint a continuation may restore,
\* holds approved edits only, whatever a command left running, unless a controller
\* was killed over a commit it had not judged.
THEOREM HandedBack == LaneSpec => []OnlyApprovedEdits
<1>1. LaneInv => OnlyApprovedEdits
  BY DEF LaneInv, WorkspaceInv, ApprovedInv, OnlyApprovedEdits
<1> QED
  BY <1>1, LaneInvariant, PTL

-----------------------------------------------------------------------------
(* RunPhases: what is delivered was verified, within the limits.           *)

\* The shape of the run's records, in full.
RunRecords ==
    /\ RunTypeOK
    /\ history \in [compiled : Plans, approved : SUBSET Plans, repairs : Nat, openings : 1 .. MaxOpenings]

\* The phases a step may find on disk: the ones from which the table allows what
\* the step asks for.
PhaseInv ==
    /\ step # "refused"
    /\ step = "intake" => phase = "CREATED"
    /\ step = "discovery" => phase = "INTAKE"
    /\ step = "decisions" => phase = "DISCOVERY"
    /\ step = "reuse" => phase = "DECISIONS"
    /\ step = "mapping" => phase = "REUSE_RESEARCH"
    /\ step = "compile" => phase = "SYSTEM_MAPPING"
    /\ step \in {"plan", "plan_review"} => phase = "PLAN_COMPILE"
    /\ step \in {"check_plan", "write_plan", "write_review", "lock_phase"} =>
          phase \in {"PLAN_COMPILE", "PLAN_REVIEW"}
    /\ step \in {"plan_repair", "lock"} => phase = "PLAN_REVIEW"
    /\ step = "implement" => phase \in {"CONTRACT_LOCKED", "IMPLEMENTING"}
    /\ step \in {"verify", "lanes", "review"} => phase = "VERIFYING"
    /\ step \in {"lanes_done", "repair"} => phase = "REPAIRING"
    /\ step \in {"findings", "demonstrate"} => phase = "REVIEWING"
    /\ step = "accept" => phase = "DEMONSTRATING"
    /\ step = "deliver" => phase \in {"DEMONSTRATING", "DELIVERING"}
    /\ step # "preflight"
    /\ phase = "COMPLETE" => step = "off"

\* The steps after the tasks, and the versions of the tree each may rely on.
Verifying == {"verify", "lanes", "lanes_done", "review", "findings", "repair", "demonstrate", "accept", "deliver"}

VerifiedInv ==
    /\ CompleteAsVerified
    /\ step \in Verifying => taskDone = RunTasks
    /\ step \in {"lanes", "review", "demonstrate", "accept", "deliver"} => ofRun.gated = tree
    /\ step = "lanes_done" => ofRun.laneEdited \/ ofRun.gated = tree
    /\ step \in {"demonstrate", "accept", "deliver"} => ofRun.reviewed = tree
    /\ step \in {"accept", "deliver"} => ofRun.demonstrated = tree

\* Rounds are counted before they are made.  A controller that lives has at
\* least one round of plan review left.
LimitsInv ==
    /\ history.repairs <= repairCycles
    /\ step = "repair" => history.repairs < repairCycles
    /\ RepairLimit > 0 => repairCycles <= RepairLimit
    /\ ReviewLimit > 0 => /\ planCycles <= ReviewLimit + history.openings - 1
                          /\ step # "off" => planCycles <= ReviewLimit + history.openings - 2

\* A plan on file, and the one a controller goes on with, was approved.
ApprovalInv ==
    /\ planFile # 0 => planFile \in history.approved
    /\ step \in {"check_plan", "write_plan", "write_review", "lock_phase", "lock", "implement"} \cup Verifying
          => ofRun.plan \in history.approved
    /\ phase \in {"IMPLEMENTING", "COMPLETE"} => ofRun.plan \in history.approved

RunInv == RunRecords /\ PhaseInv /\ VerifiedInv /\ LimitsInv /\ ApprovalInv

\* The rows of the phase table that a run asks for.
LEMMA AllowedTable ==
    /\ "INTAKE" \in Allowed["CREATED"] /\ "DISCOVERY" \in Allowed["INTAKE"]
    /\ "DECISIONS" \in Allowed["DISCOVERY"] /\ "REUSE_RESEARCH" \in Allowed["DECISIONS"]
    /\ "WAITING_FOR_PRODUCT_DECISION" \in Allowed["DECISIONS"]
    /\ "SYSTEM_MAPPING" \in Allowed["REUSE_RESEARCH"] /\ "PLAN_COMPILE" \in Allowed["SYSTEM_MAPPING"]
    /\ "PLAN_REVIEW" \in Allowed["PLAN_COMPILE"] /\ "PLAN_COMPILE" \in Allowed["PLAN_REVIEW"]
    /\ "CONTRACT_LOCKED" \in Allowed["PLAN_REVIEW"] /\ "IMPLEMENTING" \in Allowed["CONTRACT_LOCKED"]
    /\ "VERIFYING" \in Allowed["IMPLEMENTING"] /\ "REPAIRING" \in Allowed["VERIFYING"]
    /\ "VERIFYING" \in Allowed["REPAIRING"] /\ "REVIEWING" \in Allowed["VERIFYING"]
    /\ "REPAIRING" \in Allowed["REVIEWING"] /\ "DEMONSTRATING" \in Allowed["REVIEWING"]
    /\ "DELIVERING" \in Allowed["DEMONSTRATING"] /\ "COMPLETE" \in Allowed["DELIVERING"]
BY DEF Allowed, Phases

\* The phases before the plan.
LEMMA PreludeTable ==
    /\ DOMAIN Prelude = {"intake", "discovery", "decisions", "reuse", "mapping", "compile"}
    /\ Prelude["intake"] = <<"INTAKE", "discovery">> /\ Prelude["discovery"] = <<"DISCOVERY", "decisions">>
    /\ Prelude["decisions"] = <<"DECISIONS", "reuse">> /\ Prelude["reuse"] = <<"REUSE_RESEARCH", "mapping">>
    /\ Prelude["mapping"] = <<"SYSTEM_MAPPING", "compile">> /\ Prelude["compile"] = <<"PLAN_COMPILE", "plan">>
BY DEF Prelude

\* A transition the table allows is made.
LEMMA Allows ==
    ASSUME NEW next, NEW then, Transition(next, then), next \in Allowed[phase] \cup {phase}
    PROVE  phase' = next /\ step' = then
BY DEF Transition

\* Before the plan each step goes to the next one, or blocks the run.
LEMMA PreludeDoes ==
    ASSUME PhaseInv, AdvancePhase
    PROVE  /\ \/ step = "intake" /\ phase' = "INTAKE" /\ step' = "discovery"
              \/ step = "discovery" /\ phase' = "DISCOVERY" /\ step' = "decisions"
              \/ step = "decisions" /\ phase' = "DECISIONS" /\ step' = "reuse"
              \/ step = "reuse" /\ phase' = "REUSE_RESEARCH" /\ step' = "mapping"
              \/ step = "mapping" /\ phase' = "SYSTEM_MAPPING" /\ step' = "compile"
              \/ step = "compile" /\ phase' = "PLAN_COMPILE" /\ step' = "plan"
              \/ phase' = "BLOCKED" /\ step' = "off"
           /\ Stay
<1>1. CASE Blocked
  BY <1>1 DEF Blocked, AdvancePhase
<1>2. CASE Transition(Prelude[step][1], Prelude[step][2])
  <2>1. step \in {"intake", "discovery", "decisions", "reuse", "mapping", "compile"}
    BY PreludeTable DEF AdvancePhase
  <2>2. CASE step = "intake"
    BY <1>2, <2>2, PreludeTable, AllowedTable, Allows DEF PhaseInv, AdvancePhase
  <2>3. CASE step = "discovery"
    BY <1>2, <2>3, PreludeTable, AllowedTable, Allows DEF PhaseInv, AdvancePhase
  <2>4. CASE step = "decisions"
    BY <1>2, <2>4, PreludeTable, AllowedTable, Allows DEF PhaseInv, AdvancePhase
  <2>5. CASE step = "reuse"
    BY <1>2, <2>5, PreludeTable, AllowedTable, Allows DEF PhaseInv, AdvancePhase
  <2>6. CASE step = "mapping"
    BY <1>2, <2>6, PreludeTable, AllowedTable, Allows DEF PhaseInv, AdvancePhase
  <2>7. CASE step = "compile"
    BY <1>2, <2>7, PreludeTable, AllowedTable, Allows DEF PhaseInv, AdvancePhase
  <2> QED
    BY <2>1, <2>2, <2>3, <2>4, <2>5, <2>6, <2>7
<1> QED
  BY <1>1, <1>2 DEF AdvancePhase


\* No step of a run asks the phase table for what it refuses.
LEMMA PhaseStep == PhaseInv /\ [RunNext]_runVars => PhaseInv'
<1> SUFFICES ASSUME PhaseInv, [RunNext]_runVars
             PROVE  PhaseInv'
  OBVIOUS
<1> USE DEF PhaseInv, Transition, Blocked, Stay, Gates, stateFile, artifacts

<1>1. CASE OpenRun
  BY <1>1, AllowedTable DEF OpenRun
<1>2. CASE AdvancePhase
  BY <1>2, PreludeDoes
<1>3. CASE StopForDecision
  BY <1>3, AllowedTable DEF StopForDecision
<1>4. CASE CompilePlan
  BY <1>4, AllowedTable DEF CompilePlan
<1>5. CASE ReviewPlan
  BY <1>5, AllowedTable DEF ReviewPlan
<1>6. CASE RepairPlan
  BY <1>6, AllowedTable DEF RepairPlan
<1>7. CASE CheckPlan
  BY <1>7, AllowedTable DEF CheckPlan
<1>8. CASE WritePlan
  BY <1>8, AllowedTable DEF WritePlan
<1>9. CASE WriteReview
  BY <1>9, AllowedTable DEF WriteReview
<1>10. CASE ReusedReview
  BY <1>10, AllowedTable DEF ReusedReview
<1>11. CASE LockRunContract
  BY <1>11, AllowedTable DEF LockRunContract
<1>12. CASE EnterTasks
  BY <1>12, AllowedTable DEF EnterTasks
<1>13. CASE ImplementTask
  BY <1>13, AllowedTable DEF ImplementTask
<1>14. CASE EnterVerifying
  BY <1>14, AllowedTable DEF EnterVerifying
<1>15. CASE VerifyTree
  BY <1>15, AllowedTable DEF VerifyTree
<1>16. CASE RunLanes
  BY <1>16, AllowedTable DEF RunLanes
<1>17. CASE LanesDone
  BY <1>17, AllowedTable DEF LanesDone
<1>18. CASE ReviewTree
  BY <1>18, AllowedTable DEF ReviewTree
<1>19. CASE CountRepair
  BY <1>19, AllowedTable DEF CountRepair
<1>20. CASE RepairTree
  BY <1>20, AllowedTable DEF RepairTree
<1>21. CASE Demonstrate
  BY <1>21, AllowedTable DEF Demonstrate
<1>22. CASE Accept
  BY <1>22, AllowedTable DEF Accept
<1>23. CASE DeliverTree
  BY <1>23, AllowedTable DEF DeliverTree
<1>24. CASE KillController
  BY <1>24, AllowedTable DEF KillController
<1>25. CASE UNCHANGED runVars
  BY <1>25, AllowedTable DEF runVars
<1> QED
  BY <1>1, <1>2, <1>3, <1>4, <1>5, <1>6, <1>7, <1>8, <1>9, <1>10, <1>11, <1>12, <1>13, <1>14,
     <1>15, <1>16, <1>17, <1>18, <1>19, <1>20, <1>21, <1>22, <1>23, <1>24, <1>25
     DEF RunNext, ControllerNext

\* Every step keeps the records' shape.
LEMMA RunRecordsStep == RunRecords /\ PhaseInv /\ [RunNext]_runVars => RunRecords'
<1> SUFFICES ASSUME RunRecords, PhaseInv, [RunNext]_runVars
             PROVE  RunRecords'
  OBVIOUS
<1>a. /\ \A n \in Plans : n < MaxPlans => n + 1 \in Plans
      /\ \A n \in Trees : n < MaxTrees => n + 1 \in Trees
      /\ \A n \in 1 .. MaxOpenings : n < MaxOpenings => n + 1 \in 1 .. MaxOpenings
      /\ 0 \in Plans /\ 0 \in Trees /\ \A n \in 1 .. MaxOpenings : n \in 0 .. MaxOpenings
  BY RunPhasesAssumption DEF Plans, Trees
<1>b. /\ history.compiled \in Plans /\ history.approved \in SUBSET Plans /\ history.repairs \in Nat
      /\ history.openings \in 1 .. MaxOpenings
      /\ ofRun.plan \in Plans
  BY DEF RunRecords, RunTypeOK
<1> USE DEF RunRecords, RunTypeOK, Blocked, Stay, Gates, stateFile, artifacts, Fresh, Transition

<1>1. CASE OpenRun
  <2>1. "intake" \in Steps /\ "CREATED" \in Phases
    BY PreludeTable DEF Steps, Phases
  <2> QED
    BY <1>1, <2>1, <1>a, <1>b DEF OpenRun
<1>2. CASE AdvancePhase
  BY <1>2, <1>a, <1>b, PreludeTable, PreludeDoes DEF Steps, Phases
<1>3. CASE StopForDecision
  BY <1>3, <1>a, <1>b DEF StopForDecision, Steps, Phases
<1>4. CASE CompilePlan
  BY <1>4, <1>a, <1>b DEF CompilePlan, Steps, Phases
<1>5. CASE ReviewPlan
  BY <1>5, <1>a, <1>b DEF ReviewPlan, Steps, Phases
<1>6. CASE RepairPlan
  BY <1>6, <1>a, <1>b DEF RepairPlan, Steps, Phases
<1>7. CASE CheckPlan
  BY <1>7, <1>a, <1>b DEF CheckPlan, Steps, Phases
<1>8. CASE WritePlan
  BY <1>8, <1>a, <1>b DEF WritePlan, Steps, Phases
<1>9. CASE WriteReview
  BY <1>9, <1>a, <1>b DEF WriteReview, Steps, Phases
<1>10. CASE ReusedReview
  BY <1>10, <1>a, <1>b DEF ReusedReview, Steps, Phases
<1>11. CASE LockRunContract
  BY <1>11, <1>a, <1>b DEF LockRunContract, Steps, Phases
<1>12. CASE EnterTasks
  BY <1>12, <1>a, <1>b DEF EnterTasks, Steps, Phases
<1>13. CASE ImplementTask
  BY <1>13, <1>a, <1>b DEF ImplementTask, Steps, Phases
<1>14. CASE EnterVerifying
  BY <1>14, <1>a, <1>b DEF EnterVerifying, Steps, Phases
<1>15. CASE VerifyTree
  BY <1>15, <1>a, <1>b DEF VerifyTree, Steps, Phases
<1>16. CASE RunLanes
  BY <1>16, <1>a, <1>b DEF RunLanes, Steps, Phases
<1>17. CASE LanesDone
  BY <1>17, <1>a, <1>b DEF LanesDone, Steps, Phases
<1>18. CASE ReviewTree
  BY <1>18, <1>a, <1>b DEF ReviewTree, Steps, Phases
<1>19. CASE CountRepair
  BY <1>19, <1>a, <1>b DEF CountRepair, Steps, Phases
<1>20. CASE RepairTree
  BY <1>20, <1>a, <1>b DEF RepairTree, Steps, Phases
<1>21. CASE Demonstrate
  BY <1>21, <1>a, <1>b DEF Demonstrate, Steps, Phases
<1>22. CASE Accept
  BY <1>22, <1>a, <1>b DEF Accept, Steps, Phases
<1>23. CASE DeliverTree
  BY <1>23, <1>a, <1>b DEF DeliverTree, Steps, Phases
<1>24. CASE KillController
  BY <1>24, <1>a, <1>b DEF KillController, Steps, Phases
<1>25. CASE UNCHANGED runVars
  BY <1>25, <1>a, <1>b DEF runVars, Steps, Phases
<1> QED
  BY <1>1, <1>2, <1>3, <1>4, <1>5, <1>6, <1>7, <1>8, <1>9, <1>10, <1>11, <1>12, <1>13, <1>14,
     <1>15, <1>16, <1>17, <1>18, <1>19, <1>20, <1>21, <1>22, <1>23, <1>24, <1>25
     DEF RunNext, ControllerNext

\* Every step leaves the gates, the review and the demonstration of the tree that
\* the next one relies on.
LEMMA VerifiedStep == RunRecords /\ PhaseInv /\ VerifiedInv /\ [RunNext]_runVars => VerifiedInv'
<1> SUFFICES ASSUME RunRecords, PhaseInv, VerifiedInv, [RunNext]_runVars
             PROVE  VerifiedInv'
  OBVIOUS
<1>a. ofRun \in [plan : Plans, gated : Trees, reviewed : Trees, demonstrated : Trees, laneEdited : BOOLEAN]
  BY DEF RunRecords, RunTypeOK
<1> USE
        DEF PhaseInv, VerifiedInv, CompleteAsVerified, Verifying, Transition, Blocked, Stay,
            Gates, stateFile, artifacts

<1>1. CASE OpenRun
  BY <1>1, <1>a, AllowedTable DEF OpenRun
<1>2. CASE AdvancePhase
  BY <1>2, <1>a, PreludeDoes
<1>3. CASE StopForDecision
  BY <1>3, <1>a, AllowedTable DEF StopForDecision
<1>4. CASE CompilePlan
  BY <1>4, <1>a, AllowedTable DEF CompilePlan
<1>5. CASE ReviewPlan
  BY <1>5, <1>a, AllowedTable DEF ReviewPlan
<1>6. CASE RepairPlan
  BY <1>6, <1>a, AllowedTable DEF RepairPlan
<1>7. CASE CheckPlan
  BY <1>7, <1>a, AllowedTable DEF CheckPlan
<1>8. CASE WritePlan
  BY <1>8, <1>a, AllowedTable DEF WritePlan
<1>9. CASE WriteReview
  BY <1>9, <1>a, AllowedTable DEF WriteReview
<1>10. CASE ReusedReview
  BY <1>10, <1>a, AllowedTable DEF ReusedReview
<1>11. CASE LockRunContract
  BY <1>11, <1>a, AllowedTable DEF LockRunContract
<1>12. CASE EnterTasks
  BY <1>12, <1>a, AllowedTable DEF EnterTasks
<1>13. CASE ImplementTask
  BY <1>13, <1>a, AllowedTable DEF ImplementTask
<1>14. CASE EnterVerifying
  BY <1>14, <1>a, AllowedTable DEF EnterVerifying
<1>15. CASE VerifyTree
  BY <1>15, <1>a, AllowedTable DEF VerifyTree
<1>16. CASE RunLanes
  BY <1>16, <1>a, AllowedTable DEF RunLanes
<1>17. CASE LanesDone
  BY <1>17, <1>a, AllowedTable DEF LanesDone
<1>18. CASE ReviewTree
  BY <1>18, <1>a, AllowedTable DEF ReviewTree
<1>19. CASE CountRepair
  BY <1>19, <1>a, AllowedTable DEF CountRepair
<1>20. CASE RepairTree
  BY <1>20, <1>a, AllowedTable DEF RepairTree
<1>21. CASE Demonstrate
  BY <1>21, <1>a, AllowedTable DEF Demonstrate
<1>22. CASE Accept
  BY <1>22, <1>a, AllowedTable DEF Accept
<1>23. CASE DeliverTree
  BY <1>23, <1>a, AllowedTable DEF DeliverTree
<1>24. CASE KillController
  BY <1>24, <1>a, AllowedTable DEF KillController
<1>25. CASE UNCHANGED runVars
  BY <1>25, <1>a, AllowedTable DEF runVars
<1> QED
  BY <1>1, <1>2, <1>3, <1>4, <1>5, <1>6, <1>7, <1>8, <1>9, <1>10, <1>11, <1>12, <1>13, <1>14,
     <1>15, <1>16, <1>17, <1>18, <1>19, <1>20, <1>21, <1>22, <1>23, <1>24, <1>25
     DEF RunNext, ControllerNext

\* Every step counts its round before the round is made.
LEMMA LimitsStep == RunRecords /\ PhaseInv /\ LimitsInv /\ [RunNext]_runVars => LimitsInv'
<1> SUFFICES ASSUME RunRecords, PhaseInv, LimitsInv, [RunNext]_runVars
             PROVE  LimitsInv'
  OBVIOUS
<1>a. /\ history \in [compiled : Plans, approved : SUBSET Plans, repairs : Nat, openings : 1 .. MaxOpenings]
      /\ history.repairs \in Nat /\ history.openings \in Nat /\ history.openings >= 1
      /\ planCycles \in Nat /\ repairCycles \in Nat /\ RepairLimit \in Nat /\ ReviewLimit \in Nat
  BY RunPhasesAssumption DEF RunRecords, RunTypeOK
<1> USE DEF PhaseInv, LimitsInv, Transition, Blocked, Stay, Gates, stateFile, artifacts

<1>1. CASE OpenRun
  BY <1>1, <1>a, AllowedTable DEF OpenRun
<1>2. CASE AdvancePhase
  BY <1>2, <1>a, PreludeDoes
<1>3. CASE StopForDecision
  BY <1>3, <1>a, AllowedTable DEF StopForDecision
<1>4. CASE CompilePlan
  BY <1>4, <1>a, AllowedTable DEF CompilePlan
<1>5. CASE ReviewPlan
  BY <1>5, <1>a, AllowedTable DEF ReviewPlan
<1>6. CASE RepairPlan
  BY <1>6, <1>a, AllowedTable DEF RepairPlan
<1>7. CASE CheckPlan
  BY <1>7, <1>a, AllowedTable DEF CheckPlan
<1>8. CASE WritePlan
  BY <1>8, <1>a, AllowedTable DEF WritePlan
<1>9. CASE WriteReview
  BY <1>9, <1>a, AllowedTable DEF WriteReview
<1>10. CASE ReusedReview
  BY <1>10, <1>a, AllowedTable DEF ReusedReview
<1>11. CASE LockRunContract
  BY <1>11, <1>a, AllowedTable DEF LockRunContract
<1>12. CASE EnterTasks
  BY <1>12, <1>a, AllowedTable DEF EnterTasks
<1>13. CASE ImplementTask
  BY <1>13, <1>a, AllowedTable DEF ImplementTask
<1>14. CASE EnterVerifying
  BY <1>14, <1>a, AllowedTable DEF EnterVerifying
<1>15. CASE VerifyTree
  BY <1>15, <1>a, AllowedTable DEF VerifyTree
<1>16. CASE RunLanes
  BY <1>16, <1>a, AllowedTable DEF RunLanes
<1>17. CASE LanesDone
  BY <1>17, <1>a, AllowedTable DEF LanesDone
<1>18. CASE ReviewTree
  BY <1>18, <1>a, AllowedTable DEF ReviewTree
<1>19. CASE CountRepair
  BY <1>19, <1>a, AllowedTable DEF CountRepair
<1>20. CASE RepairTree
  BY <1>20, <1>a, AllowedTable DEF RepairTree
<1>21. CASE Demonstrate
  BY <1>21, <1>a, AllowedTable DEF Demonstrate
<1>22. CASE Accept
  BY <1>22, <1>a, AllowedTable DEF Accept
<1>23. CASE DeliverTree
  BY <1>23, <1>a, AllowedTable DEF DeliverTree
<1>24. CASE KillController
  BY <1>24, <1>a, AllowedTable DEF KillController
<1>25. CASE UNCHANGED runVars
  BY <1>25, <1>a, AllowedTable DEF runVars
<1> QED
  BY <1>1, <1>2, <1>3, <1>4, <1>5, <1>6, <1>7, <1>8, <1>9, <1>10, <1>11, <1>12, <1>13, <1>14,
     <1>15, <1>16, <1>17, <1>18, <1>19, <1>20, <1>21, <1>22, <1>23, <1>24, <1>25
     DEF RunNext, ControllerNext

\* Every step goes on with an approved plan only.
LEMMA ApprovalStep == RunRecords /\ PhaseInv /\ ApprovalInv /\ [RunNext]_runVars => ApprovalInv'
<1> SUFFICES ASSUME RunRecords, PhaseInv, ApprovalInv, [RunNext]_runVars
             PROVE  ApprovalInv'
  OBVIOUS
<1>a. /\ ofRun \in [plan : Plans, gated : Trees, reviewed : Trees, demonstrated : Trees, laneEdited : BOOLEAN]
      /\ history \in [compiled : Plans, approved : SUBSET Plans, repairs : Nat, openings : 1 .. MaxOpenings]
  BY DEF RunRecords, RunTypeOK
<1> USE DEF PhaseInv, ApprovalInv, Verifying, Transition, Blocked, Stay, Gates, stateFile, artifacts

<1>1. CASE OpenRun
  BY <1>1, <1>a, AllowedTable DEF OpenRun
<1>2. CASE AdvancePhase
  BY <1>2, <1>a, PreludeDoes
<1>3. CASE StopForDecision
  BY <1>3, <1>a, AllowedTable DEF StopForDecision
<1>4. CASE CompilePlan
  BY <1>4, <1>a, AllowedTable DEF CompilePlan
<1>5. CASE ReviewPlan
  BY <1>5, <1>a, AllowedTable DEF ReviewPlan
<1>6. CASE RepairPlan
  BY <1>6, <1>a, AllowedTable DEF RepairPlan
<1>7. CASE CheckPlan
  BY <1>7, <1>a, AllowedTable DEF CheckPlan
<1>8. CASE WritePlan
  BY <1>8, <1>a, AllowedTable DEF WritePlan
<1>9. CASE WriteReview
  BY <1>9, <1>a, AllowedTable DEF WriteReview
<1>10. CASE ReusedReview
  BY <1>10, <1>a, AllowedTable DEF ReusedReview
<1>11. CASE LockRunContract
  BY <1>11, <1>a, AllowedTable DEF LockRunContract
<1>12. CASE EnterTasks
  BY <1>12, <1>a, AllowedTable DEF EnterTasks
<1>13. CASE ImplementTask
  BY <1>13, <1>a, AllowedTable DEF ImplementTask
<1>14. CASE EnterVerifying
  BY <1>14, <1>a, AllowedTable DEF EnterVerifying
<1>15. CASE VerifyTree
  BY <1>15, <1>a, AllowedTable DEF VerifyTree
<1>16. CASE RunLanes
  BY <1>16, <1>a, AllowedTable DEF RunLanes
<1>17. CASE LanesDone
  BY <1>17, <1>a, AllowedTable DEF LanesDone
<1>18. CASE ReviewTree
  BY <1>18, <1>a, AllowedTable DEF ReviewTree
<1>19. CASE CountRepair
  BY <1>19, <1>a, AllowedTable DEF CountRepair
<1>20. CASE RepairTree
  BY <1>20, <1>a, AllowedTable DEF RepairTree
<1>21. CASE Demonstrate
  BY <1>21, <1>a, AllowedTable DEF Demonstrate
<1>22. CASE Accept
  BY <1>22, <1>a, AllowedTable DEF Accept
<1>23. CASE DeliverTree
  BY <1>23, <1>a, AllowedTable DEF DeliverTree
<1>24. CASE KillController
  BY <1>24, <1>a, AllowedTable DEF KillController
<1>25. CASE UNCHANGED runVars
  BY <1>25, <1>a, AllowedTable DEF runVars
<1> QED
  BY <1>1, <1>2, <1>3, <1>4, <1>5, <1>6, <1>7, <1>8, <1>9, <1>10, <1>11, <1>12, <1>13, <1>14,
     <1>15, <1>16, <1>17, <1>18, <1>19, <1>20, <1>21, <1>22, <1>23, <1>24, <1>25
     DEF RunNext, ControllerNext

\* The initial states satisfy the invariant of a run.
LEMMA RunInvInit == RunInit => RunInv
<1> SUFFICES ASSUME RunInit
             PROVE  RunInv
  OBVIOUS
<1>1. /\ 0 \in Plans /\ 0 \in Trees /\ 1 \in 1 .. MaxOpenings /\ 1 \in 0 .. MaxOpenings
      /\ RepairLimit \in Nat /\ ReviewLimit \in Nat
  BY RunPhasesAssumption DEF Plans, Trees
<1>2. RunRecords
  BY <1>1, PreludeTable DEF RunInit, RunRecords, RunTypeOK, Fresh, Steps, Phases
<1>3. PhaseInv /\ VerifiedInv /\ ApprovalInv
  BY DEF RunInit, PhaseInv, VerifiedInv, CompleteAsVerified, Verifying, ApprovalInv
<1>4. LimitsInv
  BY <1>1 DEF RunInit, LimitsInv
<1> QED
  BY <1>2, <1>3, <1>4 DEF RunInv

\* Every step keeps the invariant of a run.
LEMMA RunInvStep == RunInv /\ [RunNext]_runVars => RunInv'
BY PhaseStep, RunRecordsStep, VerifiedStep, LimitsStep, ApprovalStep DEF RunInv

\* The inductive invariant of a run's phases.
THEOREM RunInvariant == RunSpec => []RunInv
BY RunInvInit, RunInvStep, PTL DEF RunSpec

\* What a completed run delivers is the tree that passed the gates, that the review
\* approved and that was demonstrated; the limits on refused plans and repairs hold over
\* all its continuations together, but for one review of each; and no path through run asks the phase table for a
\* step it refuses, whichever phase a kill or an error left on disk.
THEOREM RunDelivers == RunSpec => []DeliveredAsVerified
<1>1. RunInv => DeliveredAsVerified
  <2> SUFFICES ASSUME RunInv
               PROVE  DeliveredAsVerified
    OBVIOUS
  <2>1. CompleteAsVerified /\ step # "refused"
    BY DEF RunInv, VerifiedInv, PhaseInv
  <2>2. history.repairs \in Nat /\ repairCycles \in Nat /\ RepairLimit \in Nat
    BY RunPhasesAssumption DEF RunInv, RunRecords, RunTypeOK
  <2>3. LimitsAndApproval
    BY <2>2 DEF RunInv, LimitsInv, ApprovalInv, LimitsAndApproval
  <2> QED
    BY <2>1, <2>3 DEF DeliveredAsVerified
<1> QED
  BY <1>1, RunInvariant, PTL

-----------------------------------------------------------------------------
(* Workers: the budget of launches, and answers without a trace of others. *)

\* Where a call holds the repository's lock, and where its worker may have changed
\* the workspace or the ledger without anything having been put back yet.
Holding == {"held", "reserved", "running", "exited", "rollback", "finalise", "answered"}
Unsettled == {"running", "exited"}

\* The shape of the records, whatever the names of the workers left to try are.
Call(Lefts) == [pc : ThreadPCs, runner : Runners \cup {NoRunner}, left : Lefts, sandbox : Sandboxes,
                proc : 0 .. MaxProcs, failure : Failures]

WorkerRecords ==
    /\ ledger \in 0 .. MaxCalls /\ authority \in [Runners -> 0 .. MaxCalls]
    /\ launched \in 0 .. MaxProcs
    /\ workTree \in [edits : SUBSET (0 .. MaxProcs), moved : BOOLEAN]
    /\ thread \in [Threads -> Call({thread[t].left : t \in Threads})]
    /\ live \subseteq Runners
    /\ stops \in 0 .. MaxStops
    /\ counted \in 0 .. MaxCalls /\ forgotten \in Nat
    /\ overlapped \in BOOLEAN /\ escaped \in BOOLEAN

\* One call at a time holds the lock, and it is the one that the lock names; the
\* calls are those of live controllers.
HolderInv ==
    \A t \in Threads :
        /\ thread[t].pc \in Holding <=> holder = t
        /\ thread[t].pc # "idle" => thread[t].runner \in live

\* The file is as controllers left it except while a worker runs or has just ended.
\* Every launch was counted before it was made, so that the count and what was
\* forgotten of it bound the launches.  A controller that was never beside another
\* has the ledger as it is, and forgets nothing.
LedgerInv ==
    /\ (\A t \in Threads : thread[t].pc \notin Unsettled) => ledger = counted
    /\ ~overlapped => \A r, q \in live : r = q
    /\ ~overlapped /\ ~escaped => forgotten = 0 /\ \A r \in live : authority[r] = counted
    /\ ~escaped => /\ launched <= counted + forgotten
                   /\ \A t \in Threads : ThreadAt(t, "reserved") => launched < counted + forgotten

\* A call starts with a clean workspace, and what it finds there later its own
\* process left.
TraceInv ==
    \A t \in Threads :
        /\ thread[t].pc \in {"held", "reserved"} => workTree = Clean
        /\ thread[t].pc \in {"running", "exited", "finalise", "answered"} =>
              workTree.edits \subseteq {thread[t].proc}
        /\ thread[t].pc \in {"finalise", "answered"} => ~workTree.moved
        /\ ThreadAt(t, "answered") => ReadOnlyKept(t)

\* What is left to try are positions in the list of workers, some of them from
\* the lock on; a worker that runs was launched, so that no edit is of none.
QueueInv ==
    /\ holder \in Threads \cup {NoThread}
    /\ preferred \in [Runners -> {Providers[i] : i \in DOMAIN Providers} \cup {"none"}]
    /\ 0 \notin workTree.edits
    /\ \A t \in Threads :
          /\ thread[t].left \in Seq(DOMAIN Providers)
          /\ thread[t].pc \in {"lock"} \cup Holding => thread[t].left # <<>>
          /\ ThreadAt(t, "running") => thread[t].proc # 0

WorkersInv == WorkerRecords /\ HolderInv /\ LedgerInv /\ TraceInv /\ QueueInv

\* A worker that is left to try is one of the names this step may leave.
LEMMA LeftsGrow ==
    ASSUME NEW Lefts, thread \in [Threads -> Call(Lefts)], NEW More, Lefts \subseteq More
    PROVE  thread \in [Threads -> Call(More)]
BY DEF Call

\* The names that are left to try are those the calls name.
LEMMA LeftsNamed ==
    ASSUME NEW Lefts, thread' \in [Threads -> Call(Lefts)]
    PROVE  thread' \in [Threads -> Call({thread[t].left : t \in Threads}')]
<1>1. \A t \in Threads : thread'[t] \in Call({thread[u].left : u \in Threads}')
  BY DEF Call
<1> QED
  BY <1>1

\* One call moves, and the others stay; it stays its controller's.
OnlyCall(t, Lefts, to) ==
    /\ thread' \in [Threads -> Call(Lefts)]
    /\ thread'[t].pc = to
    /\ \A u \in Threads \ {t} : thread'[u] = thread[u]
SameCall(t, Lefts, to) == OnlyCall(t, Lefts, to) /\ thread'[t].runner = thread[t].runner

\* The ways the actions write a call change that call alone.
LEMMA CallMoves ==
    ASSUME NEW Lefts, thread \in [Threads -> Call(Lefts)], NEW t \in Threads,
           IdleThread \in Call(Lefts)
    PROVE  /\ \A to \in ThreadPCs : ThreadGoes(t, to) => SameCall(t, Lefts, to)
           /\ \A to \in ThreadPCs, f \in Failures : ThreadFails(t, to, f) => SameCall(t, Lefts, to)
           /\ \A to \in ThreadPCs, n \in 0 .. MaxProcs :
                 thread' = [thread EXCEPT ![t].pc = to, ![t].proc = n] => SameCall(t, Lefts, to)
           /\ RaiseCall(t) => OnlyCall(t, Lefts, "idle")
<1>1. ASSUME NEW to \in ThreadPCs, ThreadGoes(t, to)
      PROVE  SameCall(t, Lefts, to)
  BY <1>1 DEF ThreadGoes, SameCall, OnlyCall, Call
<1>2. ASSUME NEW to \in ThreadPCs, NEW f \in Failures, ThreadFails(t, to, f)
      PROVE  SameCall(t, Lefts, to)
  BY <1>2 DEF ThreadFails, SameCall, OnlyCall, Call
<1>3. ASSUME NEW to \in ThreadPCs, NEW n \in 0 .. MaxProcs, thread' = [thread EXCEPT ![t].pc = to, ![t].proc = n]
      PROVE  SameCall(t, Lefts, to)
  BY <1>3 DEF SameCall, OnlyCall, Call
<1>4. RaiseCall(t) => OnlyCall(t, Lefts, "idle")
  <2>1. IdleThread.pc = "idle"
    BY DEF IdleThread
  <2> QED
    BY <2>1 DEF RaiseCall, OnlyCall
<1> QED
  BY <1>1, <1>2, <1>3, <1>4

\* A call at rest has the shape of a call.
LEMMA IdleIsCall == ASSUME NEW Lefts, <<>> \in Lefts PROVE IdleThread \in Call(Lefts)
BY WorkersAssumption DEF IdleThread, Call, ThreadPCs, Sandboxes, Failures

\* The orders any controller's pool may try.
Orders == UNION {OrderedWorkers(r) : r \in Runners}

\* What each action of a call does to the calls.
LEMMA CallDoes ==
    ASSUME WorkerRecords, NEW Lefts, thread \in [Threads -> Call(Lefts)], NEW t \in Threads,
           <<>> \in Lefts, Orders \subseteq Lefts, Tail(thread[t].left) \in Lefts
    PROVE  /\ StartRequest(t) => OnlyCall(t, Lefts, "pool") /\ thread'[t].runner \in live
           /\ TryNext(t) => OnlyCall(t, Lefts, "idle") \/ SameCall(t, Lefts, "lock")
           /\ AcquireRepository(t) =>
                  \/ Pristine /\ holder' = t /\ SameCall(t, Lefts, "held")
                  \/ holder' = holder /\ OnlyCall(t, Lefts, "idle")
           /\ LockTimesOut(t) => OnlyCall(t, Lefts, "idle")
           /\ ReserveCall(t) =>
                  \/ /\ ledger < MaxCalls /\ counted' = ledger + 1
                     /\ PersistLedger(thread[t].runner, ledger + 1)
                     /\ SameCall(t, Lefts, "reserved")
                  \/ UNCHANGED <<ledger, authority, counted>> /\ SameCall(t, Lefts, "exited")
           /\ LaunchProcess(t) => SameCall(t, Lefts, "running")
           /\ WorkerExits(t) => SameCall(t, Lefts, "exited")
           /\ SandboxFallback(t) => SameCall(t, Lefts, "held")
           /\ RestoreTruth(t) => SameCall(t, Lefts, "rollback") \/ SameCall(t, Lefts, "finalise")
           /\ RollBackAttempt(t) => SameCall(t, Lefts, "pool") \/ OnlyCall(t, Lefts, "idle")
           /\ FinaliseAttempt(t) => SameCall(t, Lefts, "answered") \/ SameCall(t, Lefts, "rollback")
           /\ ReturnAnswer(t) => SameCall(t, Lefts, "returned")
<1>a. ThreadPCs = {"idle", "pool", "lock", "held", "reserved", "running", "exited", "rollback",
                   "finalise", "answered", "returned"}
  BY DEF ThreadPCs
<1>b. Failures = {"none", "retryable", "budget", "safety"}
  BY DEF Failures
<1>c. /\ ledger \in 0 .. MaxCalls /\ launched \in 0 .. MaxProcs /\ MaxCalls \in Nat /\ MaxProcs \in Nat
      /\ live \subseteq Runners
  BY WorkersAssumption DEF WorkerRecords
<1>d. IdleThread \in Call(Lefts)
  BY IdleIsCall
<1>e. /\ \A to \in ThreadPCs : ThreadGoes(t, to) => SameCall(t, Lefts, to)
      /\ \A to \in ThreadPCs, f \in Failures : ThreadFails(t, to, f) => SameCall(t, Lefts, to)
      /\ \A to \in ThreadPCs, n \in 0 .. MaxProcs :
            thread' = [thread EXCEPT ![t].pc = to, ![t].proc = n] => SameCall(t, Lefts, to)
      /\ RaiseCall(t) => OnlyCall(t, Lefts, "idle")
  BY <1>d, CallMoves
<1>1. ASSUME StartRequest(t)
      PROVE  OnlyCall(t, Lefts, "pool") /\ thread'[t].runner \in live
  <2>1. PICK r \in live, s \in Sandboxes : \E order \in OrderedWorkers(r) :
           thread' = [thread EXCEPT ![t] = [IdleThread EXCEPT !.pc = "pool", !.runner = r,
                                              !.sandbox = s, !.left = order]]
    BY <1>1 DEF StartRequest
  <2>2. PICK order \in Orders :
           thread' = [thread EXCEPT ![t] = [IdleThread EXCEPT !.pc = "pool", !.runner = r,
                                              !.sandbox = s, !.left = order]]
    BY <2>1, <1>c DEF Orders
  <2> DEFINE newCall == [IdleThread EXCEPT !.pc = "pool", !.runner = r, !.sandbox = s, !.left = order]
  <2>3. [IdleThread EXCEPT !.pc = "pool"] \in Call(Lefts)
    BY <1>d, <1>a DEF Call
  <2>4. newCall \in Call(Lefts) /\ newCall.pc = "pool" /\ newCall.runner = r
    BY <1>d, <2>3, <1>a, <1>c DEF Call
  <2>5. thread' = [thread EXCEPT ![t] = newCall]
    BY <2>2
  <2> HIDE DEF newCall
  <2> QED
    BY <2>4, <2>5 DEF OnlyCall
<1>2. TryNext(t) => OnlyCall(t, Lefts, "idle") \/ SameCall(t, Lefts, "lock")
  BY <1>a, <1>e DEF TryNext
<1>3. ASSUME AcquireRepository(t)
      PROVE  \/ Pristine /\ holder' = t /\ SameCall(t, Lefts, "held")
             \/ holder' = holder /\ OnlyCall(t, Lefts, "idle")
  BY <1>3, <1>a, <1>e DEF AcquireRepository
<1>4. LockTimesOut(t) => OnlyCall(t, Lefts, "idle")
  BY <1>e DEF LockTimesOut
<1>5. ASSUME ReserveCall(t)
      PROVE  \/ /\ ledger < MaxCalls /\ counted' = ledger + 1
                /\ PersistLedger(thread[t].runner, ledger + 1)
                /\ SameCall(t, Lefts, "reserved")
             \/ UNCHANGED <<ledger, authority, counted>> /\ SameCall(t, Lefts, "exited")
  BY <1>5, <1>a, <1>e DEF ReserveCall
<1>6. ASSUME LaunchProcess(t)
      PROVE  SameCall(t, Lefts, "running")
  <2>1. launched < MaxProcs => launched + 1 \in 0 .. MaxProcs
    BY <1>c
  <2> QED
    BY <1>6, <2>1, <1>a, <1>e DEF LaunchProcess
<1>7. WorkerExits(t) => SameCall(t, Lefts, "exited")
  BY <1>a, <1>b, <1>e DEF WorkerExits, ProviderFailures
<1>8. SandboxFallback(t) => SameCall(t, Lefts, "held")
  BY <1>a, <1>e DEF SandboxFallback
<1>9. ASSUME RestoreTruth(t)
      PROVE  SameCall(t, Lefts, "rollback") \/ SameCall(t, Lefts, "finalise")
  <2>1. \E to \in {"rollback", "finalise"}, f \in Failures : ThreadFails(t, to, f)
    BY <1>9, <1>b DEF RestoreTruth, ThreadFails, Call
  <2> QED
    BY <2>1, <1>a, <1>e
<1>10. ASSUME RollBackAttempt(t)
       PROVE  SameCall(t, Lefts, "pool") \/ OnlyCall(t, Lefts, "idle")
  <2>1. CASE RaiseCall(t)
    BY <2>1, <1>e
  <2>2. CASE thread' = [thread EXCEPT ![t] = AfterFailure(t)]
    <3>1. \/ AfterFailure(t) = IdleThread
          \/ AfterFailure(t) = [thread[t] EXCEPT !.pc = "pool", !.left = Tail(@)]
      BY DEF AfterFailure
    <3>2. CASE AfterFailure(t) = IdleThread
      BY <2>2, <3>2, <1>e DEF RaiseCall
    <3>3. CASE AfterFailure(t) = [thread[t] EXCEPT !.pc = "pool", !.left = Tail(@)]
      <4>1. thread[t] \in Call(Lefts)
        OBVIOUS
      <4>2. /\ AfterFailure(t) \in Call(Lefts) /\ AfterFailure(t).pc = "pool"
            /\ AfterFailure(t).runner = thread[t].runner
        BY <3>3, <4>1, <1>a DEF Call
      <4> QED
        BY <2>2, <4>2 DEF SameCall, OnlyCall
    <3> QED
      BY <3>1, <3>2, <3>3
  <2> QED
    BY <1>10, <2>1, <2>2 DEF RollBackAttempt
<1>11. FinaliseAttempt(t) => SameCall(t, Lefts, "answered") \/ SameCall(t, Lefts, "rollback")
  BY <1>a, <1>b, <1>e DEF FinaliseAttempt
<1>12. ASSUME ReturnAnswer(t)
       PROVE  SameCall(t, Lefts, "returned")
  <2> DEFINE newCall == [IdleThread EXCEPT !.pc = "returned", !.runner = thread[t].runner,
                                        !.proc = thread[t].proc]
  <2>1. newCall = [IdleThread EXCEPT !.pc = "returned", !.runner = thread[t].runner, !.proc = thread[t].proc]
    OBVIOUS
  <2>2. newCall \in Call(Lefts) /\ newCall.pc = "returned" /\ newCall.runner = thread[t].runner
    BY <1>a, <1>d DEF Call
  <2> HIDE DEF newCall
  <2> QED
    BY <1>12, <2>1, <2>2 DEF ReturnAnswer, SameCall, OnlyCall
<1> QED
  BY <1>1, <1>2, <1>3, <1>4, <1>5, <1>6, <1>7, <1>8, <1>9, <1>10, <1>11, <1>12

\* The names the calls' records can hold after a step.
LEMMA LeftsEnough ==
    ASSUME WorkerRecords
    PROVE  \E Lefts : /\ thread \in [Threads -> Call(Lefts)] /\ <<>> \in Lefts /\ Orders \subseteq Lefts
                      /\ \A t \in Threads : Tail(thread[t].left) \in Lefts
<1> DEFINE old == {thread[t].left : t \in Threads}
           all == old \cup {Tail(l) : l \in old} \cup Orders \cup {<<>>}
<1>1. thread \in [Threads -> Call(all)]
  BY LeftsGrow DEF WorkerRecords
<1>2. /\ Orders \subseteq all /\ <<>> \in all
      /\ \A t \in Threads : Tail(thread[t].left) \in all
  OBVIOUS
<1> HIDE DEF all
<1> QED
  BY <1>1, <1>2

\* What opening, killing and settling do to the calls.
LEMMA AllIdleKeeps ==
    ASSUME NEW Lefts, thread \in [Threads -> Call(Lefts)], <<>> \in Lefts, NEW r, thread' = AllIdle(r)
    PROVE  /\ thread' \in [Threads -> Call(Lefts)]
           /\ \A t \in Threads : \/ thread'[t] = IdleThread /\ thread[t].runner = r
                                 \/ thread'[t] = thread[t] /\ thread[t].runner # r
BY IdleIsCall DEF AllIdle

\* Every step keeps the records' shape.
LEMMA WorkerRecordsStep == WorkerRecords /\ HolderInv /\ [WorkersNext]_workerVars => WorkerRecords'
<1> SUFFICES ASSUME WorkerRecords, HolderInv, [WorkersNext]_workerVars
             PROVE  WorkerRecords'
  OBVIOUS
<1>1. PICK Lefts : /\ thread \in [Threads -> Call(Lefts)] /\ <<>> \in Lefts /\ Orders \subseteq Lefts
                   /\ \A t \in Threads : Tail(thread[t].left) \in Lefts
  BY LeftsEnough
<1>2. thread' \in [Threads -> Call(Lefts)]
  <2>1. CASE UNCHANGED thread
    BY <1>1, <2>1
  <2>2. CASE \E r \in Runners : thread' = AllIdle(r)
    BY <1>1, <2>2, AllIdleKeeps
  <2>3. CASE \E t \in Threads : \E to : OnlyCall(t, Lefts, to)
    BY <2>3 DEF OnlyCall
  <2>4. \A t \in Threads : WorkerEdits(t) => UNCHANGED thread
    BY DEF WorkerEdits
  <2>5. \A r \in Runners : OpenRunner(r) \/ KillRunner(r) \/ SettleWorkspace(r) => thread' = AllIdle(r)
    BY DEF OpenRunner, KillRunner, SettleWorkspace
  <2> QED
    BY <1>1, <2>1, <2>2, <2>3, <2>4, <2>5, CallDoes DEF WorkersNext, workerVars, SameCall
<1>3. thread' \in [Threads -> Call({thread[t].left : t \in Threads}')]
  BY <1>2, LeftsNamed
<1>a. /\ \A n \in 0 .. MaxCalls : n < MaxCalls => n + 1 \in 0 .. MaxCalls
      /\ \A n \in 0 .. MaxProcs : n < MaxProcs => n + 1 \in 0 .. MaxProcs
      /\ \A n \in 0 .. MaxStops : n < MaxStops => n + 1 \in 0 .. MaxStops
      /\ 0 \in 0 .. MaxCalls /\ 0 \in 0 .. MaxProcs
  BY WorkersAssumption
<1>b. /\ ledger \in 0 .. MaxCalls /\ authority \in [Runners -> 0 .. MaxCalls]
      /\ launched \in 0 .. MaxProcs
      /\ workTree \in [edits : SUBSET (0 .. MaxProcs), moved : BOOLEAN]
      /\ live \subseteq Runners
      /\ stops \in 0 .. MaxStops
      /\ counted \in 0 .. MaxCalls /\ forgotten \in Nat
      /\ overlapped \in BOOLEAN /\ escaped \in BOOLEAN
      /\ \A t \in Threads : thread[t].proc \in 0 .. MaxProcs
  BY <1>1 DEF WorkerRecords, Call
<1>c. SUFFICES /\ ledger' \in 0 .. MaxCalls /\ authority' \in [Runners -> 0 .. MaxCalls]
             /\ launched' \in 0 .. MaxProcs
             /\ workTree' \in [edits : SUBSET (0 .. MaxProcs), moved : BOOLEAN]
             /\ live' \subseteq Runners
             /\ stops' \in 0 .. MaxStops
             /\ counted' \in 0 .. MaxCalls /\ forgotten' \in Nat
             /\ overlapped' \in BOOLEAN /\ escaped' \in BOOLEAN
  BY <1>3 DEF WorkerRecords
<1>d. Clean \in [edits : SUBSET (0 .. MaxProcs), moved : BOOLEAN]
  BY DEF Clean
<1>e. \A t \in Threads : thread[t].pc # "idle" => thread[t].runner \in live
  BY DEF HolderInv
<1> USE <1>a, <1>b, <1>d DEF ledgerHistory

<1>9. CASE \E r \in Runners : OpenRunner(r)
  BY <1>9 DEF OpenRunner
<1>10. CASE \E r \in Runners : KillRunner(r)
  BY <1>10 DEF KillRunner
<1>12. CASE \E r \in Runners : SettleWorkspace(r)
  BY <1>12 DEF SettleWorkspace, ResetTree
<1>13. CASE \E t \in Threads : StartRequest(t)
  BY <1>13 DEF StartRequest
<1>14. CASE \E t \in Threads : TryNext(t)
  BY <1>14 DEF TryNext
<1>15. CASE \E t \in Threads : AcquireRepository(t)
  BY <1>15 DEF AcquireRepository
<1>16. CASE \E t \in Threads : LockTimesOut(t)
  BY <1>16 DEF LockTimesOut
<1>17. CASE \E t \in Threads : ReserveCall(t)
  BY <1>17 DEF ReserveCall, PersistLedger
<1>18. CASE \E t \in Threads : LaunchProcess(t)
  BY <1>18 DEF LaunchProcess
<1>19. CASE \E t \in Threads : WorkerEdits(t)
  <2>1. PICK t \in Threads : WorkerEdits(t)
    BY <1>19
  <2>2. [workTree EXCEPT !.edits = @ \cup {thread[t].proc}] \in [edits : SUBSET (0 .. MaxProcs), moved : BOOLEAN]
    BY <2>1
  <2>3. [workTree EXCEPT !.moved = TRUE] \in [edits : SUBSET (0 .. MaxProcs), moved : BOOLEAN]
    OBVIOUS
  <2> QED
    BY <2>1, <2>2, <2>3 DEF WorkerEdits
<1>20. CASE \E t \in Threads : WorkerExits(t)
  BY <1>20 DEF WorkerExits
<1>21. CASE \E t \in Threads : SandboxFallback(t)
  BY <1>21 DEF SandboxFallback
<1>22. CASE \E t \in Threads : RestoreTruth(t)
  <2>1. PICK t \in Threads : RestoreTruth(t)
    BY <1>22
  <2>2. TrueLedger(t) \in 0 .. MaxCalls
    <3>1. thread[t].runner \in live
      BY <2>1, <1>e DEF RestoreTruth, ThreadAt
    <3> QED
      BY <3>1 DEF TrueLedger
  <2>3. counted + forgotten > TrueLedger(t) => counted + forgotten - TrueLedger(t) \in Nat
    BY <2>2, WorkersAssumption
  <2> QED
    BY <2>1, <2>2, <2>3 DEF RestoreTruth, RestoreMetadata
<1>23. CASE \E t \in Threads : RollBackAttempt(t)
  BY <1>23 DEF RollBackAttempt, ResetTree
<1>24. CASE \E t \in Threads : FinaliseAttempt(t)
  BY <1>24 DEF FinaliseAttempt
<1>25. CASE \E t \in Threads : ReturnAnswer(t)
  BY <1>25 DEF ReturnAnswer
<1>26. CASE UNCHANGED workerVars
  BY <1>26 DEF workerVars
<1> QED
  BY <1>9, <1>10, <1>12, <1>13, <1>14, <1>15, <1>16, <1>17, <1>18, <1>19, <1>20, <1>21, <1>22,
     <1>23, <1>24, <1>25, <1>26 DEF WorkersNext

\* Every step keeps the lock with the call that holds it, and the calls with live
\* controllers.
LEMMA HolderStep == WorkerRecords /\ HolderInv /\ [WorkersNext]_workerVars => HolderInv'
<1> SUFFICES ASSUME WorkerRecords, HolderInv, [WorkersNext]_workerVars
             PROVE  HolderInv'
  OBVIOUS
<1>a. PICK Lefts : /\ thread \in [Threads -> Call(Lefts)] /\ <<>> \in Lefts /\ Orders \subseteq Lefts
                   /\ \A t \in Threads : Tail(thread[t].left) \in Lefts
  BY LeftsEnough
<1>b. \A t \in Threads : /\ thread[t].pc \in Holding <=> holder = t
                         /\ thread[t].pc # "idle" => thread[t].runner \in live
  BY DEF HolderInv
<1>c. ASSUME NEW t \in Threads, NEW to, OnlyCall(t, Lefts, to), to \in Holding <=> holder' = t,
             \A u \in Threads \ {t} : holder' = u <=> holder = u,
             to # "idle" => thread'[t].runner \in live, live' = live
      PROVE  HolderInv'
  <2>1. \A u \in Threads : /\ thread'[u].pc \in Holding <=> holder' = u
                           /\ thread'[u].pc # "idle" => thread'[u].runner \in live'
    BY <1>b, <1>c DEF OnlyCall
  <2> QED
    BY <2>1 DEF HolderInv
<1>d. ASSUME NEW t \in Threads, NEW to, SameCall(t, Lefts, to),
             thread[t].pc # "idle", to \in Holding <=> holder' = t,
             \A u \in Threads \ {t} : holder' = u <=> holder = u, live' = live
      PROVE  HolderInv'
  <2>1. OnlyCall(t, Lefts, to) /\ thread'[t].runner \in live
    BY <1>b, <1>d DEF SameCall
  <2> QED
    BY <2>1, <1>c, <1>d
<1>f. ASSUME NEW t \in Threads, OnlyCall(t, Lefts, "idle"), holder' # t,
             \A u \in Threads \ {t} : holder' = u <=> holder = u, live' = live
      PROVE  HolderInv'
  BY <1>c, <1>f DEF Holding
<1>e. IdleThread.pc = "idle" /\ "idle" \notin Holding
  BY DEF IdleThread, Holding
<1>1. ASSUME NEW r \in Runners, OpenRunner(r) \/ KillRunner(r) \/ SettleWorkspace(r)
      PROVE  HolderInv'
  <2>1. \A t \in Threads : \/ thread'[t] = IdleThread /\ thread[t].runner = r
                           \/ thread'[t] = thread[t] /\ thread[t].runner # r
    BY <1>1, <1>a, AllIdleKeeps DEF OpenRunner, KillRunner, SettleWorkspace
  <2>2. CASE OpenRunner(r)
    <3>1. \A t \in Threads : thread[t].runner = r => thread[t].pc = "idle"
      BY <2>2, <1>b DEF OpenRunner
    <3>2. holder' = holder /\ live \subseteq live'
      BY <2>2 DEF OpenRunner
    <3> QED
      BY <2>1, <3>1, <3>2, <1>b, <1>e DEF HolderInv
  <2>3. CASE KillRunner(r)
    <3>1. \A t \in Threads : thread[t].runner # r /\ thread[t].pc # "idle" => thread[t].runner \in live'
      BY <2>3, <1>b DEF KillRunner
    <3>2. \A t \in Threads : holder' = t <=> holder = t /\ thread[t].runner # r
      BY <2>3, WorkersAssumption DEF KillRunner, ThreadsOf
    <3> QED
      BY <2>1, <3>1, <3>2, <1>b, <1>e DEF HolderInv
  <2>4. CASE SettleWorkspace(r)
    <3>1. \A t \in Threads : thread[t].runner = r => thread[t].pc \notin Holding
      BY <2>4 DEF SettleWorkspace, ThreadsOf, Resting, Holding
    <3>2. holder' = holder /\ live' = live
      BY <2>4 DEF SettleWorkspace
    <3> QED
      BY <2>1, <3>1, <3>2, <1>b, <1>e DEF HolderInv
  <2> QED
    BY <1>1, <2>2, <2>3, <2>4
<1>2. ASSUME NEW t \in Threads, StartRequest(t)
      PROVE  HolderInv'
  <2>1. OnlyCall(t, Lefts, "pool") /\ thread'[t].runner \in live
    BY <1>2, <1>a, CallDoes
  <2>2. holder' = holder /\ live' = live /\ thread[t].pc \notin Holding
    BY <1>2 DEF StartRequest, Resting, Holding
  <2> QED
    BY <2>1, <2>2, <1>b, <1>c DEF Holding
<1>3. ASSUME NEW t \in Threads, TryNext(t)
      PROVE  HolderInv'
  <2>1. OnlyCall(t, Lefts, "idle") \/ SameCall(t, Lefts, "lock")
    BY <1>3, <1>a, CallDoes
  <2>2. holder' = holder /\ live' = live /\ thread[t].pc = "pool"
    BY <1>3 DEF TryNext, ThreadAt
  <2>3. holder # t
    BY <2>2, <1>b DEF Holding
  <2> QED
    BY <2>1, <2>2, <2>3, <1>d, <1>f DEF Holding
<1>4. ASSUME NEW t \in Threads, AcquireRepository(t)
      PROVE  HolderInv'
  <2>1. \/ holder' = t /\ SameCall(t, Lefts, "held")
        \/ holder' = holder /\ OnlyCall(t, Lefts, "idle")
    BY <1>4, <1>a, CallDoes
  <2>2. holder = NoThread /\ live' = live /\ thread[t].pc = "lock" /\ \A u \in Threads : holder # u
    BY <1>4, WorkersAssumption DEF AcquireRepository, ThreadAt
  <2>3. CASE holder' = t /\ SameCall(t, Lefts, "held")
    BY <2>2, <2>3, <1>d DEF Holding
  <2>4. CASE holder' = holder /\ OnlyCall(t, Lefts, "idle")
    BY <2>2, <2>4, <1>f
  <2> QED
    BY <2>1, <2>3, <2>4
<1>5. ASSUME NEW t \in Threads, LockTimesOut(t)
      PROVE  HolderInv'
  <2>1. OnlyCall(t, Lefts, "idle")
    BY <1>5, <1>a, CallDoes
  <2>2. holder' = holder /\ live' = live /\ thread[t].pc = "lock"
    BY <1>5 DEF LockTimesOut, ThreadAt
  <2>3. holder # t
    BY <2>2, <1>b DEF Holding
  <2> QED
    BY <2>1, <2>2, <2>3, <1>f
<1>6. ASSUME NEW t \in Threads,
             \/ ReserveCall(t) \/ LaunchProcess(t) \/ WorkerExits(t) \/ SandboxFallback(t)
             \/ RestoreTruth(t) \/ FinaliseAttempt(t)
      PROVE  HolderInv'
  <2>1. PICK to \in Holding : SameCall(t, Lefts, to)
    BY <1>6, <1>a, CallDoes DEF Holding
  <2>2. holder' = holder /\ live' = live /\ thread[t].pc \in Holding
    BY <1>6 DEF ReserveCall, LaunchProcess, WorkerExits, SandboxFallback, RestoreTruth, FinaliseAttempt,
                ThreadAt, Holding
  <2>3. holder = t /\ thread[t].pc # "idle"
    BY <2>2, <1>b, <1>e
  <2> QED
    BY <2>1, <2>2, <2>3, <1>d
<1>7. ASSUME NEW t \in Threads, RollBackAttempt(t) \/ ReturnAnswer(t)
      PROVE  HolderInv'
  <2>1. \/ OnlyCall(t, Lefts, "idle")
        \/ \E to \in {"pool", "returned"} : SameCall(t, Lefts, to)
    BY <1>7, <1>a, CallDoes
  <2>2. holder' = NoThread /\ live' = live /\ thread[t].pc \in Holding
    BY <1>7 DEF RollBackAttempt, ReturnAnswer, ThreadAt, Holding
  <2>3. holder = t /\ \A u \in Threads : holder' # u
    BY <2>2, <1>b, WorkersAssumption
  <2>4. CASE OnlyCall(t, Lefts, "idle")
    BY <2>2, <2>3, <2>4, <1>f
  <2>5. ASSUME NEW to \in {"pool", "returned"}, SameCall(t, Lefts, to)
        PROVE  HolderInv'
    <3>1. to \notin Holding /\ thread[t].pc # "idle"
      BY <2>2 DEF Holding
    <3> QED
      BY <2>2, <2>3, <2>5, <3>1, <1>d
  <2> QED
    BY <2>1, <2>4, <2>5
<1>8. ASSUME (\E t \in Threads : WorkerEdits(t)) \/ UNCHANGED workerVars
      PROVE  HolderInv'
  BY <1>8, <1>b DEF WorkerEdits, workerVars, HolderInv
<1> QED
  BY <1>1, <1>2, <1>3, <1>4, <1>5, <1>6, <1>7, <1>8 DEF WorkersNext

\* Every step counts a launch before it is made, and loses count only of launches
\* that it adds to what is forgotten.
LEMMA LedgerStep == WorkerRecords /\ HolderInv /\ LedgerInv /\ [WorkersNext]_workerVars => LedgerInv'
<1> SUFFICES ASSUME WorkerRecords, HolderInv, LedgerInv, [WorkersNext]_workerVars
             PROVE  LedgerInv'
  OBVIOUS
<1>a. PICK Lefts : /\ thread \in [Threads -> Call(Lefts)] /\ <<>> \in Lefts /\ Orders \subseteq Lefts
                   /\ \A t \in Threads : Tail(thread[t].left) \in Lefts
  BY LeftsEnough
<1>b. /\ ledger \in Nat /\ launched \in Nat /\ counted \in Nat /\ forgotten \in Nat
      /\ authority \in [Runners -> 0 .. MaxCalls] /\ live \subseteq Runners
      /\ \A n \in 0 .. MaxCalls : n \in Nat
  BY DEF WorkerRecords
<1>c. \A t \in Threads : /\ thread[t].pc \in Holding <=> holder = t
                         /\ thread[t].pc # "idle" => thread[t].runner \in live
  BY DEF HolderInv
<1>d. /\ (\A t \in Threads : thread[t].pc \notin Unsettled) => ledger = counted
      /\ ~overlapped => \A r, q \in live : r = q
      /\ ~overlapped /\ ~escaped => forgotten = 0 /\ \A r \in live : authority[r] = counted
      /\ ~escaped => /\ launched <= counted + forgotten
                     /\ \A t \in Threads : thread[t].pc = "reserved" => launched < counted + forgotten
  BY DEF LedgerInv, ThreadAt
<1>e. IdleThread.pc = "idle" /\ "idle" \notin Unsettled /\ Unsettled \subseteq Holding /\ "reserved" \in Holding
  BY DEF IdleThread, Unsettled, Holding
\* While no worker runs, the ledger is as controllers left it.
<1>f. ASSUME NEW t \in Threads, thread[t].pc \in Holding, thread[t].pc \notin Unsettled
      PROVE  ledger = counted /\ \A u \in Threads \ {t} : thread[u].pc \notin Holding
  <2>1. \A u \in Threads \ {t} : thread[u].pc \notin Holding
    BY <1>c, <1>f
  <2> QED
    BY <2>1, <1>d, <1>e, <1>f
\* A step that leaves the ledger and its history alone, and starts no worker.
<1>g. ASSUME UNCHANGED <<ledger, launched, counted, forgotten, overlapped, escaped, authority, live>>,
             \A u \in Threads : \/ thread'[u].pc = thread[u].pc
                                \/ /\ thread'[u].pc # "reserved"
                                   /\ thread[u].pc \in Unsettled => thread'[u].pc \in Unsettled
      PROVE  LedgerInv'
  <2>1. (\A u \in Threads : thread'[u].pc \notin Unsettled) => ledger' = counted'
    BY <1>d, <1>g
  <2>2. ~escaped => \A u \in Threads : thread'[u].pc = "reserved" => launched < counted + forgotten
    BY <1>d, <1>g
  <2> QED
    BY <1>d, <1>g, <2>1, <2>2 DEF LedgerInv, ThreadAt
<1>1. ASSUME NEW r \in Runners, OpenRunner(r) \/ KillRunner(r) \/ SettleWorkspace(r)
      PROVE  LedgerInv'
  <2>1. \A t \in Threads : \/ thread'[t] = IdleThread /\ thread[t].runner = r
                           \/ thread'[t] = thread[t] /\ thread[t].runner # r
    BY <1>1, <1>a, AllIdleKeeps DEF OpenRunner, KillRunner, SettleWorkspace
  <2>2. CASE OpenRunner(r)
    <3>1. \A t \in Threads : thread'[t].pc = thread[t].pc
      BY <2>1, <2>2, <1>c, <1>e DEF OpenRunner
    <3>2. /\ UNCHANGED <<ledger, launched, counted, forgotten, escaped>>
          /\ overlapped' = (overlapped \/ live # {}) /\ live' = live \cup {r}
          /\ authority' = [authority EXCEPT ![r] = ledger]
      BY <2>2 DEF OpenRunner
    <3>3. ~overlapped' => live' = {r} /\ ledger = counted
      BY <3>2, <1>c, <1>d, <1>e
    <3>4. ~overlapped' => authority'[r] = counted
      BY <3>2, <3>3, <1>b
    <3> QED
      BY <3>1, <3>2, <3>3, <3>4, <1>d DEF LedgerInv, ThreadAt
  <2>3. CASE KillRunner(r)
    <3>1. /\ UNCHANGED <<ledger, launched, forgotten, overlapped>>
          /\ live' = live \ {r} /\ authority' = [authority EXCEPT ![r] = 0]
      BY <2>3 DEF KillRunner
    <3>2. CASE holder \in ThreadsOf(r)
      <4>1. counted' = ledger /\ escaped' = (escaped \/ ledger # counted)
        BY <2>3, <3>2 DEF KillRunner
      <4>2. \A t \in Threads : thread'[t].pc \notin Holding
        BY <2>1, <3>2, <1>c, <1>e DEF ThreadsOf, Holding
      <4>3. ~escaped' => counted' = counted
        BY <4>1
      <4>4. \A q \in live' : q \in live /\ authority'[q] = authority[q]
        BY <3>1, <1>b
      <4> QED
        BY <3>1, <4>1, <4>2, <4>3, <4>4, <1>d, <1>e DEF LedgerInv, ThreadAt
    <3>3. CASE holder \notin ThreadsOf(r)
      <4>1. counted' = counted /\ escaped' = escaped
        BY <2>3, <3>3 DEF KillRunner
      <4>2. \A t \in Threads : thread[t].runner = r => thread[t].pc \notin Holding
        BY <3>3, <1>c DEF ThreadsOf
      <4>3. \A t \in Threads : \/ thread'[t].pc = thread[t].pc
                               \/ thread[t].pc \notin Unsettled /\ thread'[t].pc = "idle"
        BY <2>1, <4>2, <1>e
      <4>4. (\A t \in Threads : thread'[t].pc \notin Unsettled) => ledger' = counted'
        BY <3>1, <4>1, <4>3, <1>d
      <4>5. ~escaped => \A t \in Threads : thread'[t].pc = "reserved" => launched < counted + forgotten
        BY <4>3, <1>d
      <4>6. \A q \in live' : q \in live /\ authority'[q] = authority[q]
        BY <3>1, <1>b
      <4> QED
        BY <3>1, <4>1, <4>4, <4>5, <4>6, <1>d DEF LedgerInv, ThreadAt
    <3> QED
      BY <3>2, <3>3
  <2>4. CASE SettleWorkspace(r)
    <3>1. \A t \in Threads : thread[t].runner = r => thread[t].pc \notin Unsettled
      BY <2>4 DEF SettleWorkspace, ThreadsOf, Resting, Unsettled
    <3>2. \A u \in Threads : \/ thread'[u].pc = thread[u].pc
                             \/ /\ thread'[u].pc # "reserved"
                                /\ thread[u].pc \in Unsettled => thread'[u].pc \in Unsettled
      BY <2>1, <3>1, <1>e
    <3> QED
      BY <2>4, <3>2, <1>g DEF SettleWorkspace, ledgerHistory
  <2> QED
    BY <1>1, <2>2, <2>3, <2>4
<1>2. ASSUME NEW t \in Threads,
             \/ StartRequest(t) \/ TryNext(t) \/ AcquireRepository(t) \/ LockTimesOut(t)
             \/ WorkerExits(t) \/ RollBackAttempt(t) \/ FinaliseAttempt(t) \/ ReturnAnswer(t)
      PROVE  LedgerInv'
  <2>1. /\ thread'[t].pc \in {"pool", "idle", "lock", "held", "exited", "answered", "rollback", "returned"}
        /\ \A u \in Threads \ {t} : thread'[u] = thread[u]
    BY <1>2, <1>a, CallDoes DEF SameCall, OnlyCall
  <2>2. \/ thread[t].pc \in {"idle", "returned", "pool", "lock", "rollback", "finalise", "answered"}
        \/ WorkerExits(t) /\ thread[t].pc = "running"
    BY <1>2 DEF StartRequest, TryNext, AcquireRepository, LockTimesOut, WorkerExits, RollBackAttempt,
                FinaliseAttempt, ReturnAnswer, ThreadAt, Resting
  <2>3. WorkerExits(t) => thread'[t].pc = "exited"
    BY <1>a, CallDoes DEF SameCall, OnlyCall
  <2>4. \A u \in Threads : \/ thread'[u].pc = thread[u].pc
                           \/ /\ thread'[u].pc # "reserved"
                              /\ thread[u].pc \in Unsettled => thread'[u].pc \in Unsettled
    BY <2>1, <2>2, <2>3 DEF Unsettled
  <2>5. UNCHANGED <<ledger, launched, counted, forgotten, overlapped, escaped, authority, live>>
    BY <1>2 DEF StartRequest, TryNext, AcquireRepository, LockTimesOut, WorkerExits, RollBackAttempt,
                FinaliseAttempt, ReturnAnswer, ledgerHistory
  <2> QED
    BY <2>4, <2>5, <1>g
<1>3. ASSUME NEW t \in Threads, ReserveCall(t)
      PROVE  LedgerInv'
  <2>1. /\ thread[t].pc = "held" /\ thread[t].runner \in live
        /\ UNCHANGED <<launched, live, forgotten, overlapped, escaped>>
    BY <1>3, <1>c DEF ReserveCall, ThreadAt
  <2>2. ledger = counted /\ \A u \in Threads \ {t} : thread[u].pc \notin Holding
    BY <2>1, <1>f DEF Holding, Unsettled
  <2>3. CASE counted' = ledger + 1 /\ PersistLedger(thread[t].runner, ledger + 1) /\ SameCall(t, Lefts, "reserved")
    <3>1. ledger' = counted' /\ counted' = counted + 1
      BY <2>2, <2>3 DEF PersistLedger
    <3>2. ~overlapped => \A r \in live : authority'[r] = counted'
      BY <2>1, <2>3, <3>1, <1>b, <1>d DEF PersistLedger
    <3>3. ~escaped => launched < counted' + forgotten
      BY <3>1, <1>b, <1>d
    <3> QED
      BY <2>1, <3>1, <3>2, <3>3, <1>b, <1>d DEF LedgerInv, ThreadAt
  <2>4. CASE UNCHANGED <<ledger, authority, counted>> /\ SameCall(t, Lefts, "exited")
    <3>1. \A u \in Threads : thread'[u].pc # "reserved"
      BY <2>2, <2>4, <1>e DEF SameCall, OnlyCall
    <3> QED
      BY <2>1, <2>2, <2>4, <3>1, <1>d DEF LedgerInv, ThreadAt
  <2> QED
    BY <1>3, <1>a, <2>3, <2>4, CallDoes
<1>4. ASSUME NEW t \in Threads, LaunchProcess(t)
      PROVE  LedgerInv'
  <2>1. /\ thread[t].pc = "reserved" /\ launched' = launched + 1
        /\ UNCHANGED <<ledger, counted, forgotten, overlapped, escaped, authority, live>>
    BY <1>4 DEF LaunchProcess, ThreadAt, ledgerHistory
  <2>2. thread'[t].pc = "running" /\ \A u \in Threads \ {t} : thread'[u] = thread[u]
    BY <1>4, <1>a, CallDoes DEF SameCall, OnlyCall
  <2>3. \A u \in Threads \ {t} : thread[u].pc \notin Holding
    BY <2>1, <1>f DEF Holding, Unsettled
  <2>4. \A u \in Threads : thread'[u].pc # "reserved"
    BY <2>2, <2>3, <1>e
  <2>5. ~escaped => launched' <= counted + forgotten
    BY <2>1, <1>b, <1>d
  <2>6. thread'[t].pc \in Unsettled
    BY <2>2 DEF Unsettled
  <2> QED
    BY <2>1, <2>4, <2>5, <2>6, <1>d DEF LedgerInv, ThreadAt
<1>5. ASSUME NEW t \in Threads, WorkerEdits(t)
      PROVE  LedgerInv'
  <2>1. thread[t].pc \in Unsettled /\ thread' = thread
    BY <1>5 DEF WorkerEdits, ThreadAt, Unsettled
  <2>2. UNCHANGED <<launched, counted, forgotten, overlapped, escaped, authority, live>>
    BY <1>5 DEF WorkerEdits, ledgerHistory
  <2> QED
    BY <2>1, <2>2, <1>d DEF LedgerInv, ThreadAt
<1>6. ASSUME NEW t \in Threads, SandboxFallback(t)
      PROVE  LedgerInv'
  <2>1. /\ thread[t].pc = "running" /\ ledger = counted
        /\ UNCHANGED <<ledger, launched, counted, forgotten, overlapped, escaped, authority, live>>
    BY <1>6 DEF SandboxFallback, ThreadAt, ledgerHistory
  <2>2. thread'[t].pc = "held" /\ \A u \in Threads \ {t} : thread'[u] = thread[u]
    BY <1>6, <1>a, CallDoes DEF SameCall, OnlyCall
  <2>3. ~escaped => \A u \in Threads : thread'[u].pc = "reserved" => launched < counted + forgotten
    BY <2>2, <1>d
  <2> QED
    BY <2>1, <2>3, <1>d DEF LedgerInv, ThreadAt
<1>7. ASSUME NEW t \in Threads, RestoreTruth(t)
      PROVE  LedgerInv'
  <2> DEFINE n == authority[thread[t].runner]
  <2>1. /\ thread[t].pc = "exited" /\ thread[t].runner \in live
        /\ UNCHANGED <<launched, overlapped, escaped, authority, live>>
        /\ ledger' = n /\ counted' = n
        /\ forgotten' = IF counted + forgotten > n THEN counted + forgotten - n ELSE 0
    BY <1>7, <1>c DEF RestoreTruth, ThreadAt, TrueLedger
  <2>2. \A u \in Threads \ {t} : thread[u].pc \notin Holding
    BY <2>1, <1>c DEF Holding
  <2>3. \A u \in Threads : thread'[u].pc # "reserved"
    BY <1>7, <1>a, <1>e, <2>2, CallDoes DEF SameCall, OnlyCall
  <2>4. n \in Nat
    BY <2>1, <1>b
  <2>5. ~overlapped /\ ~escaped => forgotten' = 0 /\ \A r \in live : authority[r] = counted'
    BY <2>1, <2>4, <1>b, <1>d
  <2>6. ~escaped => launched <= counted' + forgotten'
    BY <2>1, <2>4, <1>b, <1>d
  <2> QED
    BY <2>1, <2>3, <2>5, <2>6, <1>d DEF LedgerInv, ThreadAt
<1>8. CASE UNCHANGED workerVars
  BY <1>8, <1>d DEF workerVars, ledgerHistory, LedgerInv, ThreadAt
<1> QED
  BY <1>1, <1>2, <1>3, <1>4, <1>5, <1>6, <1>7, <1>8 DEF WorkersNext

\* Every step leaves nothing in the workspace that the next answer would carry.
LEMMA TraceStep == WorkerRecords /\ HolderInv /\ TraceInv /\ [WorkersNext]_workerVars => TraceInv'
<1> SUFFICES ASSUME WorkerRecords, HolderInv, TraceInv, [WorkersNext]_workerVars
             PROVE  TraceInv'
  OBVIOUS
<1>a. PICK Lefts : /\ thread \in [Threads -> Call(Lefts)] /\ <<>> \in Lefts
  BY LeftsEnough
<1>b. workTree \in [edits : SUBSET (0 .. MaxProcs), moved : BOOLEAN]
  BY DEF WorkerRecords
<1>c. /\ \A t, u \in Threads : thread[t].pc \in Holding /\ thread[u].pc \in Holding => t = u
      /\ \A t \in Threads : thread[t].pc \in Holding <=> holder = t
  BY DEF HolderInv
<1>d. Clean = [edits |-> {}, moved |-> FALSE]
  BY DEF Clean
<1>1. ASSUME NEW r \in Runners, OpenRunner(r) \/ KillRunner(r) \/ SettleWorkspace(r)
      PROVE  TraceInv'
  <2>1. \A t \in Threads : thread'[t] = IdleThread \/ thread'[t] = thread[t]
    BY <1>1, <1>a, AllIdleKeeps DEF OpenRunner, KillRunner, SettleWorkspace
  <2>2. IdleThread.pc = "idle"
    BY DEF IdleThread
  <2>3. workTree' \in {Clean, workTree, [workTree EXCEPT !.edits = {}]}
    BY <1>1 DEF OpenRunner, KillRunner, SettleWorkspace, ResetTree
  <2>4. /\ workTree'.edits \subseteq workTree.edits
        /\ ~workTree.moved => ~workTree'.moved
        /\ workTree = Clean => workTree' = Clean
    BY <2>3, <1>b, <1>d
  <2>5. \A t \in Threads : ReadOnlyKept(t) /\ thread'[t] = thread[t] => ReadOnlyKept(t)'
    BY <2>4 DEF ReadOnlyKept
  <2> QED
    BY <2>1, <2>2, <2>4, <2>5 DEF TraceInv, ThreadAt
<1> USE <1>a, <1>b, <1>c, <1>d
        DEF TraceInv, Holding, Call, ThreadAt, ThreadGoes, ThreadFails, RaiseCall, IdleThread, ReadOnlyKept
<1>2. ASSUME NEW t \in Threads, StartRequest(t)
      PROVE  TraceInv'
  BY <1>2 DEF StartRequest, Resting
<1>3. ASSUME NEW t \in Threads, TryNext(t)
      PROVE  TraceInv'
  BY <1>3 DEF TryNext
<1>4. ASSUME NEW t \in Threads, AcquireRepository(t)
      PROVE  TraceInv'
  BY <1>4 DEF AcquireRepository, Pristine
<1>5. ASSUME NEW t \in Threads, LockTimesOut(t)
      PROVE  TraceInv'
  BY <1>5 DEF LockTimesOut
<1>6. ASSUME NEW t \in Threads, ReserveCall(t)
      PROVE  TraceInv'
  BY <1>6 DEF ReserveCall
<1>7. ASSUME NEW t \in Threads, LaunchProcess(t)
      PROVE  TraceInv'
  BY <1>7 DEF LaunchProcess
<1>8. ASSUME NEW t \in Threads, WorkerEdits(t)
      PROVE  TraceInv'
  BY <1>8 DEF WorkerEdits
<1>9. ASSUME NEW t \in Threads, WorkerExits(t)
      PROVE  TraceInv'
  BY <1>9 DEF WorkerExits, ProviderFailures
<1>10. ASSUME NEW t \in Threads, SandboxFallback(t)
      PROVE  TraceInv'
  BY <1>10 DEF SandboxFallback
<1>11. ASSUME NEW t \in Threads, RestoreTruth(t)
      PROVE  TraceInv'
  BY <1>11 DEF RestoreTruth, MetadataChanged, RestoreMetadata
<1>12. ASSUME NEW t \in Threads, RollBackAttempt(t)
      PROVE  TraceInv'
  BY <1>12 DEF RollBackAttempt, AfterFailure, ResetTree
<1>13. ASSUME NEW t \in Threads, FinaliseAttempt(t)
      PROVE  TraceInv'
  BY <1>13 DEF FinaliseAttempt
<1>14. ASSUME NEW t \in Threads, ReturnAnswer(t)
      PROVE  TraceInv'
  BY <1>14 DEF ReturnAnswer
<1>15. CASE UNCHANGED workerVars
  BY <1>15 DEF workerVars
<1> QED
  BY <1>1, <1>2, <1>3, <1>4, <1>5, <1>6, <1>7, <1>8, <1>9, <1>10, <1>11, <1>12, <1>13, <1>14, <1>15 DEF WorkersNext

\* The first and the rest of a list are of its set, and so is the empty list.
LEMMA RestOfList ==
    ASSUME NEW S
    PROVE  /\ \A list \in Seq(S) : list # <<>> => Head(list) \in S /\ Tail(list) \in Seq(S)
           /\ <<>> \in Seq(S)
OBVIOUS

\* The pool's order is a list of positions, and not empty.
LEMMA OrdersWorkers == \A order \in Orders : order \in Seq(DOMAIN Providers) /\ order # <<>>
<1>1. PICK n \in Nat \ {0} : DOMAIN Providers = 1 .. n
  BY WorkersAssumption
<1>2. \A order \in [1 .. n -> 1 .. n] : order \in Seq(1 .. n) /\ order # <<>>
  <2>1. TAKE order \in [1 .. n -> 1 .. n]
  <2>2. order \in Seq(1 .. n) /\ Len(order) = n
    BY <1>1
  <2> QED
    BY <2>2, <1>1
<1> QED
  BY <1>1, <1>2 DEF Orders, OrderedWorkers

\* What each action does to what is left to try.
LEMMA QueueMoves ==
    ASSUME WorkerRecords, QueueInv, NEW t \in Threads
    PROVE  /\ StartRequest(t) => thread'[t].left \in Orders /\ thread'[t].pc = "pool"
           /\ TryNext(t) => \/ thread'[t] = IdleThread
                            \/ /\ thread'[t].left = thread[t].left /\ thread[t].left # <<>>
                               /\ thread'[t].pc = "lock"
           /\ \/ AcquireRepository(t) \/ LockTimesOut(t) \/ ReserveCall(t) \/ WorkerExits(t)
              \/ SandboxFallback(t) \/ RestoreTruth(t) \/ FinaliseAttempt(t)
              => \/ thread'[t] = IdleThread
                 \/ /\ thread'[t].left = thread[t].left /\ thread'[t].pc # "running"
                    /\ thread[t].pc \in {"lock"} \cup Holding
           /\ LaunchProcess(t) => /\ thread'[t].left = thread[t].left /\ thread[t].pc \in Holding
                                  /\ thread'[t].proc = launched + 1
           /\ RollBackAttempt(t) => \/ thread'[t] = IdleThread
                                    \/ /\ thread'[t].pc = "pool" /\ thread[t].pc \in Holding
                                       /\ thread'[t].left = Tail(thread[t].left)
           /\ ReturnAnswer(t) => thread'[t].left = <<>> /\ thread'[t].pc = "returned"
<1>1. PICK Lefts : thread \in [Threads -> Call(Lefts)]
  BY DEF WorkerRecords
<1>2. thread[t] \in Call(Lefts)
  BY <1>1
<1> USE <1>1, <1>2 DEF Call, ThreadAt, ThreadGoes, ThreadFails, RaiseCall, Holding
<1>3. StartRequest(t) => thread'[t].left \in Orders /\ thread'[t].pc = "pool"
  <2> SUFFICES ASSUME StartRequest(t)
               PROVE  thread'[t].left \in Orders /\ thread'[t].pc = "pool"
    OBVIOUS
  <2>1. live \subseteq Runners
    BY DEF WorkerRecords
  <2>2. PICK order \in Orders, r \in Runners, s \in Sandboxes :
           thread' = [thread EXCEPT ![t] = [IdleThread EXCEPT !.pc = "pool", !.runner = r,
                                              !.sandbox = s, !.left = order]]
    BY <2>1 DEF StartRequest, Orders
  <2> QED
    BY <2>2 DEF IdleThread
<1>4. TryNext(t) => \/ thread'[t] = IdleThread
                    \/ /\ thread'[t].left = thread[t].left /\ thread[t].left # <<>>
                       /\ thread'[t].pc = "lock"
  BY DEF TryNext
<1>5. AcquireRepository(t) \/ LockTimesOut(t)
         => \/ thread'[t] = IdleThread
            \/ /\ thread'[t].left = thread[t].left /\ thread'[t].pc # "running"
               /\ thread[t].pc \in {"lock"} \cup Holding
  BY DEF AcquireRepository, LockTimesOut
<1>6. ReserveCall(t) \/ WorkerExits(t) \/ SandboxFallback(t) \/ RestoreTruth(t) \/ FinaliseAttempt(t)
         => /\ thread'[t].left = thread[t].left /\ thread'[t].pc # "running"
            /\ thread[t].pc \in {"lock"} \cup Holding
  <2>1. CASE ReserveCall(t)
    BY <2>1 DEF ReserveCall
  <2>2. CASE WorkerExits(t)
    BY <2>2 DEF WorkerExits
  <2>3. CASE SandboxFallback(t) \/ FinaliseAttempt(t)
    BY <2>3 DEF SandboxFallback, FinaliseAttempt
  <2>4. CASE RestoreTruth(t)
    <3>1. PICK changed \in BOOLEAN :
             thread' = [thread EXCEPT ![t].pc = IF changed \/ thread[t].failure # "none"
                                                THEN "rollback" ELSE "finalise",
                                      ![t].failure = IF changed THEN "safety" ELSE @]
      BY <2>4 DEF RestoreTruth
    <3> QED
      BY <2>4, <3>1 DEF RestoreTruth
  <2> QED
    BY <2>1, <2>2, <2>3, <2>4
<1>7. LaunchProcess(t) => /\ thread'[t].left = thread[t].left /\ thread[t].pc \in Holding
                          /\ thread'[t].proc = launched + 1
  BY DEF LaunchProcess
<1>8. RollBackAttempt(t) => \/ thread'[t] = IdleThread
                            \/ /\ thread'[t].pc = "pool" /\ thread[t].pc \in Holding
                               /\ thread'[t].left = Tail(thread[t].left)
  <2> SUFFICES ASSUME RollBackAttempt(t)
               PROVE  \/ thread'[t] = IdleThread
                      \/ /\ thread'[t].pc = "pool" /\ thread[t].pc \in Holding
                         /\ thread'[t].left = Tail(thread[t].left)
    OBVIOUS
  <2>1. thread[t].pc \in Holding
    BY DEF RollBackAttempt
  <2>2. thread'[t] = IdleThread \/ thread'[t] = AfterFailure(t)
    BY DEF RollBackAttempt
  <2> QED
    BY <2>1, <2>2 DEF AfterFailure
<1>9. ReturnAnswer(t) => thread'[t].left = <<>> /\ thread'[t].pc = "returned"
  BY DEF ReturnAnswer, IdleThread
<1> QED
  BY <1>3, <1>4, <1>5, <1>6, <1>7, <1>8, <1>9

\* Each action of a call leaves the other calls alone.
LEMMA OthersStay ==
    ASSUME WorkerRecords, NEW t \in Threads
    PROVE  /\ \/ StartRequest(t) \/ TryNext(t) \/ AcquireRepository(t) \/ LockTimesOut(t)
              \/ ReserveCall(t) \/ LaunchProcess(t) \/ WorkerExits(t) \/ SandboxFallback(t)
              \/ RestoreTruth(t) \/ RollBackAttempt(t) \/ FinaliseAttempt(t) \/ ReturnAnswer(t)
              => \A u \in Threads \ {t} : thread'[u] = thread[u]
<1>1. PICK Lefts : /\ thread \in [Threads -> Call(Lefts)] /\ <<>> \in Lefts /\ Orders \subseteq Lefts
                   /\ \A u \in Threads : Tail(thread[u].left) \in Lefts
  BY LeftsEnough
<1> QED
  BY <1>1, CallDoes DEF SameCall, OnlyCall

\* Every step leaves positions to try.
LEMMA QueueStep == WorkerRecords /\ QueueInv /\ [WorkersNext]_workerVars => QueueInv'
<1> SUFFICES ASSUME WorkerRecords, QueueInv, [WorkersNext]_workerVars
             PROVE  QueueInv'
  OBVIOUS
<1> DEFINE Sound(r) == /\ r.left \in Seq(DOMAIN Providers)
                       /\ r.pc \in {"lock"} \cup Holding => r.left # <<>>
                       /\ r.pc = "running" => r.proc # 0
           Names == {Providers[i] : i \in DOMAIN Providers}
           Moves(t) == \/ StartRequest(t) \/ TryNext(t) \/ AcquireRepository(t) \/ LockTimesOut(t)
                       \/ ReserveCall(t) \/ LaunchProcess(t) \/ WorkerExits(t) \/ SandboxFallback(t)
                       \/ RestoreTruth(t) \/ RollBackAttempt(t) \/ FinaliseAttempt(t) \/ ReturnAnswer(t)
<1>1. /\ \A t \in Threads : Sound(thread[t])
      /\ holder \in Threads \cup {NoThread} /\ preferred \in [Runners -> Names \cup {"none"}]
      /\ 0 \notin workTree.edits
  BY DEF QueueInv, ThreadAt
<1>2. SUFFICES /\ \A t \in Threads : Sound(thread'[t])
               /\ holder' \in Threads \cup {NoThread} /\ preferred' \in [Runners -> Names \cup {"none"}]
               /\ 0 \notin workTree'.edits
  BY DEF QueueInv, ThreadAt
<1>3. workTree \in [edits : SUBSET (0 .. MaxProcs), moved : BOOLEAN] /\ launched \in Nat
  BY WorkersAssumption DEF WorkerRecords
<1>4. Sound(IdleThread) /\ 0 \notin Clean.edits
  BY DEF IdleThread, Holding, Clean
<1>5. ASSUME NEW t \in Threads, Moves(t)
      PROVE  Sound(thread'[t])
  <2>1. CASE StartRequest(t)
    BY <2>1, QueueMoves, OrdersWorkers DEF Holding
  <2>2. CASE TryNext(t)
    <3>1. CASE thread'[t] = IdleThread
      BY <3>1, <1>4
    <3>2. CASE /\ thread'[t].left = thread[t].left /\ thread[t].left # <<>>
               /\ thread'[t].pc = "lock"
      BY <3>2, <1>1 DEF Holding
    <3> QED
      BY <2>2, <3>1, <3>2, QueueMoves
  <2>3. CASE \/ AcquireRepository(t) \/ LockTimesOut(t) \/ ReserveCall(t) \/ WorkerExits(t)
             \/ SandboxFallback(t) \/ RestoreTruth(t) \/ FinaliseAttempt(t)
    <3>1. CASE thread'[t] = IdleThread
      BY <3>1, <1>4
    <3>2. CASE /\ thread'[t].left = thread[t].left /\ thread'[t].pc # "running"
               /\ thread[t].pc \in {"lock"} \cup Holding
      BY <3>2, <1>1
    <3> QED
      BY <2>3, <3>1, <3>2, QueueMoves
  <2>4. CASE LaunchProcess(t)
    BY <2>4, QueueMoves, <1>1, <1>3
  <2>5. CASE RollBackAttempt(t)
    <3>1. CASE thread'[t] = IdleThread
      BY <3>1, <1>4
    <3>2. CASE /\ thread'[t].pc = "pool" /\ thread[t].pc \in Holding
               /\ thread'[t].left = Tail(thread[t].left)
      <4>1. Tail(thread[t].left) \in Seq(DOMAIN Providers)
        BY <3>2, <1>1, RestOfList
      <4> QED
        BY <3>2, <4>1 DEF Holding
    <3> QED
      BY <2>5, <3>1, <3>2, QueueMoves
  <2>6. CASE ReturnAnswer(t)
    BY <2>6, QueueMoves, RestOfList DEF Holding
  <2> QED
    BY <1>5, <2>1, <2>2, <2>3, <2>4, <2>5, <2>6
<1>6. (\E t \in Threads : Moves(t)) => \A t \in Threads : Sound(thread'[t])
  <2> HIDE DEF Sound
  <2> QED
    BY <1>1, <1>5, OthersStay
<1>7. ASSUME NEW r \in Runners, OpenRunner(r) \/ KillRunner(r) \/ SettleWorkspace(r)
      PROVE  /\ \A t \in Threads : Sound(thread'[t])
             /\ holder' \in Threads \cup {NoThread} /\ preferred' \in [Runners -> Names \cup {"none"}]
             /\ 0 \notin workTree'.edits
  <2>1. \A t \in Threads : thread'[t] \in {thread[t], IdleThread}
    BY <1>7 DEF OpenRunner, KillRunner, SettleWorkspace, AllIdle
  <2>2. \A t \in Threads : Sound(thread'[t])
    <3> HIDE DEF Sound
    <3> QED
      BY <2>1, <1>1, <1>4
  <2>3. holder' \in {holder, NoThread}
    BY <1>7 DEF OpenRunner, KillRunner, SettleWorkspace
  <2>4. preferred' \in [Runners -> Names \cup {"none"}]
    <3> HIDE DEF Names
    <3> QED
      BY <1>1, <1>7 DEF OpenRunner, KillRunner, SettleWorkspace
  <2>5. 0 \notin workTree'.edits
    BY <1>1, <1>3, <1>4, <1>7 DEF OpenRunner, KillRunner, SettleWorkspace, ResetTree
  <2> QED
    BY <1>1, <2>2, <2>3, <2>4, <2>5
<1>8. (\E t \in Threads : WorkerEdits(t)) \/ UNCHANGED workerVars => \A t \in Threads : Sound(thread'[t])
  <2> HIDE DEF Sound
  <2> QED
    BY <1>1 DEF WorkerEdits, workerVars
<1>9. \A t \in Threads : Sound(thread'[t])
  <2> HIDE DEF Sound
  <2> QED
    BY <1>6, <1>7, <1>8 DEF WorkersNext
<1>10. holder' \in Threads \cup {NoThread}
  BY <1>1, <1>7 DEF WorkersNext, workerVars, StartRequest, TryNext,
     AcquireRepository, LockTimesOut, ReserveCall, LaunchProcess, WorkerEdits, WorkerExits,
     SandboxFallback, RestoreTruth, RollBackAttempt, FinaliseAttempt, ReturnAnswer
<1>11. preferred' \in [Runners -> Names \cup {"none"}]
  <2>1. \A t \in Threads : ReturnAnswer(t) => preferred' \in [Runners -> Names \cup {"none"}]
    <3> SUFFICES ASSUME NEW t \in Threads, ReturnAnswer(t)
                 PROVE  preferred' \in [Runners -> Names \cup {"none"}]
      OBVIOUS
    <3>1. thread[t].left \in Seq(DOMAIN Providers) /\ thread[t].left # <<>>
      BY <1>1 DEF ReturnAnswer, ThreadAt, Holding
    <3>2. Head(thread[t].left) \in DOMAIN Providers
      BY <3>1, RestOfList
    <3>3. Providers[Head(thread[t].left)] \in Names
      BY <3>2
    <3> HIDE DEF Names
    <3> QED
      BY <1>1, <3>3 DEF ReturnAnswer
  <2> HIDE DEF Names
  <2> QED
    BY <1>1, <1>7, <2>1 DEF WorkersNext, workerVars, StartRequest, TryNext,
       AcquireRepository, LockTimesOut, ReserveCall, LaunchProcess, WorkerEdits, WorkerExits,
       SandboxFallback, RestoreTruth, RollBackAttempt, FinaliseAttempt
<1>12. 0 \notin workTree'.edits
  <2>1. \A t \in Threads : WorkerEdits(t) => 0 \notin workTree'.edits
    BY <1>1, <1>3 DEF WorkerEdits, ThreadAt
  <2>2. \A t \in Threads : RestoreTruth(t) \/ AcquireRepository(t) => 0 \notin workTree'.edits
    BY <1>1, <1>3 DEF RestoreTruth, RestoreMetadata, AcquireRepository
  <2> QED
    BY <1>1, <1>4, <1>7, <2>1, <2>2 DEF WorkersNext, workerVars, StartRequest, TryNext,
       LockTimesOut, ReserveCall, LaunchProcess, WorkerExits,
       SandboxFallback, RollBackAttempt, FinaliseAttempt, ReturnAnswer, ResetTree
<1> QED
  BY <1>9, <1>10, <1>11, <1>12

\* The records have their types: WorkerRecords holds whatever the calls have left
\* to try, and QueueInv says what that is.
LEMMA WorkersTyped == WorkerRecords /\ QueueInv => WorkersTypeOK
<1> SUFFICES ASSUME WorkerRecords, QueueInv
             PROVE  WorkersTypeOK
  OBVIOUS
<1>1. \A t \in Threads : thread[t] \in Thread
  <2>1. TAKE t \in Threads
  <2>2. thread[t] \in Call({thread[u].left : u \in Threads}) /\ thread[t].left \in Seq(DOMAIN Providers)
    BY DEF WorkerRecords, QueueInv
  <2> QED
    BY <2>2 DEF Call, Thread
<1>2. thread \in [Threads -> Thread]
  BY <1>1 DEF WorkerRecords
<1>3. workTree \in [edits : SUBSET (1 .. MaxProcs), moved : BOOLEAN]
  <2>1. workTree.edits \subseteq 0 .. MaxProcs /\ 0 \notin workTree.edits
    BY DEF WorkerRecords, QueueInv
  <2>2. workTree.edits \subseteq 1 .. MaxProcs
    BY <2>1, WorkersAssumption
  <2> QED
    BY <2>2 DEF WorkerRecords
<1> QED
  BY <1>2, <1>3 DEF WorkersTypeOK, WorkerRecords, QueueInv

\* The lock is free and nothing has been launched at first.
LEMMA WorkersInitial == WorkersInit => WorkersInv
<1> SUFFICES ASSUME WorkersInit
             PROVE  WorkersInv
  OBVIOUS
<1>1. \A t \in Threads : thread[t] = IdleThread
  BY DEF WorkersInit
<1>2. IdleThread \in Call({<<>>})
  BY IdleIsCall
<1>3. \A t \in Threads : thread[t] \in Call({thread[u].left : u \in Threads})
  <2>1. TAKE t \in Threads
  <2>2. thread[t] \in Call({<<>>}) /\ thread[t].left \in {thread[u].left : u \in Threads}
    BY <1>1, <1>2
  <2> QED
    BY <2>2 DEF Call
<1>4. \A t \in Threads : thread[t].pc = "idle"
  BY <1>1 DEF IdleThread
<1>5. WorkerRecords
  <2>1. thread \in [Threads -> Call({thread[t].left : t \in Threads})]
    BY <1>3 DEF WorkersInit
  <2>2. workTree \in [edits : SUBSET (0 .. MaxProcs), moved : BOOLEAN]
    BY DEF Clean, WorkersInit
  <2>3. 0 \in 0 .. MaxCalls /\ 0 \in 0 .. MaxProcs /\ 0 \in 0 .. MaxStops
    BY WorkersAssumption
  <2> QED
    BY <2>1, <2>2, <2>3 DEF WorkersInit, WorkerRecords
<1>6. HolderInv
  BY <1>4, WorkersAssumption DEF WorkersInit, HolderInv, Holding
<1>7. LedgerInv
  BY <1>4, WorkersAssumption DEF WorkersInit, LedgerInv, ThreadAt
<1>8. TraceInv
  BY <1>4 DEF TraceInv, ThreadAt
<1>9. QueueInv
  <2>1. \A t \in Threads : thread[t].left = <<>>
    BY <1>1 DEF IdleThread
  <2> QED
    BY <1>4, <2>1, RestOfList DEF QueueInv, WorkersInit, Holding, ThreadAt, Clean
<1> QED
  BY <1>5, <1>6, <1>7, <1>8, <1>9 DEF WorkersInv

\* Every step keeps the five parts together.
LEMMA WorkersInvStep == WorkersInv /\ [WorkersNext]_workerVars => WorkersInv'
BY WorkerRecordsStep, HolderStep, LedgerStep, TraceStep, QueueStep DEF WorkersInv

\* The lock names the call that holds it, every launch was counted before it was
\* made, and nothing is in the workspace that another process left.
THEOREM WorkersInvariant == WorkersSpec => []WorkersInv
<1>1. WorkersInit => WorkersInv
  BY WorkersInitial
<1>2. WorkersInv /\ [WorkersNext]_workerVars => WorkersInv'
  BY WorkersInvStep
<1> QED
  BY <1>1, <1>2, PTL DEF WorkersSpec

\* No more worker processes are started than the run allows and controllers made the
\* ledger forget, whatever workers do to it, and a controller that never ran beside
\* another forgets none, unless one died before it could put a rewritten ledger back.
THEOREM BudgetHolds == WorkersSpec => []LaunchesWithinBudget
<1>1. WorkersInv => LaunchesWithinBudget
  <2>1. WorkersInv => /\ launched \in Nat /\ counted \in Nat /\ counted <= MaxCalls /\ forgotten \in Nat
                      /\ MaxCalls \in Nat /\ LedgerInv
    BY WorkersAssumption DEF WorkersInv, WorkerRecords
  <2> QED
    BY <2>1 DEF LedgerInv, LaunchesWithinBudget
<1> QED
  BY <1>1, WorkersInvariant, PTL

\* When a call has its answer, the workspace holds the edits of the process that
\* gave it and of no other, on unchanged history, and none when it was to read.
THEOREM AnswersStandAlone == WorkersSpec => []AnswerAlone
<1>1. WorkersInv => AnswerAlone
  BY DEF WorkersInv, TraceInv, AnswerAlone, ThreadAt, ReadOnlyKept, Clean
<1> QED
  BY <1>1, WorkersInvariant, PTL

-----------------------------------------------------------------------------
(* Validation: verdicts on the tree the workspace has, and services removed. *)

\* Gates come one after another, and an error ends the run of them.
GateInv ==
    /\ gate.next \in 1 .. Len(GateList) + 1
    /\ Len(gate.seen) = gate.next - 1
    /\ gate.pc \notin {"select", "returned", "raised"} => gate.next <= Len(GateList)
    /\ GateAt("returned") => gate.next = Len(GateList) + 1
    /\ gate.pc \in {"clone", "patch", "untracked", "run", "judge"} => gate.outcome # "error"

\* A gate that closes has passed or failed, and the failures counted are those of
\* the required gates seen so far.
VerdictInv ==
    /\ \A i \in DOMAIN gate.seen : gate.seen[i].outcome \in {"passed", "failed"}
    /\ gate.failures = {i \in DOMAIN gate.seen : GateList[i] /\ gate.seen[i].outcome = "failed"}
    /\ GateAt("returned") => gate.failures = {}
    /\ GateAt("judge") => gate.outcome \in {"passed", "failed", "changed"}
    /\ GateAt("close") => gate.outcome \in {"passed", "failed", "error"}

\* While nobody wrote to the workspace, what was copied so far is its tree; the
\* versions of its parts only grow, so that a tree that was left never returns.
CopyInv ==
    /\ workspaceTree.head >= 1 /\ workspaceTree.tracked >= 1 /\ workspaceTree.untracked >= 1
    /\ workspaceTree = FirstTree =>
          /\ \A i \in DOMAIN gate.seen : gate.seen[i].copy = FirstTree
          /\ gate.outcome # "error" =>
                /\ gate.pc \in {"patch", "untracked", "run", "judge", "close"} => gate.copy.head = 1
                /\ gate.pc \in {"untracked", "run", "judge", "close"} => gate.copy.tracked = 1
                /\ gate.pc \in {"run", "judge", "close"} => gate.copy.untracked = 1

\* The environment's directory is there only on the way to its removal, or the
\* call failed, and a container that runs is owned, or the start of it failed.
ServiceInv ==
    /\ venv => service.pc \in {"image", "start", "port", "body", "cleanup", "leave", "raised"}
    /\ service.pc \in {"none", "image", "start"} => ~service.owned
    /\ ServiceAt("port") => service.owned
    /\ service.pc \in {"none", "image", "start", "body", "cleanup"} /\ ~service.owned =>
          container = "absent"
    /\ service.pc \in {"leave", "returned"} /\ ~service.error => container = "absent"
    /\ ServiceAt("returned") => ~service.error
    /\ service.pc \in {"leave", "returned", "raised"} /\ service.owned /\ ~service.refused =>
          container = "absent"

ValidationInv == ValidationTypeOK /\ GateInv /\ VerdictInv /\ CopyInv /\ ServiceInv

\* The values the records' fields range over.
LEMMA ValidationValues ==
    /\ MaxWrites \in Nat /\ GateList \in Seq(BOOLEAN) /\ Len(GateList) \in Nat
    /\ FirstTree \in Tree /\ NoTree \in Tree
    /\ \A t \in Tree : t.head \in Nat /\ t.tracked \in Nat /\ t.untracked \in Nat
BY ValidationAssumption DEF FirstTree, NoTree, Tree, Version

\* Every step keeps the records' shape.
LEMMA ValidationTypeStep == ValidationTypeOK /\ [ValidationNext]_validationVars => ValidationTypeOK'
<1> SUFFICES ASSUME ValidationTypeOK, [ValidationNext]_validationVars
             PROVE  ValidationTypeOK'
  OBVIOUS
<1> DEFINE Gate == [pc : GatePCs, next : Nat, copy : Tree, outcome : Outcomes,
                    failures : SUBSET Nat, seen : Seq(Verdict)]
           Service == [pc : ServicePCs, error : BOOLEAN, owned : BOOLEAN, refused : BOOLEAN,
                       contract : Contract]
<1>a. /\ workspaceTree \in Tree /\ gate \in Gate /\ service \in Service
      /\ container \in Containers /\ venv \in BOOLEAN
  BY DEF ValidationTypeOK
<1>b. SUFFICES /\ workspaceTree' \in Tree /\ gate' \in Gate /\ service' \in Service
               /\ container' \in Containers /\ venv' \in BOOLEAN
  BY DEF ValidationTypeOK
<1>c. Outcomes = {"none", "passed", "failed", "changed", "error"} /\ GatePCs =
         {"select", "clone", "patch", "untracked", "run", "judge", "close", "returned", "raised"}
  BY DEF GatePCs, Outcomes
<1>d. ServicePCs = {"none", "image", "start", "port", "body", "cleanup", "leave", "returned", "raised"}
  BY DEF ServicePCs
<1>e. Containers = {"absent", "running"}
  BY DEF Containers
<1>f. ASSUME NEW g \in Gate, GateStep(g)
      PROVE  gate' \in Gate
  BY <1>a, <1>c, <1>f DEF GateStep
<1>g. /\ \A to \in ServicePCs : ServiceGoes(to) => service' \in Service
      /\ \A to \in ServicePCs : ServiceFails(to) => service' \in Service
  BY <1>a DEF ServiceGoes, ServiceFails
<1>h. \A v \in Version : /\ [gate.copy EXCEPT !.head = v] \in Tree
                         /\ [gate.copy EXCEPT !.tracked = v] \in Tree
                         /\ [gate.copy EXCEPT !.untracked = v] \in Tree
  BY <1>a DEF Tree
<1>i. \A t \in Tree : t.head \in Version /\ t.tracked \in Version /\ t.untracked \in Version
  BY DEF Tree

<1>11. CASE OutsideWrite
  <2>1. PICK side \in {"head", "tracked", "untracked"} :
           /\ workspaceTree[side] <= MaxWrites
           /\ workspaceTree' = [workspaceTree EXCEPT ![side] = @ + 1]
    BY <1>11 DEF OutsideWrite
  <2>2. workspaceTree[side] \in Version
    BY <1>a DEF Tree
  <2>3. workspaceTree[side] + 1 \in Version
    BY <2>1, <2>2, ValidationValues DEF Version
  <2>4. workspaceTree' \in Tree
    BY <1>a, <2>1, <2>3 DEF Tree
  <2> QED
    BY <1>11, <1>a, <2>4 DEF OutsideWrite, GateOnly
<1>12. CASE SelectGate
  BY <1>12, <1>a, <1>c, ValidationValues DEF SelectGate, GateOnly
<1>13. CASE CloneCheckout
  <2>1. \/ gate' = [gate EXCEPT !.pc = "patch", !.copy.head = workspaceTree.head]
        \/ gate' = [gate EXCEPT !.pc = "raised"]
    BY <1>13 DEF CloneCheckout
  <2>2. [gate EXCEPT !.pc = "patch", !.copy.head = workspaceTree.head] \in Gate
    BY <1>a, <1>c, <1>h, <1>i
  <2> QED
    BY <1>13, <1>a, <1>c, <2>1, <2>2 DEF CloneCheckout, GateOnly
<1>14. CASE CopyTracked
  <2>1. [gate EXCEPT !.pc = "untracked", !.copy.tracked = workspaceTree.tracked] \in Gate
    BY <1>a, <1>c, <1>h, <1>i
  <2>2. [gate EXCEPT !.pc = "close", !.outcome = "error"] \in Gate
    BY <1>a, <1>c
  <2>3. gate' \in Gate
    BY <1>14, <2>1, <2>2, <1>f DEF CopyTracked
  <2> QED
    BY <1>14, <1>a, <2>3 DEF CopyTracked, GateOnly
<1>15. CASE CopyUntracked
  <2>1. [gate EXCEPT !.pc = "run", !.copy.untracked = workspaceTree.untracked] \in Gate
    BY <1>a, <1>c, <1>h, <1>i
  <2> QED
    BY <1>15, <1>a, <2>1, <1>f DEF CopyUntracked, GateOnly
<1>16. CASE RunGate
  <2>1. \A o \in {"passed", "failed", "changed"} : [gate EXCEPT !.pc = "judge", !.outcome = o] \in Gate
    BY <1>a, <1>c
  <2> QED
    BY <1>16, <1>a, <2>1, <1>f DEF RunGate, GateOnly
<1>17. CASE JudgeGate
  BY <1>17, <1>a, <1>c DEF JudgeGate, GateOnly
<1>18. CASE CloseGate
  <2> DEFINE f == IF FailsRun THEN gate.failures \cup {gate.next} ELSE gate.failures
             seen == Append(gate.seen, [copy |-> gate.copy, outcome |-> gate.outcome])
  <2>1. gate.next + 1 \in Nat /\ seen \in Seq(Verdict) /\ f \in SUBSET Nat
    BY <1>a DEF Verdict
  <2>2. \/ gate' = [gate EXCEPT !.pc = "raised"]
        \/ gate' = [gate EXCEPT !.pc = "select", !.next = gate.next + 1, !.seen = seen, !.failures = f]
    BY <1>18 DEF CloseGate
  <2> HIDE DEF f, seen
  <2>3. gate' \in Gate
    BY <1>a, <1>c, <2>1, <2>2
  <2> QED
    BY <1>18, <1>a, <2>3 DEF CloseGate, GateOnly
<1>19. CASE ProvisionPython
  BY <1>19, <1>a, <1>d, <1>e, <1>g DEF ProvisionPython, ServiceOnly
<1>20. CASE VerifyImage
  BY <1>20, <1>a, <1>d, <1>e, <1>g DEF VerifyImage, ServiceOnly
<1>21. CASE StartContainer
  <2>1. [service EXCEPT !.pc = "port", !.owned = TRUE] \in Service
    BY <1>a, <1>d
  <2> QED
    BY <1>21, <1>a, <1>d, <1>e, <1>g, <2>1 DEF StartContainer, ServiceOnly
<1>22. CASE AwaitDatabase
  BY <1>22, <1>a, <1>d, <1>e, <1>g DEF AwaitDatabase, ServiceOnly
<1>23. CASE RunBody
  <2>1. \A e \in BOOLEAN : [service EXCEPT !.pc = "cleanup", !.error = e] \in Service
    BY <1>a, <1>d
  <2> QED
    BY <1>23, <1>a, <1>e, <2>1 DEF RunBody, ServiceOnly
<1>24. CASE RemoveContainer
  <2>1. [service EXCEPT !.pc = "leave", !.error = TRUE, !.refused = TRUE] \in Service
    BY <1>a, <1>d
  <2> QED
    BY <1>24, <1>a, <1>d, <1>e, <1>g, <2>1 DEF RemoveContainer, ServiceOnly
<1>25. CASE RemoveEnvironment
  BY <1>25, <1>a, <1>d, <1>e, <1>g DEF RemoveEnvironment, ServiceOnly
<1>26. CASE UNCHANGED validationVars
  BY <1>26, <1>a DEF validationVars
<1> QED
  BY <1>11, <1>12, <1>13, <1>14, <1>15, <1>16, <1>17, <1>18, <1>19, <1>20, <1>21, <1>22, <1>23,
     <1>24, <1>25, <1>26 DEF ValidationNext

\* Every step keeps a gate's checkout and verdict where they belong.
LEMMA GateStepKeeps ==
    ValidationTypeOK /\ GateInv /\ [ValidationNext]_validationVars => GateInv'
<1> SUFFICES ASSUME ValidationTypeOK, GateInv, [ValidationNext]_validationVars
             PROVE  GateInv'
  OBVIOUS
<1>a. gate \in [pc : GatePCs, next : Nat, copy : Tree,
                outcome : Outcomes,
                failures : SUBSET Nat, seen : Seq(Verdict)]
  BY DEF ValidationTypeOK
<1>b. Len(GateList) \in Nat
  BY ValidationValues
<1> USE <1>a, <1>b DEF GateInv, GateAt

<1>11. CASE OutsideWrite
  BY <1>11 DEF OutsideWrite
<1>12. CASE SelectGate
  <2>1. GateList = <<>> => Len(GateList) = 0
    OBVIOUS
  <2> QED
    BY <1>12, <2>1 DEF SelectGate
<1>13. CASE CloneCheckout
  BY <1>13 DEF CloneCheckout
<1>14. CASE CopyTracked
  BY <1>14 DEF CopyTracked, GateStep
<1>15. CASE CopyUntracked
  BY <1>15 DEF CopyUntracked, GateStep
<1>16. CASE RunGate
  BY <1>16 DEF RunGate, GateStep
<1>17. CASE JudgeGate
  BY <1>17 DEF JudgeGate
<1>18. CASE CloseGate
  <2> DEFINE v == [copy |-> gate.copy, outcome |-> gate.outcome]
  <2>1. v \in Verdict
    BY DEF Verdict
  <2>2. Len(Append(gate.seen, v)) = gate.next
    BY <2>1
  <2>3. CASE gate' = [gate EXCEPT !.pc = "raised"]
    BY <1>18, <2>3 DEF CloseGate
  <2>4. CASE gate' # [gate EXCEPT !.pc = "raised"]
    <3>1. gate'.next = gate.next + 1 /\ gate'.pc = "select" /\ gate'.seen = Append(gate.seen, v)
      BY <1>18, <2>4 DEF CloseGate
    <3> HIDE DEF v
    <3> QED
      BY <1>18, <2>2, <3>1 DEF CloseGate
  <2> QED
    BY <2>3, <2>4
<1>19. CASE ProvisionPython
  BY <1>19 DEF ProvisionPython, ServiceOnly
<1>20. CASE VerifyImage
  BY <1>20 DEF VerifyImage, ServiceOnly
<1>21. CASE StartContainer
  BY <1>21 DEF StartContainer, ServiceOnly
<1>22. CASE AwaitDatabase
  BY <1>22 DEF AwaitDatabase, ServiceOnly
<1>23. CASE RunBody
  BY <1>23 DEF RunBody, ServiceOnly
<1>24. CASE RemoveContainer
  BY <1>24 DEF RemoveContainer, ServiceOnly
<1>25. CASE RemoveEnvironment
  BY <1>25 DEF RemoveEnvironment, ServiceOnly
<1>26. CASE UNCHANGED validationVars
  BY <1>26 DEF validationVars
<1> QED
  BY <1>11, <1>12, <1>13, <1>14, <1>15, <1>16, <1>17, <1>18, <1>19, <1>20, <1>21, <1>22, <1>23,
     <1>24, <1>25, <1>26 DEF ValidationNext

\* Every step keeps the verdicts and the failures in step.
LEMMA VerdictStep ==
    ValidationTypeOK /\ GateInv /\ VerdictInv /\ [ValidationNext]_validationVars => VerdictInv'
<1> SUFFICES ASSUME ValidationTypeOK, GateInv, VerdictInv, [ValidationNext]_validationVars
             PROVE  VerdictInv'
  OBVIOUS
<1>a. gate \in [pc : GatePCs, next : Nat, copy : Tree, outcome : Outcomes,
                failures : SUBSET Nat, seen : Seq(Verdict)]
  BY DEF ValidationTypeOK
<1>b. Len(gate.seen) = gate.next - 1 /\ Len(gate.seen) \in Nat
  BY <1>a DEF GateInv
<1>c. ASSUME gate'.seen = gate.seen, gate'.failures = gate.failures,
             gate'.pc = "returned" => gate.failures = {},
             gate'.pc = "judge" => gate'.outcome \in {"passed", "failed", "changed"},
             gate'.pc = "close" => gate'.outcome \in {"passed", "failed", "error"}
      PROVE  VerdictInv'
  BY <1>c DEF VerdictInv, GateAt
<1>12. CASE SelectGate
  <2>1. /\ gate'.pc \in {"clone", "raised", "returned"}
        /\ gate'.pc = "returned" => gate.failures = {}
    BY <1>12, <1>a DEF SelectGate
  <2> QED
    BY <1>12, <1>a, <1>c, <2>1 DEF SelectGate
<1>13. CASE CloneCheckout
  BY <1>13, <1>a, <1>c DEF CloneCheckout
<1>14. CASE CopyTracked
  <2>1. /\ gate'.seen = gate.seen /\ gate'.failures = gate.failures
        /\ \/ gate'.pc = "untracked"
           \/ gate'.pc = "close" /\ gate'.outcome = "error"
    BY <1>14, <1>a DEF CopyTracked, GateStep
  <2> QED
    BY <2>1, <1>c
<1>15. CASE CopyUntracked
  <2>1. /\ gate'.seen = gate.seen /\ gate'.failures = gate.failures
        /\ \/ gate'.pc = "run"
           \/ gate'.pc = "close" /\ gate'.outcome = "error"
    BY <1>15, <1>a DEF CopyUntracked, GateStep
  <2> QED
    BY <2>1, <1>c
<1>16. CASE RunGate
  <2>1. /\ gate'.seen = gate.seen /\ gate'.failures = gate.failures
        /\ \/ gate'.pc = "judge" /\ gate'.outcome \in {"passed", "failed", "changed"}
           \/ gate'.pc = "close" /\ gate'.outcome = "error"
    BY <1>16, <1>a DEF RunGate, GateStep
  <2> QED
    BY <2>1, <1>c
<1>17. CASE JudgeGate
  <2>1. /\ gate'.pc = "close" /\ gate'.seen = gate.seen /\ gate'.failures = gate.failures
        /\ gate'.outcome \in {"passed", "failed", "error"}
    BY <1>17, <1>a DEF JudgeGate, VerdictInv, GateAt
  <2> QED
    BY <1>c, <2>1
<1> USE <1>a DEF VerdictInv, GateAt
<1>18. CASE CloseGate
  <2>1. CASE gate' = [gate EXCEPT !.pc = "raised"]
    BY <2>1
  <2>2. CASE gate' # [gate EXCEPT !.pc = "raised"]
    <3> DEFINE v == [copy |-> gate.copy, outcome |-> gate.outcome]
               n == gate.next
    <3>1. /\ gate.outcome \in {"passed", "failed"}
          /\ gate'.pc = "select" /\ gate'.seen = Append(gate.seen, v)
          /\ gate'.failures = IF FailsRun THEN gate.failures \cup {n} ELSE gate.failures
      BY <1>18, <2>2 DEF CloseGate
    <3>2. v \in Verdict /\ v.outcome = gate.outcome
      BY DEF Verdict
    <3>3. /\ DOMAIN Append(gate.seen, v) = DOMAIN gate.seen \cup {n}
          /\ n \notin DOMAIN gate.seen
          /\ Append(gate.seen, v)[n] = v
          /\ \A i \in DOMAIN gate.seen : Append(gate.seen, v)[i] = gate.seen[i]
      BY <1>b, <3>2
    <3> HIDE DEF v, n
    <3>4. \A i \in DOMAIN gate'.seen : gate'.seen[i].outcome \in {"passed", "failed"}
      BY <3>1, <3>2, <3>3
    <3>5. gate'.failures = {i \in DOMAIN gate'.seen : GateList[i] /\ gate'.seen[i].outcome = "failed"}
      BY <3>1, <3>2, <3>3 DEF FailsRun, n
    <3> QED
      BY <3>1, <3>4, <3>5
  <2> QED
    BY <2>1, <2>2
<1>19. CASE ProvisionPython \/ VerifyImage \/ StartContainer \/ AwaitDatabase
  BY <1>19 DEF ProvisionPython, VerifyImage, StartContainer, AwaitDatabase, ServiceOnly
<1>20. CASE RunBody \/ RemoveContainer \/ RemoveEnvironment \/ OutsideWrite
  BY <1>20 DEF RunBody, RemoveContainer, RemoveEnvironment, OutsideWrite, ServiceOnly
<1>21. CASE UNCHANGED validationVars
  BY <1>21 DEF validationVars
<1> QED
  BY <1>12, <1>13, <1>14, <1>15, <1>16, <1>17, <1>18, <1>19, <1>20, <1>21 DEF ValidationNext

\* Every step keeps what was copied equal to the tree nobody wrote to.
LEMMA CopyStep ==
    ValidationTypeOK /\ GateInv /\ CopyInv /\ [ValidationNext]_validationVars => CopyInv'
<1> SUFFICES ASSUME ValidationTypeOK, GateInv, CopyInv, [ValidationNext]_validationVars
             PROVE  CopyInv'
  OBVIOUS
<1>a. /\ gate \in [pc : GatePCs, next : Nat, copy : Tree,
                   outcome : Outcomes,
                   failures : SUBSET Nat, seen : Seq(Verdict)]
      /\ workspaceTree \in Tree
  BY DEF ValidationTypeOK
<1>b. \A t \in Tree : /\ t.head \in Nat /\ t.tracked \in Nat /\ t.untracked \in Nat
                      /\ t = FirstTree <=> t.head = 1 /\ t.tracked = 1 /\ t.untracked = 1
  BY ValidationAssumption DEF Tree, Version, FirstTree
<1>c. gate.pc \in {"clone", "patch", "untracked", "run", "judge"} => gate.outcome # "error"
  BY DEF GateInv
<1>d. \A v : /\ [gate.copy EXCEPT !.head = v].head = v
            /\ [gate.copy EXCEPT !.tracked = v].tracked = v
            /\ [gate.copy EXCEPT !.tracked = v].head = gate.copy.head
            /\ [gate.copy EXCEPT !.untracked = v].untracked = v
            /\ [gate.copy EXCEPT !.untracked = v].tracked = gate.copy.tracked
            /\ [gate.copy EXCEPT !.untracked = v].head = gate.copy.head
  BY <1>a DEF Tree
<1>e. workspaceTree = FirstTree =>
         workspaceTree.head = 1 /\ workspaceTree.tracked = 1 /\ workspaceTree.untracked = 1
  BY DEF FirstTree
<1> USE <1>a DEF CopyInv, GateAt

<1>11. CASE OutsideWrite
  <2>1. PICK side \in {"head", "tracked", "untracked"} :
           workspaceTree' = [workspaceTree EXCEPT ![side] = @ + 1]
    BY <1>11 DEF OutsideWrite
  <2>2. workspaceTree' \in Tree
    BY ValidationTypeStep DEF ValidationTypeOK
  <2>3. /\ workspaceTree'.head >= 1 /\ workspaceTree'.tracked >= 1 /\ workspaceTree'.untracked >= 1
        /\ workspaceTree'.head > 1 \/ workspaceTree'.tracked > 1 \/ workspaceTree'.untracked > 1
    BY <2>1, <1>b DEF Tree
  <2>4. workspaceTree' # FirstTree
    BY <2>2, <2>3, <1>b
  <2> QED
    BY <2>3, <2>4
<1>12. CASE SelectGate
  BY <1>12, <1>b, <1>c DEF SelectGate
<1>13. CASE CloneCheckout
  <2>1. gate.pc = "clone" /\ gate'.seen = gate.seen /\ workspaceTree' = workspaceTree
    BY <1>13 DEF CloneCheckout, GateStep
  <2>2. \/ gate'.pc = "raised"
        \/ /\ gate'.pc = "patch" /\ gate'.copy = [gate.copy EXCEPT !.head = workspaceTree.head]
           /\ gate'.outcome = gate.outcome
    BY <1>13 DEF CloneCheckout, GateStep
  <2>3. CASE gate'.pc = "raised"
    BY <2>1, <2>3
  <2>4. CASE /\ gate'.pc = "patch" /\ gate'.copy = [gate.copy EXCEPT !.head = workspaceTree.head]
             /\ gate'.outcome = gate.outcome
    <3>1. gate'.copy.head = workspaceTree.head 
      BY <2>4, <1>d
    <3> QED
      BY <2>1, <2>4, <3>1, <1>c, <1>e
  <2> QED
    BY <2>2, <2>3, <2>4
<1>14. CASE CopyTracked
  <2>1. gate.pc = "patch" /\ gate'.seen = gate.seen /\ workspaceTree' = workspaceTree
    BY <1>14 DEF CopyTracked, GateStep
  <2>2. \/ gate'.outcome = "error" /\ gate'.pc = "close"
        \/ /\ gate'.pc = "untracked" /\ gate'.copy = [gate.copy EXCEPT !.tracked = workspaceTree.tracked]
           /\ gate'.outcome = gate.outcome
    BY <1>14 DEF CopyTracked, GateStep
  <2>3. CASE gate'.outcome = "error" /\ gate'.pc = "close"
    BY <2>1, <2>3
  <2>4. CASE /\ gate'.pc = "untracked" /\ gate'.copy = [gate.copy EXCEPT !.tracked = workspaceTree.tracked]
             /\ gate'.outcome = gate.outcome
    <3>1. gate'.copy.tracked = workspaceTree.tracked /\ gate'.copy.head = gate.copy.head
      BY <2>4, <1>d
    <3> QED
      BY <2>1, <2>4, <3>1, <1>c, <1>e
  <2> QED
    BY <2>2, <2>3, <2>4
<1>15. CASE CopyUntracked
  <2>1. gate.pc = "untracked" /\ gate'.seen = gate.seen /\ workspaceTree' = workspaceTree
    BY <1>15 DEF CopyUntracked, GateStep
  <2>2. \/ gate'.outcome = "error" /\ gate'.pc = "close"
        \/ /\ gate'.pc = "run" /\ gate'.copy = [gate.copy EXCEPT !.untracked = workspaceTree.untracked]
           /\ gate'.outcome = gate.outcome
    BY <1>15 DEF CopyUntracked, GateStep
  <2>3. CASE gate'.outcome = "error" /\ gate'.pc = "close"
    BY <2>1, <2>3
  <2>4. CASE /\ gate'.pc = "run" /\ gate'.copy = [gate.copy EXCEPT !.untracked = workspaceTree.untracked]
             /\ gate'.outcome = gate.outcome
    <3>1. gate'.copy.untracked = workspaceTree.untracked /\ gate'.copy.head = gate.copy.head
          /\ gate'.copy.tracked = gate.copy.tracked
      BY <2>4, <1>d
    <3> QED
      BY <2>1, <2>4, <3>1, <1>c, <1>e
  <2> QED
    BY <2>2, <2>3, <2>4
<1>16. CASE RunGate
  BY <1>16, <1>b, <1>c DEF RunGate, GateStep
<1>17. CASE JudgeGate
  BY <1>17, <1>b, <1>c DEF JudgeGate
<1>18. CASE CloseGate
  <2>1. workspaceTree' = workspaceTree
    BY <1>18 DEF CloseGate
  <2>2. CASE workspaceTree # FirstTree
    BY <2>1, <2>2
  <2>3. CASE workspaceTree = FirstTree /\ gate' = [gate EXCEPT !.pc = "raised"]
    BY <2>1, <2>3
  <2>4. CASE workspaceTree = FirstTree /\ gate' # [gate EXCEPT !.pc = "raised"]
    <3> DEFINE v == [copy |-> gate.copy, outcome |-> gate.outcome]
    <3>1. gate.copy = FirstTree
      BY <1>18, <2>4, <1>b DEF CloseGate
    <3>2. gate'.seen = Append(gate.seen, v) /\ gate'.pc = "select"
      BY <1>18, <2>4 DEF CloseGate
    <3>3. v \in Verdict /\ v.copy = gate.copy
      BY DEF Verdict
    <3> HIDE DEF v
    <3>4. \A i \in DOMAIN Append(gate.seen, v) : Append(gate.seen, v)[i].copy = FirstTree
      BY <2>4, <3>1, <3>3
    <3> QED
      BY <2>1, <2>4, <3>2, <3>4
  <2> QED
    BY <2>2, <2>3, <2>4
<1>19. CASE ProvisionPython
  BY <1>19 DEF ProvisionPython, ServiceOnly
<1>20. CASE VerifyImage
  BY <1>20 DEF VerifyImage, ServiceOnly
<1>21. CASE StartContainer
  BY <1>21 DEF StartContainer, ServiceOnly
<1>22. CASE AwaitDatabase
  BY <1>22 DEF AwaitDatabase, ServiceOnly
<1>23. CASE RunBody
  BY <1>23 DEF RunBody, ServiceOnly
<1>24. CASE RemoveContainer
  BY <1>24 DEF RemoveContainer, ServiceOnly
<1>25. CASE RemoveEnvironment
  BY <1>25 DEF RemoveEnvironment, ServiceOnly
<1>26. CASE UNCHANGED validationVars
  BY <1>26 DEF validationVars
<1> QED
  BY <1>11, <1>12, <1>13, <1>14, <1>15, <1>16, <1>17, <1>18, <1>19, <1>20, <1>21, <1>22, <1>23,
     <1>24, <1>25, <1>26 DEF ValidationNext

\* Every step of the services keeps the way to the removals open.
LEMMA ServiceStep ==
    ValidationTypeOK /\ ServiceInv /\ [ValidationNext]_validationVars => ServiceInv'
<1> SUFFICES ASSUME ValidationTypeOK, ServiceInv, [ValidationNext]_validationVars
             PROVE  ServiceInv'
  OBVIOUS
<1>a. /\ service \in [pc : ServicePCs, error : BOOLEAN, owned : BOOLEAN, refused : BOOLEAN,
                      contract : Contract]
      /\ container \in {"absent", "running"} /\ venv \in BOOLEAN
  BY DEF ValidationTypeOK, Containers
<1> USE <1>a DEF ServiceInv, ServiceAt

<1>11. CASE OutsideWrite
  BY <1>11 DEF OutsideWrite, GateOnly
<1>12. CASE SelectGate
  BY <1>12 DEF SelectGate, GateOnly
<1>13. CASE CloneCheckout
  BY <1>13 DEF CloneCheckout, GateOnly
<1>14. CASE CopyTracked
  BY <1>14 DEF CopyTracked, GateOnly
<1>15. CASE CopyUntracked
  BY <1>15 DEF CopyUntracked, GateOnly
<1>16. CASE RunGate
  BY <1>16 DEF RunGate, GateOnly
<1>17. CASE JudgeGate
  BY <1>17 DEF JudgeGate, GateOnly
<1>18. CASE CloseGate
  BY <1>18 DEF CloseGate, GateOnly
<1>19. CASE ProvisionPython
  BY <1>19 DEF ProvisionPython, ServiceGoes, ServiceFails
<1>20. CASE VerifyImage
  BY <1>20 DEF VerifyImage, ServiceGoes, ServiceFails
<1>21. CASE StartContainer
  BY <1>21 DEF StartContainer, ServiceGoes, ServiceFails, Containers
<1>22. CASE AwaitDatabase
  BY <1>22 DEF AwaitDatabase, ServiceGoes, ServiceFails
<1>23. CASE RunBody
  BY <1>23 DEF RunBody, ServiceGoes, ServiceFails
<1>24. CASE RemoveContainer
  BY <1>24 DEF RemoveContainer, ServiceGoes, ServiceFails, LeaveBody
<1>25. CASE RemoveEnvironment
  BY <1>25 DEF RemoveEnvironment, ServiceGoes, ServiceFails
<1>26. CASE UNCHANGED validationVars
  BY <1>26 DEF validationVars
<1> QED
  BY <1>11, <1>12, <1>13, <1>14, <1>15, <1>16, <1>17, <1>18, <1>19, <1>20, <1>21, <1>22, <1>23,
     <1>24, <1>25, <1>26 DEF ValidationNext

\* Nothing has been checked out or started at first.
LEMMA ValidationInitial == ValidationInit => ValidationInv
<1> SUFFICES ASSUME ValidationInit
             PROVE  ValidationInv
  OBVIOUS
<1>1. ValidationTypeOK
  <2>1. PICK c \in Contract : service = [pc |-> "none", error |-> FALSE, owned |-> FALSE, refused |-> FALSE,
                                         contract |-> c]
    BY DEF ValidationInit
  <2>2. service \in [pc : ServicePCs, error : BOOLEAN, owned : BOOLEAN, refused : BOOLEAN, contract : Contract]
    BY <2>1 DEF ServicePCs
  <2>3. gate \in [pc : GatePCs, next : Nat, copy : Tree,
                  outcome : Outcomes,
                  failures : SUBSET Nat, seen : Seq(Verdict)]
    BY ValidationValues DEF ValidationInit, GatePCs, Outcomes
  <2> QED
    BY <2>2, <2>3, ValidationValues DEF ValidationInit, ValidationTypeOK, Containers
<1>2. GateInv
  BY ValidationValues DEF ValidationInit, GateInv, GateAt
<1>3. CopyInv /\ VerdictInv
  BY DEF ValidationInit, CopyInv, VerdictInv, FirstTree, GateAt
<1>4. ServiceInv
  BY DEF ValidationInit, ServiceInv, ServiceAt
<1> QED
  BY <1>1, <1>2, <1>3, <1>4 DEF ValidationInv

\* What was copied for a gate, its verdict, the failures, and the services stay in
\* step with where the gates and the provisioning are.
THEOREM ValidationInvariant == ValidationSpec => []ValidationInv
<1>1. ValidationInv /\ [ValidationNext]_validationVars => ValidationInv'
  BY ValidationTypeStep, GateStepKeeps, VerdictStep, CopyStep, ServiceStep DEF ValidationInv
<1> QED
  BY <1>1, ValidationInitial, PTL DEF ValidationSpec

\* Gates return with a verdict each, required ones passed, on the tree the workspace
\* still has; services return with nothing left, and an error leaves no container
\* that was known to run and could be removed.
THEOREM ValidationSettles == ValidationSpec => []ValidationSettled
<1>1. ValidationInv => ValidationSettled
  <2> SUFFICES ASSUME ValidationInv
               PROVE  ValidationSettled
    OBVIOUS
  <2>1. Len(GateList) \in Nat /\ gate.seen \in Seq(Verdict)
    BY ValidationValues DEF ValidationInv, ValidationTypeOK
  <2>2. ASSUME GateAt("returned")
        PROVE  /\ Len(gate.seen) = Len(GateList)
               /\ \A i \in DOMAIN gate.seen :
                     /\ GateList[i] => gate.seen[i].outcome = "passed"
                     /\ gate.seen[i].outcome # "changed"
                     /\ workspaceTree = FirstTree => gate.seen[i].copy = workspaceTree
    <3>1. Len(gate.seen) = Len(GateList)
      BY <2>1, <2>2 DEF ValidationInv, GateInv
    <3>2. \A i \in DOMAIN gate.seen :
             /\ GateList[i] => gate.seen[i].outcome = "passed"
             /\ gate.seen[i].outcome # "changed"
      BY <2>2 DEF ValidationInv, VerdictInv
    <3>3. workspaceTree = FirstTree => \A i \in DOMAIN gate.seen : gate.seen[i].copy = workspaceTree
      BY DEF ValidationInv, CopyInv
    <3> QED
      BY <3>1, <3>2, <3>3
  <2>3. /\ ServiceAt("returned") => container = "absent" /\ ~venv
        /\ ServiceAt("raised") /\ service.owned /\ ~service.refused => container = "absent"
    BY DEF ValidationInv, ServiceInv, ServiceAt
  <2> QED
    BY <2>2, <2>3 DEF ValidationSettled
<1> QED
  BY <1>1, ValidationInvariant, PTL

-----------------------------------------------------------------------------
(* Capability: the skills a worker starts with were there, and allowed.     *)

\* Where a call holds the index's lock, and where it has a choice of skills.
Indexing == {"scan", "read"}
HasRoute(c) == call[c].pass = 2 \/ call[c].pc \in {"check", "launched"}

\* A catalog holds one tree of each skill, and nothing that is off.
Sound(entries, off) ==
    /\ \A e, f \in entries : e.skill = f.skill => e = f
    /\ \A e \in entries : e.skill \notin off

\* The lock names the call that loads.  The cached catalog is sound for the policy its
\* signature names, and the one a load returned for the policy that load has read.
IndexInv ==
    /\ \A c \in Calls : call[c].pc \in Indexing <=> index.lock = c
    /\ Sound(index.catalog.entries, index.signature[2].off)
    /\ \A c \in Calls : In(c, "route") => Sound(call[c].catalog.entries, call[c].config.off)

\* What the user did since the check before a launch began is not forgotten.
WitnessInv ==
    \A c \in Calls : call[c].pass = 2 =>
        /\ OnDisk \subseteq call[c].current /\ AllowedSkills \subseteq call[c].allowed
        /\ hostConfig.readable \/ call[c].blind
        /\ call[c].pc \in Indexing \cup {"route"} =>
              SkillDirs \ call[c].config.off \subseteq call[c].allowed \/ call[c].blind

\* A choice was made among the candidates within the limits, and answers what the
\* task asked; what the second pass has not yet compared waits to be.
RouteInv ==
    \A c \in Calls :
        /\ HasRoute(c) =>
              /\ call[c].asked \ Reserved \subseteq {NameOf[e.skill] : e \in call[c].route}
              /\ \A e \in call[c].route : NameOf[e.skill] \notin call[c].denied \cup Reserved /\ Compatible(e)
              /\ call[c].route = {} \/ Fits(call[c].route)
        /\ In(c, "idle") => call[c].pass = 1
        /\ In(c, "launched") => call[c].pass = 2 /\ call[c].unchecked = {}
        /\ call[c].pass = 2 /\ call[c].pc \in {"check", "launched"} =>
              /\ \A e \in call[c].route : e.skill \in call[c].allowed \/ call[c].blind
              /\ call[c].route \ call[c].unchecked \subseteq call[c].current

CapabilityInv == CapabilityTypeOK /\ IndexInv /\ WitnessInv /\ RouteInv

\* A choice of skills is one that fits: its last skill in the order of the ranks
\* fitted with all the others.
LEMMA ChoiceFits ==
    ASSUME CapabilityTypeOK, IndexInv, NEW c \in Calls, In(c, "route"), NEW chosen \in SUBSET Candidates(c),
           IsChoice(c, chosen), chosen # {}
    PROVE  Fits(chosen)
<1>1. SkillCount \in Nat /\ chosen \subseteq call[c].catalog.entries /\ call[c].catalog.entries \subseteq Entries
  BY CapabilityAssumption DEF CapabilityTypeOK, WorkerCalls, Catalogs, Candidates
<1>2. \A e \in chosen : e.skill \in 1 .. SkillCount
  BY <1>1 DEF Entries, SkillDirs
<1>3. \A e \in chosen : Rank(c, e) \in 1 .. (2 * SkillCount)
  BY <1>1, <1>2 DEF Rank
<1> DEFINE ranks == {Rank(c, e) : e \in chosen}
<1>4. ranks \in SUBSET (1 .. (2 * SkillCount)) /\ ranks # {}
  BY <1>3
<1>5. 2 * SkillCount \in Nat
  BY <1>1
<1>6. \E m \in ranks : \A k \in ranks : k <= m
  <2> HIDE DEF ranks
  <2> QED
    BY <1>4, <1>5, GreatestMember
<1>7. PICK last \in chosen : \A e \in chosen : Rank(c, e) <= Rank(c, last)
  BY <1>6
<1>8. ASSUME NEW e \in chosen, Rank(c, e) = Rank(c, last)
      PROVE  e = last
  <2>1. e.skill = last.skill
    BY <1>1, <1>2, <1>8 DEF Rank
  <2> QED
    BY <2>1, <1>1 DEF IndexInv, Sound
<1>9. {d \in chosen : Rank(c, d) < Rank(c, last)} \cup {last} = chosen
  BY <1>3, <1>7, <1>8
<1>10. last \in Candidates(c)
  OBVIOUS
<1> QED
  BY <1>9, <1>10 DEF IsChoice

\* A worker call moves, and the others stay.
Moves(c) ==
    /\ call' \in [Calls -> WorkerCalls]
    /\ \A d \in Calls \ {c} : call'[d] = call[d]

\* What a call keeps while its index is loaded and its skills are compared.
KeepsRoute(c) ==
    /\ call'[c].pass = call[c].pass /\ call'[c].asked = call[c].asked
    /\ call'[c].denied = call[c].denied /\ call'[c].route = call[c].route
    /\ call'[c].current = call[c].current /\ call'[c].allowed = call[c].allowed
    /\ call'[c].blind = call[c].blind

Starts(c) ==
    /\ Moves(c) /\ call[c].pc = "idle" /\ call'[c].pc = "load" /\ call'[c].pass = call[c].pass
    /\ call'[c].current = call[c].current /\ call'[c].allowed = call[c].allowed
    /\ call'[c].blind = call[c].blind

Loads(c, from, to) ==
    /\ Moves(c) /\ KeepsRoute(c) /\ call[c].pc = from /\ call'[c].pc \in to
    /\ call'[c].config = call[c].config

Refused(c) == Moves(c) /\ call'[c] = IdleCall

Routed(c) ==
    \E chosen \in SUBSET Candidates(c) :
        /\ Moves(c) /\ IsChoice(c, chosen) /\ ~RouteBlocked(c, chosen) /\ SameRoute(c, chosen)
        /\ call'[c].pc = "check" /\ call'[c].route = chosen /\ call'[c].unchecked = chosen
        /\ call'[c].pass = call[c].pass /\ call'[c].asked = call[c].asked
        /\ call'[c].denied = call[c].denied
        /\ call'[c].current = call[c].current /\ call'[c].allowed = call[c].allowed
        /\ call'[c].blind = call[c].blind

Compared(c) ==
    /\ Moves(c) /\ KeepsRoute(c) /\ call'[c].pc = "check"
    /\ \E e \in call[c].unchecked : e.tree = disk[e.skill].tree /\ call'[c].unchecked = call[c].unchecked \ {e}

SecondPass(c) ==
    /\ Moves(c) /\ call[c].pass = 1 /\ call'[c].pc = "load" /\ call'[c].pass = 2
    /\ call'[c].current = OnDisk /\ call'[c].allowed = AllowedSkills
    /\ call'[c].blind = ~hostConfig.readable
    /\ call'[c].asked = call[c].asked /\ call'[c].denied = call[c].denied
    /\ call'[c].route = call[c].route

Launches(c) ==
    /\ Moves(c) /\ KeepsRoute(c) /\ call[c].pass = 2 /\ call[c].unchecked = {}
    /\ call'[c].pc = "launched" /\ call'[c].unchecked = call[c].unchecked

\* What was read of the directories is a catalog.
LEMMA CatalogTyped == \A c \in Calls : Catalog(c) \in Catalogs
<1> SUFFICES ASSUME NEW c \in Calls
             PROVE  Catalog(c) \in Catalogs
  OBVIOUS
<1>1. Catalog(c).entries \in SUBSET Entries
  BY DEF Catalog, Entries
<1>2. Catalog(c).ignored \in SUBSET Ignored
  BY DEF Catalog, Ignored, Reasons
<1> QED
  BY <1>1, <1>2 DEF Catalogs, Catalog

\* What each action of a call does to the calls.
LEMMA CallActs ==
    ASSUME CapabilityTypeOK, NEW c \in Calls
    PROVE  /\ (\E request \in Requests : StartCall(c, request)) => Starts(c)
           /\ BeginLoad(c) => /\ Moves(c) /\ KeepsRoute(c) /\ call[c].pc = "load" /\ call'[c].pc = "scan"
                              /\ call'[c].config = hostConfig
           /\ ScanSkill(c) => Loads(c, "scan", {"scan"})
           /\ EndScan(c) => \/ Loads(c, "scan", {"read"}) /\ UNCHANGED index
                            \/ /\ Loads(c, "scan", {"route"}) /\ call'[c].catalog = index.catalog
                               /\ index' = [index EXCEPT !.lock = NoCall]
                               /\ index.signature[2] = call[c].config
           /\ ReadSkill(c) => Loads(c, "read", {"read"})
           /\ EndLoad(c) => Loads(c, "read", {"route"}) /\ call'[c].catalog = Catalog(c)
           /\ Route(c) => Refused(c) \/ Routed(c)
           /\ CheckFresh(c) => Refused(c) \/ Compared(c)
           /\ PreLaunch(c) => SecondPass(c) \/ Launches(c)
           /\ EndCall(c) => Refused(c)
<1>a. /\ disk \in [SkillDirs -> Files] /\ hostConfig \in Configs /\ call \in [Calls -> WorkerCalls]
      /\ call[c] \in WorkerCalls
  BY DEF CapabilityTypeOK
<1>b. CallSteps = {"idle", "load", "scan", "read", "route", "check", "launched"}
  BY DEF CallSteps
<1>c. IdleCall \in WorkerCalls /\ NoConfig \in Configs /\ NoCatalog \in Catalogs
  BY <1>b DEF IdleCall, WorkerCalls, NoConfig, Configs, NoCatalog, Catalogs
<1>d. /\ \A r \in WorkerCalls :
            /\ r.pc \in CallSteps /\ r.pass \in {1, 2} /\ r.asked \in SUBSET STRING
            /\ r.scanned \in Seq(Files) /\ r.trees \in Seq(Kinds) /\ r.unchecked \in SUBSET Entries
  BY DEF WorkerCalls
<1>e. OnDisk \in SUBSET Entries /\ AllowedSkills \in SUBSET SkillDirs
  BY DEF OnDisk, AllowedSkills
<1>f. Refuse(c) => Refused(c)
  BY <1>a, <1>c DEF Refuse, Refused, Moves
<1>1. ASSUME NEW request \in Requests, StartCall(c, request)
      PROVE  Starts(c)
  <2>1. request.denied \in SUBSET STRING /\ request.asked \ request.denied \in SUBSET STRING
    BY CapabilityAssumption
  <2>2. [call[c] EXCEPT !.pc = "load", !.denied = request.denied, !.asked = request.asked \ request.denied]
           \in WorkerCalls
    BY <1>a, <1>b, <2>1 DEF WorkerCalls
  <2>3. call' = [call EXCEPT ![c] = [call[c] EXCEPT !.pc = "load", !.denied = request.denied,
                                                    !.asked = request.asked \ request.denied]]
    BY <1>1 DEF StartCall
  <2> QED
    BY <1>1, <1>a, <2>2, <2>3 DEF StartCall, Starts, Moves, In, WorkerCalls
<1>2. ASSUME BeginLoad(c)
      PROVE  /\ Moves(c) /\ KeepsRoute(c) /\ call[c].pc = "load" /\ call'[c].pc = "scan"
             /\ call'[c].config = hostConfig
  <2> DEFINE r == [call[c] EXCEPT !.pc = "scan", !.config = hostConfig, !.scanned = <<>>, !.trees = <<>>]
  <2>1. <<>> \in Seq(Files) /\ <<>> \in Seq(Kinds)
    OBVIOUS
  <2>2. r \in WorkerCalls
    BY <1>a, <1>b, <2>1 DEF WorkerCalls
  <2>3. call' = [call EXCEPT ![c] = r]
    BY <1>2 DEF BeginLoad
  <2> QED
    BY <1>2, <1>a, <2>2, <2>3 DEF BeginLoad, KeepsRoute, Moves, In, WorkerCalls
<1>3. ASSUME ScanSkill(c)
      PROVE  Loads(c, "scan", {"scan"})
  <2> DEFINE s == Len(call[c].scanned) + 1
  <2>1. s \in SkillDirs /\ call' = [call EXCEPT ![c].scanned = Append(@, disk[s])]
    BY <1>3 DEF ScanSkill
  <2>2. Append(call[c].scanned, disk[s]) \in Seq(Files)
    <3>1. disk[s] \in Files /\ call[c].scanned \in Seq(Files)
      BY <1>a, <1>d, <2>1
    <3> HIDE DEF s
    <3> QED
      BY <3>1
  <2> HIDE DEF s
  <2> DEFINE r == [call[c] EXCEPT !.scanned = Append(call[c].scanned, disk[s])]
  <2>3. r \in WorkerCalls
    BY <1>a, <2>2 DEF WorkerCalls
  <2>4. call' = [call EXCEPT ![c] = r]
    BY <2>1
  <2>5. call[c].pc = "scan"
    BY <1>3 DEF ScanSkill, In
  <2> QED
    BY <1>a, <2>3, <2>4, <2>5 DEF Loads, KeepsRoute, Moves, In, WorkerCalls
<1>g. ASSUME NEW from \in {"scan", "read"}, call[c].pc = from, NEW found \in Catalogs, Return(c, found)
      PROVE  Loads(c, from, {"route"}) /\ call'[c].catalog = found
  <2> DEFINE r == [call[c] EXCEPT !.pc = "route", !.catalog = found, !.scanned = <<>>, !.trees = <<>>]
  <2>1. <<>> \in Seq(Files) /\ <<>> \in Seq(Kinds)
    OBVIOUS
  <2>2. r \in WorkerCalls
    BY <1>a, <1>b, <2>1 DEF WorkerCalls
  <2>3. call' = [call EXCEPT ![c] = r]
    BY <1>g DEF Return
  <2>4. /\ r.pc = "route" /\ r.pass = call[c].pass /\ r.asked = call[c].asked /\ r.denied = call[c].denied
        /\ r.route = call[c].route /\ r.current = call[c].current /\ r.allowed = call[c].allowed
        /\ r.blind = call[c].blind /\ r.config = call[c].config /\ r.catalog = found
    BY <1>a DEF WorkerCalls
  <2> HIDE DEF r
  <2>5. Moves(c) /\ call'[c] = r
    BY <1>a, <2>2, <2>3 DEF Moves
  <2> QED
    BY <1>g, <2>4, <2>5 DEF Loads, KeepsRoute
<1>4. ASSUME EndScan(c)
      PROVE  \/ Loads(c, "scan", {"read"}) /\ UNCHANGED index
             \/ /\ Loads(c, "scan", {"route"}) /\ call'[c].catalog = index.catalog
                /\ index' = [index EXCEPT !.lock = NoCall]
                /\ index.signature[2] = call[c].config
  <2>1. call[c].pc = "scan"
    BY <1>4 DEF EndScan, In
  <2>2. CASE Signature(c) = index.signature
    <3>1. Return(c, index.catalog) /\ index' = [index EXCEPT !.lock = NoCall]
      BY <1>4, <2>2 DEF EndScan
    <3>2. index.catalog \in Catalogs
      BY DEF CapabilityTypeOK
    <3>3. Signature(c)[2] = call[c].config
      BY DEF Signature
    <3> QED
      BY <1>g, <2>1, <2>2, <3>1, <3>2, <3>3
  <2>3. CASE Signature(c) # index.signature
    <3> DEFINE r == [call[c] EXCEPT !.pc = "read"]
    <3>1. call' = [call EXCEPT ![c] = r] /\ UNCHANGED index
      BY <1>4, <2>3 DEF EndScan
    <3>2. r \in WorkerCalls
      BY <1>a, <1>b DEF WorkerCalls
    <3> QED
      BY <1>a, <2>1, <3>1, <3>2 DEF Loads, KeepsRoute, Moves, WorkerCalls
  <2> QED
    BY <2>2, <2>3
<1>5. ASSUME ReadSkill(c)
      PROVE  Loads(c, "read", {"read"})
  <2>1. PICK kind : kind \in Kinds /\ call' = [call EXCEPT ![c].trees = Append(@, kind)]
    BY <1>5 DEF ReadSkill, Kinds
  <2>2. Append(call[c].trees, kind) \in Seq(Kinds)
    BY <1>a, <1>d, <2>1
  <2> DEFINE r == [call[c] EXCEPT !.trees = Append(call[c].trees, kind)]
  <2>3. r \in WorkerCalls
    BY <1>a, <2>2 DEF WorkerCalls
  <2>4. call' = [call EXCEPT ![c] = r]
    BY <2>1
  <2>5. call[c].pc = "read"
    BY <1>5 DEF ReadSkill, In
  <2> QED
    BY <1>a, <2>3, <2>4, <2>5 DEF Loads, KeepsRoute, Moves, WorkerCalls
<1>6. ASSUME EndLoad(c)
      PROVE  Loads(c, "read", {"route"}) /\ call'[c].catalog = Catalog(c)
  <2>1. Return(c, Catalog(c)) /\ call[c].pc = "read"
    BY <1>6 DEF EndLoad, In
  <2> QED
    BY <1>g, <2>1, CatalogTyped
<1>7. ASSUME Route(c)
      PROVE  Refused(c) \/ Routed(c)
  <2>1. PICK chosen \in SUBSET Candidates(c) :
           /\ IsChoice(c, chosen)
           /\ IF RouteBlocked(c, chosen) \/ ~SameRoute(c, chosen) THEN Refuse(c)
              ELSE call' = [call EXCEPT ![c].pc = "check", ![c].route = chosen, ![c].unchecked = chosen,
                                        ![c].config = NoConfig, ![c].catalog = NoCatalog]
    BY <1>7 DEF Route
  <2>2. CASE RouteBlocked(c, chosen) \/ ~SameRoute(c, chosen)
    BY <2>1, <2>2, <1>f
  <2>3. CASE ~(RouteBlocked(c, chosen) \/ ~SameRoute(c, chosen))
    <3> DEFINE r == [call[c] EXCEPT !.pc = "check", !.route = chosen, !.unchecked = chosen,
                                    !.config = NoConfig, !.catalog = NoCatalog]
    <3>1. chosen \in SUBSET Entries
      BY <1>a DEF Candidates, WorkerCalls, Catalogs
    <3>3. r \in WorkerCalls
      BY <1>a, <1>b, <1>c, <3>1 DEF WorkerCalls
    <3>4. call' = [call EXCEPT ![c] = r]
      BY <2>1, <2>3
    <3>5. /\ r.pc = "check" /\ r.route = chosen /\ r.unchecked = chosen
          /\ r.pass = call[c].pass /\ r.asked = call[c].asked /\ r.denied = call[c].denied
          /\ r.current = call[c].current /\ r.allowed = call[c].allowed /\ r.blind = call[c].blind
      BY <1>a DEF WorkerCalls
    <3> HIDE DEF r
    <3>6. Moves(c) /\ call'[c] = r
      BY <1>a, <3>3, <3>4 DEF Moves
    <3> QED
      BY <2>1, <2>3, <3>5, <3>6 DEF Routed
  <2> QED
    BY <2>2, <2>3
<1>8. ASSUME CheckFresh(c)
      PROVE  Refused(c) \/ Compared(c)
  <2>1. PICK e \in call[c].unchecked :
           IF disk[e.skill].tree = e.tree THEN call' = [call EXCEPT ![c].unchecked = @ \ {e}] ELSE Refuse(c)
    BY <1>8 DEF CheckFresh
  <2>2. CASE disk[e.skill].tree # e.tree
    BY <2>1, <2>2, <1>f
  <2>3. CASE disk[e.skill].tree = e.tree
    <3> DEFINE r == [call[c] EXCEPT !.unchecked = call[c].unchecked \ {e}]
    <3>1. call[c].unchecked \ {e} \in SUBSET Entries
      BY <1>a, <1>d
    <3>2. r \in WorkerCalls
      BY <1>a, <3>1 DEF WorkerCalls
    <3>3. call' = [call EXCEPT ![c] = r]
      BY <2>1, <2>3
    <3>4. call[c].pc = "check"
      BY <1>8 DEF CheckFresh, In
    <3>5. Moves(c) /\ KeepsRoute(c) /\ call'[c].pc = "check" /\ call'[c].unchecked = call[c].unchecked \ {e}
      BY <1>a, <3>2, <3>3, <3>4 DEF Moves, KeepsRoute, WorkerCalls
    <3> QED
      BY <2>3, <3>5 DEF Compared
  <2> QED
    BY <2>2, <2>3
<1>9. ASSUME PreLaunch(c)
      PROVE  SecondPass(c) \/ Launches(c)
  <2>1. CASE call[c].pass = 1
    <3> DEFINE r == [call[c] EXCEPT !.pc = "load", !.pass = 2, !.current = OnDisk, !.allowed = AllowedSkills,
                                    !.blind = ~hostConfig.readable]
    <3>1. r \in WorkerCalls
      BY <1>a, <1>b, <1>e DEF WorkerCalls
    <3>2. call' = [call EXCEPT ![c] = r]
      BY <1>9, <2>1 DEF PreLaunch
    <3> QED
      BY <1>a, <2>1, <3>1, <3>2 DEF SecondPass, Moves, WorkerCalls
  <2>2. CASE call[c].pass = 2
    <3> DEFINE r == [call[c] EXCEPT !.pc = "launched", !.pass = 2, !.current = @, !.allowed = @, !.blind = @]
    <3>1. r \in WorkerCalls
      BY <1>a, <1>b DEF WorkerCalls
    <3>2. call' = [call EXCEPT ![c] = r]
      <4>1. call[c].pass # 1
        BY <2>2
      <4> QED
        BY <1>9, <4>1, Zenon DEF PreLaunch
    <3>3. call[c].unchecked = {}
      BY <1>9 DEF PreLaunch
    <3> QED
      BY <1>a, <2>2, <3>1, <3>2, <3>3 DEF Launches, KeepsRoute, Moves, WorkerCalls
  <2> QED
    BY <1>a, <1>d, <2>1, <2>2
<1>10. EndCall(c) => Refused(c)
  BY <1>a, <1>c DEF EndCall, Refused, Moves
<1> QED
  BY <1>1, <1>2, <1>3, <1>4, <1>5, <1>6, <1>7, <1>8, <1>9, <1>10


\* Every step keeps the records' shape.
LEMMA CapabilityTypeStep ==
    CapabilityTypeOK /\ [CapabilityNext]_capabilityVars => CapabilityTypeOK'
<1> SUFFICES ASSUME CapabilityTypeOK, [CapabilityNext]_capabilityVars
             PROVE  CapabilityTypeOK'
  OBVIOUS
<1>a. /\ disk \in [SkillDirs -> Files] /\ hostConfig \in Configs
      /\ index \in [lock : Calls \cup {NoCall}, signature : {index.signature},
                    catalog : Catalogs, readable : BOOLEAN]
      /\ call \in [Calls -> WorkerCalls] /\ changes \in 0 .. MaxChanges
  BY DEF CapabilityTypeOK
<1> DEFINE Index == [lock : Calls \cup {NoCall}, signature : {index'.signature},
                     catalog : Catalogs, readable : BOOLEAN]
<1>b. /\ disk' \in [SkillDirs -> Files] /\ hostConfig' \in Configs /\ index' \in Index
      /\ call' \in [Calls -> WorkerCalls] /\ changes' \in 0 .. MaxChanges
      => CapabilityTypeOK'
  BY DEF CapabilityTypeOK
<1>c. Change => changes' \in 0 .. MaxChanges
  BY <1>a, CapabilityAssumption DEF Change
<1>d. Witnessed => call' \in [Calls -> WorkerCalls]
  <2>1. ASSUME NEW c \in Calls
        PROVE  [call[c] EXCEPT !.current = @ \cup OnDisk', !.allowed = @ \cup AllowedSkills',
                               !.blind = @ \/ ~hostConfig'.readable] \in WorkerCalls
    <3>1. OnDisk' \in SUBSET Entries /\ AllowedSkills' \in SUBSET SkillDirs
      BY DEF OnDisk, AllowedSkills
    <3>2. call[c] \in WorkerCalls
      BY <1>a
    <3>3. call[c].current \cup OnDisk' \in SUBSET Entries /\ call[c].allowed \cup AllowedSkills' \in SUBSET SkillDirs
      BY <3>1, <3>2 DEF WorkerCalls
    <3> QED
      BY <3>2, <3>3 DEF WorkerCalls
  <2> QED
    BY <2>1, <1>a DEF Witnessed
<1>f. UNCHANGED index => index' \in Index
  BY <1>a
<1>1. CASE \E s \in SkillDirs, kind \in Kinds : ChangeSkill(s, kind)
  <2>1. PICK s \in SkillDirs, kind \in Kinds : ChangeSkill(s, kind)
    BY <1>1
  <2>2. /\ disk' = [disk EXCEPT ![s] = [tree |-> kind, stamp |-> changes']] /\ Change /\ Witnessed
        /\ UNCHANGED <<hostConfig, index>>
    BY <2>1 DEF ChangeSkill
  <2>3. [tree |-> kind, stamp |-> changes'] \in Files
    BY <2>2, <1>c DEF Files
  <2> QED
    BY <1>a, <1>b, <1>c, <1>d, <1>f, <2>2, <2>3
<1>2. CASE \E off \in SUBSET SkillDirs, readable \in BOOLEAN : ChangeConfig(off, readable)
  <2>1. PICK off \in SUBSET SkillDirs, readable \in BOOLEAN : ChangeConfig(off, readable)
    BY <1>2
  <2>2. hostConfig' \in Configs
    BY <2>1 DEF ChangeConfig, Configs
  <2> QED
    BY <1>a, <1>b, <1>c, <1>d, <1>f, <2>1, <2>2 DEF ChangeConfig
<1>3. ASSUME NEW c \in Calls,
             \/ \E request \in Requests : StartCall(c, request)
             \/ ScanSkill(c) \/ ReadSkill(c) \/ Route(c) \/ CheckFresh(c) \/ PreLaunch(c) \/ EndCall(c)
      PROVE  CapabilityTypeOK'
  <2>1. Moves(c)
    BY <1>3, CallActs DEF Starts, Loads, Refused, Routed, Compared, SecondPass, Launches
  <2>2. UNCHANGED <<disk, hostConfig, index, changes>>
    BY <1>3 DEF StartCall, ScanSkill, ReadSkill, Route, CheckFresh, PreLaunch, EndCall
  <2> QED
    BY <1>a, <1>b, <1>f, <2>1, <2>2 DEF Moves
<1>4. ASSUME NEW c \in Calls, BeginLoad(c) \/ EndScan(c)
      PROVE  CapabilityTypeOK'
  <2>1. Moves(c) /\ UNCHANGED <<disk, hostConfig, changes>>
    BY <1>4, CallActs DEF BeginLoad, EndScan, Loads
  <2>2. \/ index' = [index EXCEPT !.lock = c, !.readable = hostConfig.readable]
        \/ index' = [index EXCEPT !.lock = NoCall]
        \/ index' = index
    BY <1>4 DEF BeginLoad, EndScan
  <2>3. index' \in Index
    BY <1>a, <2>2 DEF Configs
  <2> QED
    BY <1>a, <1>b, <2>1, <2>3 DEF Moves
<1>5. ASSUME NEW c \in Calls, EndLoad(c)
      PROVE  CapabilityTypeOK'
  <2>1. Moves(c) /\ UNCHANGED <<disk, hostConfig, changes>>
    BY <1>5, CallActs DEF Loads, EndLoad
  <2>2. index' = [index EXCEPT !.lock = NoCall, !.signature = Signature(c), !.catalog = Catalog(c)]
    BY <1>5 DEF EndLoad
  <2>3. Catalog(c) \in Catalogs
    BY CatalogTyped
  <2>4. index' \in Index
    BY <1>a, <2>2, <2>3
  <2> QED
    BY <1>a, <1>b, <2>1, <2>4 DEF Moves
<1>6. CASE UNCHANGED capabilityVars
  BY <1>a, <1>b, <1>f, <1>6 DEF capabilityVars
<1> QED
  BY <1>1, <1>2, <1>3, <1>4, <1>5, <1>6 DEF CapabilityNext

\* Every step keeps the lock with the call that loads, and what the catalog's
\* signature says of it.
LEMMA IndexStep ==
    CapabilityTypeOK /\ IndexInv /\ [CapabilityNext]_capabilityVars => IndexInv'
<1> SUFFICES ASSUME CapabilityTypeOK, IndexInv, [CapabilityNext]_capabilityVars
             PROVE  IndexInv'
  OBVIOUS
<1>a. index \in [lock : Calls \cup {NoCall}, signature : {index.signature},
                 catalog : Catalogs, readable : BOOLEAN]
  BY DEF CapabilityTypeOK
<1>b. /\ \A c \in Calls : call[c].pc \in Indexing <=> index.lock = c
      /\ Sound(index.catalog.entries, index.signature[2].off)
      /\ \A c \in Calls : call[c].pc = "route" => Sound(call[c].catalog.entries, call[c].config.off)
  BY DEF IndexInv, In
<1>c. (/\ \A c \in Calls : call'[c].pc \in Indexing <=> index'.lock = c
       /\ Sound(index'.catalog.entries, index'.signature[2].off)
       /\ \A c \in Calls : call'[c].pc = "route" => Sound(call'[c].catalog.entries, call'[c].config.off))
      => IndexInv'
  BY DEF IndexInv, In, Sound
<1>d. NoCall \notin Calls
  BY CapabilityAssumption
<1>1. CASE Witnessed /\ UNCHANGED index
  <2>1. \A c \in Calls : /\ call'[c].pc = call[c].pc /\ call'[c].config = call[c].config
                         /\ call'[c].catalog = call[c].catalog
    <3>1. \A c \in Calls : call[c] \in WorkerCalls
      BY DEF CapabilityTypeOK
    <3> QED
      BY <1>1, <3>1 DEF Witnessed, WorkerCalls
  <2> QED
    BY <1>1, <1>b, <1>c, <2>1
<1>2. ASSUME NEW c \in Calls, UNCHANGED index, Moves(c), call'[c].pc # "route",
             call[c].pc \in Indexing <=> call'[c].pc \in Indexing
      PROVE  IndexInv'
  BY <1>2, <1>b, <1>c DEF Moves
<1>3. ASSUME NEW c \in Calls, EndScan(c)
      PROVE  IndexInv'
  <2>1. CASE Loads(c, "scan", {"read"}) /\ UNCHANGED index
    BY <1>2, <2>1 DEF Loads, Indexing
  <2>2. CASE /\ Loads(c, "scan", {"route"}) /\ call'[c].catalog = index.catalog
             /\ index' = [index EXCEPT !.lock = NoCall]
             /\ index.signature[2] = call[c].config
    <3>1. index'.lock = NoCall /\ index'.catalog = index.catalog /\ index'.signature = index.signature
      BY <1>a, <2>2
    <3>2. index.lock = c
      BY <1>b, <2>2 DEF Loads, Indexing
    <3> QED
      BY <1>b, <1>c, <1>d, <2>2, <3>1, <3>2 DEF Loads, Moves, Indexing
  <2> QED
    BY <1>3, <2>1, <2>2, CallActs
<1>4. ASSUME NEW c \in Calls, BeginLoad(c)
      PROVE  IndexInv'
  <2>1. index.lock = NoCall /\ index' = [index EXCEPT !.lock = c, !.readable = hostConfig.readable]
    BY <1>4 DEF BeginLoad
  <2>2. Moves(c) /\ call[c].pc = "load" /\ call'[c].pc = "scan"
    BY <1>4, CallActs
  <2>3. index'.lock = c /\ index'.catalog = index.catalog /\ index'.signature = index.signature
    BY <1>a, <2>1
  <2> QED
    BY <1>b, <1>c, <1>d, <2>1, <2>2, <2>3 DEF Moves, Indexing
<1>5. ASSUME NEW c \in Calls, EndLoad(c)
      PROVE  IndexInv'
  <2>1. index' = [index EXCEPT !.lock = NoCall, !.signature = Signature(c), !.catalog = Catalog(c)]
    BY <1>5 DEF EndLoad
  <2>2. index'.lock = NoCall /\ index'.signature = Signature(c) /\ index'.catalog = Catalog(c)
    BY <1>a, <2>1
  <2>3. Signature(c)[2] = call[c].config
    BY DEF Signature
  <2>4. Catalog(c).entries \subseteq
           {[skill |-> s, tree |-> call[c].trees[s]] : s \in {s \in SkillDirs : s \notin call[c].config.off}}
    BY DEF Catalog
  <2>5. Sound(Catalog(c).entries, call[c].config.off)
    BY <2>4 DEF Sound
  <2>6. Loads(c, "read", {"route"}) /\ call'[c].catalog = Catalog(c)
    BY <1>5, CallActs
  <2>7. index.lock = c
    BY <1>b, <2>6 DEF Loads, Indexing
  <2> QED
    BY <1>b, <1>c, <1>d, <2>2, <2>3, <2>5, <2>6, <2>7 DEF Loads, Moves, Indexing
<1>6. ASSUME NEW c \in Calls, Route(c) \/ CheckFresh(c) \/ PreLaunch(c) \/ EndCall(c)
      PROVE  IndexInv'
  <2>1. UNCHANGED index /\ call[c].pc \in {"route", "check", "launched"}
    BY <1>6 DEF Route, CheckFresh, PreLaunch, EndCall, In
  <2>2. Moves(c) /\ call'[c].pc \in {"idle", "check", "load", "launched"}
    BY <1>6, CallActs DEF Refused, Routed, Compared, SecondPass, Launches, IdleCall
  <2> QED
    BY <1>2, <2>1, <2>2 DEF Indexing
<1>7. ASSUME NEW c \in Calls, (\E request \in Requests : StartCall(c, request)) \/ ScanSkill(c) \/ ReadSkill(c)
      PROVE  IndexInv'
  <2>1. UNCHANGED index
    BY <1>7 DEF StartCall, ScanSkill, ReadSkill
  <2>2. Starts(c) \/ Loads(c, "scan", {"scan"}) \/ Loads(c, "read", {"read"})
    BY <1>7, CallActs
  <2> QED
    BY <1>2, <2>1, <2>2 DEF Starts, Loads, Indexing
<1>8. CASE UNCHANGED capabilityVars
  BY <1>8, <1>b, <1>c DEF capabilityVars
<1>9. CASE \E s \in SkillDirs, kind \in Kinds : ChangeSkill(s, kind)
  BY <1>1, <1>9 DEF ChangeSkill
<1>10. CASE \E off \in SUBSET SkillDirs, readable \in BOOLEAN : ChangeConfig(off, readable)
  BY <1>1, <1>10 DEF ChangeConfig
<1> QED
  BY <1>3, <1>4, <1>5, <1>6, <1>7, <1>8, <1>9, <1>10 DEF CapabilityNext


\* Every step remembers what the user did since the check before a launch began.
LEMMA WitnessStep ==
    CapabilityTypeOK /\ WitnessInv /\ [CapabilityNext]_capabilityVars => WitnessInv'
<1> SUFFICES ASSUME CapabilityTypeOK, WitnessInv, [CapabilityNext]_capabilityVars
             PROVE  WitnessInv'
  OBVIOUS
<1> DEFINE W(c) == call[c].pass = 2 =>
                      /\ OnDisk \subseteq call[c].current /\ AllowedSkills \subseteq call[c].allowed
                      /\ hostConfig.readable \/ call[c].blind
                      /\ call[c].pc \in Indexing \cup {"route"} =>
                            SkillDirs \ call[c].config.off \subseteq call[c].allowed \/ call[c].blind
<1>a. \A c \in Calls : W(c)
  BY DEF WitnessInv
<1>b. (\A c \in Calls : W(c)') => WitnessInv'
  BY DEF WitnessInv
<1>1. ASSUME Witnessed
      PROVE  WitnessInv'
  <2>1. ASSUME NEW c \in Calls
        PROVE  W(c)'
    <3>1. call[c] \in WorkerCalls
      BY DEF CapabilityTypeOK
    <3>2. CASE call[c].pass = 2
      <4>1. /\ call'[c].current = call[c].current \cup OnDisk'
            /\ call'[c].allowed = call[c].allowed \cup AllowedSkills'
            /\ call'[c].pc = call[c].pc /\ call'[c].config = call[c].config
            /\ call'[c].blind = (call[c].blind \/ ~hostConfig'.readable)
        BY <1>1, <3>1, <3>2 DEF Witnessed, WorkerCalls
      <4>2. call[c].pc \in Indexing \cup {"route"} =>
               SkillDirs \ call[c].config.off \subseteq call[c].allowed \/ call[c].blind
        BY <1>a, <3>2
      <4> HIDE DEF W
      <4> QED
        BY <4>1, <4>2 DEF W
    <3>3. CASE call[c].pass # 2
      BY <1>1, <3>1, <3>3 DEF Witnessed, WorkerCalls
    <3> QED
      BY <3>2, <3>3
  <2> HIDE DEF W
  <2> QED
    BY <1>b, <2>1
<1>c. ASSUME UNCHANGED <<disk, hostConfig>>
      PROVE  OnDisk' = OnDisk /\ AllowedSkills' = AllowedSkills
  BY <1>c DEF OnDisk, AllowedSkills
<1>2. ASSUME NEW c \in Calls, Moves(c), W(c)', UNCHANGED <<disk, hostConfig>>
      PROVE  WitnessInv'
  <2>1. \A d \in Calls \ {c} : W(d)'
    BY <1>a, <1>c, <1>2 DEF Moves
  <2> HIDE DEF W
  <2> QED
    BY <1>b, <1>2, <2>1
<1>3. ASSUME NEW c \in Calls, UNCHANGED <<disk, hostConfig>>,
             Refused(c) \/ Routed(c) \/ Compared(c) \/ SecondPass(c) \/ Launches(c)
      PROVE  WitnessInv'
  <2>1. Moves(c)
    BY <1>3 DEF Starts, Refused, Routed, Compared, SecondPass, Launches
  <2>2. ASSUME Refused(c) PROVE W(c)'
    BY <2>2 DEF Refused, IdleCall
  <2>3. ASSUME Routed(c) PROVE W(c)'
    <3>1. /\ call'[c].pc = "check" /\ call'[c].pass = call[c].pass
          /\ call'[c].current = call[c].current /\ call'[c].allowed = call[c].allowed
          /\ call'[c].blind = call[c].blind
      BY <2>3 DEF Routed
    <3> QED
      BY <1>a, <1>c, <1>3, <3>1 DEF Indexing
  <2>4. ASSUME Compared(c) PROVE W(c)'
    BY <1>a, <1>c, <1>3, <2>4 DEF Compared, KeepsRoute, Indexing
  <2>5. ASSUME SecondPass(c) PROVE W(c)'
    <3>1. hostConfig.readable \in BOOLEAN
      BY DEF CapabilityTypeOK, Configs
    <3>2. hostConfig.readable \/ call'[c].blind
      BY <2>5, <3>1 DEF SecondPass
    <3>3. hostConfig.readable => SkillDirs \ hostConfig.off = call'[c].allowed
      BY <2>5 DEF SecondPass, AllowedSkills
    <3> QED
      BY <1>c, <1>3, <2>5, <3>2, <3>3 DEF SecondPass, Indexing
  <2>6. ASSUME Launches(c) PROVE W(c)'
    BY <1>a, <1>c, <1>3, <2>6 DEF Launches, KeepsRoute, Indexing
  <2>7. W(c)'
    BY <1>3, <2>2, <2>3, <2>4, <2>5, <2>6
  <2> QED
    BY <1>2, <1>3, <2>1, <2>7
<1>4. ASSUME NEW c \in Calls, UNCHANGED <<disk, hostConfig>>,
             Loads(c, "scan", {"scan", "read", "route"}) \/ Loads(c, "read", {"read", "route"})
      PROVE  WitnessInv'
  <2>1. Moves(c)
    BY <1>4 DEF Loads
  <2>2. W(c)'
    BY <1>a, <1>c, <1>4 DEF Loads, KeepsRoute, Indexing
  <2> QED
    BY <1>2, <1>4, <2>1, <2>2
<1>5. ASSUME NEW c \in Calls, BeginLoad(c)
      PROVE  WitnessInv'
  <2>1. /\ Moves(c) /\ KeepsRoute(c) /\ call'[c].config = hostConfig
        /\ UNCHANGED <<disk, hostConfig>>
    BY <1>5, CallActs DEF BeginLoad
  <2>2. W(c)'
    BY <1>a, <1>c, <2>1 DEF KeepsRoute, AllowedSkills
  <2> QED
    BY <1>2, <2>1, <2>2
<1>6. ASSUME NEW c \in Calls, \E request \in Requests : StartCall(c, request)
      PROVE  WitnessInv'
  <2>1. Starts(c) /\ UNCHANGED <<disk, hostConfig>>
    BY <1>6, CallActs DEF StartCall
  <2>2. W(c)'
    BY <1>a, <1>c, <2>1 DEF Starts, Indexing
  <2> QED
    BY <1>2, <2>1, <2>2 DEF Starts
<1>7. ASSUME NEW c \in Calls, ScanSkill(c) \/ EndScan(c) \/ ReadSkill(c) \/ EndLoad(c)
      PROVE  WitnessInv'
  <2>1. Loads(c, "scan", {"scan", "read", "route"}) \/ Loads(c, "read", {"read", "route"})
    BY <1>7, CallActs DEF Loads
  <2>2. UNCHANGED <<disk, hostConfig>>
    BY <1>7 DEF ScanSkill, EndScan, ReadSkill, EndLoad
  <2> QED
    BY <1>4, <2>1, <2>2
<1>8. ASSUME NEW c \in Calls, Route(c) \/ CheckFresh(c) \/ PreLaunch(c) \/ EndCall(c)
      PROVE  WitnessInv'
  <2>1. UNCHANGED <<disk, hostConfig>>
    BY <1>8 DEF Route, CheckFresh, PreLaunch, EndCall
  <2> QED
    BY <1>3, <1>8, <2>1, CallActs
<1>9. CASE UNCHANGED capabilityVars
  <2>1. UNCHANGED <<disk, hostConfig, call>>
    BY <1>9 DEF capabilityVars
  <2>2. \A c \in Calls : W(c)'
    BY <1>a, <1>c, <2>1
  <2> QED
    BY <1>b, <2>2
<1>10. CASE \E s \in SkillDirs, kind \in Kinds : ChangeSkill(s, kind)
  BY <1>1, <1>10 DEF ChangeSkill
<1>11. CASE \E off \in SUBSET SkillDirs, readable \in BOOLEAN : ChangeConfig(off, readable)
  BY <1>1, <1>11 DEF ChangeConfig
<1> QED
  BY <1>5, <1>6, <1>7, <1>8, <1>9, <1>10, <1>11 DEF CapabilityNext

\* Every step keeps a choice within its limits, and compared or still to be.
LEMMA RouteStep ==
    CapabilityTypeOK /\ IndexInv /\ WitnessInv /\ RouteInv /\ [CapabilityNext]_capabilityVars => RouteInv'
<1> SUFFICES ASSUME CapabilityTypeOK, IndexInv, WitnessInv, RouteInv, [CapabilityNext]_capabilityVars
             PROVE  RouteInv'
  OBVIOUS
<1> DEFINE Suits(c) == HasRoute(c) =>
                          /\ call[c].asked \ Reserved \subseteq {NameOf[e.skill] : e \in call[c].route}
                          /\ \A e \in call[c].route :
                                NameOf[e.skill] \notin call[c].denied \cup Reserved /\ Compatible(e)
                          /\ call[c].route = {} \/ Fits(call[c].route)
           Stands(c) == /\ call[c].pc = "idle" => call[c].pass = 1
                        /\ call[c].pc = "launched" => call[c].pass = 2 /\ call[c].unchecked = {}
                        /\ call[c].pass = 2 /\ call[c].pc \in {"check", "launched"} =>
                              /\ \A e \in call[c].route : e.skill \in call[c].allowed \/ call[c].blind
                              /\ call[c].route \ call[c].unchecked \subseteq call[c].current
<1>a. \A c \in Calls : Suits(c) /\ Stands(c)
  BY DEF RouteInv, In
<1>b. (\A c \in Calls : (Suits(c) /\ Stands(c))') => RouteInv'
  BY DEF RouteInv, In
<1>c. \A c \in Calls : call[c] \in WorkerCalls
  BY DEF CapabilityTypeOK
<1>1. ASSUME Witnessed
      PROVE  RouteInv'
  <2>1. ASSUME NEW c \in Calls
        PROVE  (Suits(c) /\ Stands(c))'
    <3>1. /\ call'[c].pc = call[c].pc /\ call'[c].pass = call[c].pass /\ call'[c].asked = call[c].asked
          /\ call'[c].denied = call[c].denied /\ call'[c].route = call[c].route
          /\ call'[c].unchecked = call[c].unchecked
          /\ call[c].current \subseteq call'[c].current /\ call[c].allowed \subseteq call'[c].allowed
          /\ call[c].blind => call'[c].blind
      BY <1>1, <1>c DEF Witnessed, WorkerCalls
    <3> QED
      BY <1>a, <3>1 DEF HasRoute
  <2> HIDE DEF Suits, Stands
  <2> QED
    BY <1>b, <2>1
<1>2. ASSUME NEW c \in Calls, Moves(c), (Suits(c) /\ Stands(c))'
      PROVE  RouteInv'
  <2>1. \A d \in Calls \ {c} : (Suits(d) /\ Stands(d))'
    BY <1>a, <1>2 DEF Moves, HasRoute
  <2> HIDE DEF Suits, Stands
  <2> QED
    BY <1>b, <1>2, <2>1
<1>3. ASSUME NEW c \in Calls, Starts(c) \/ Refused(c)
      PROVE  RouteInv'
  <2>1. Moves(c) /\ call'[c].pass = 1 /\ call'[c].pc \in {"idle", "load"}
    BY <1>a, <1>3 DEF Starts, Refused, IdleCall
  <2>2. (Suits(c) /\ Stands(c))'
    BY <2>1 DEF HasRoute
  <2> QED
    BY <1>2, <2>1, <2>2
<1>4. ASSUME NEW c \in Calls, Moves(c), KeepsRoute(c), call[c].pc \notin {"check", "launched"},
             call'[c].pc \in Indexing \cup {"route"}
      PROVE  RouteInv'
  <2>1. (Suits(c) /\ Stands(c))'
    BY <1>a, <1>4 DEF KeepsRoute, HasRoute, Indexing
  <2> QED
    BY <1>2, <1>4, <2>1
<1>5. ASSUME NEW c \in Calls, Routed(c), call[c].pc = "route"
      PROVE  RouteInv'
  <2>1. PICK chosen \in SUBSET Candidates(c) :
           /\ Moves(c) /\ IsChoice(c, chosen) /\ ~RouteBlocked(c, chosen) /\ SameRoute(c, chosen)
           /\ call'[c].pc = "check" /\ call'[c].route = chosen /\ call'[c].unchecked = chosen
           /\ call'[c].pass = call[c].pass /\ call'[c].asked = call[c].asked
           /\ call'[c].denied = call[c].denied
           /\ call'[c].current = call[c].current /\ call'[c].allowed = call[c].allowed
           /\ call'[c].blind = call[c].blind
    BY <1>5 DEF Routed
  <2>2. call[c].asked \ Reserved \subseteq {NameOf[e.skill] : e \in chosen}
    BY <2>1 DEF RouteBlocked
  <2>3. \A e \in chosen : NameOf[e.skill] \notin call[c].denied \cup Reserved /\ Compatible(e)
    BY DEF Candidates
  <2>4. chosen = {} \/ Fits(chosen)
    BY <1>5, <2>1, ChoiceFits DEF In
  <2>5. Suits(c)'
    BY <2>1, <2>2, <2>3, <2>4
  <2>6. \A e \in chosen : e.skill \in SkillDirs \ call[c].config.off
    <3>1. chosen \subseteq call[c].catalog.entries /\ call[c].catalog.entries \subseteq Entries
      BY <1>c DEF Candidates, WorkerCalls, Catalogs
    <3>2. Sound(call[c].catalog.entries, call[c].config.off)
      BY <1>5 DEF IndexInv, In
    <3> QED
      BY <3>1, <3>2 DEF Sound, Entries
  <2>7. call[c].pass = 2 => SkillDirs \ call[c].config.off \subseteq call[c].allowed \/ call[c].blind
    BY <1>5 DEF WitnessInv, Indexing
  <2>8. Stands(c)'
    BY <2>1, <2>6, <2>7
  <2> QED
    BY <1>2, <2>1, <2>5, <2>8
<1>6. ASSUME NEW c \in Calls, Compared(c), call[c].pc = "check"
      PROVE  RouteInv'
  <2>1. PICK e \in call[c].unchecked : e.tree = disk[e.skill].tree /\ call'[c].unchecked = call[c].unchecked \ {e}
    BY <1>6 DEF Compared
  <2>2. e \in OnDisk
    BY <1>c, <2>1 DEF OnDisk, WorkerCalls
  <2>3. Moves(c) /\ KeepsRoute(c) /\ call'[c].pc = "check"
    BY <1>6 DEF Compared
  <2>4. call[c].pass = 2 => e \in call[c].current
    BY <2>2 DEF WitnessInv
  <2>5. (Suits(c) /\ Stands(c))'
    BY <1>a, <1>6, <2>1, <2>3, <2>4 DEF KeepsRoute, HasRoute
  <2> QED
    BY <1>2, <2>3, <2>5
<1>7. ASSUME NEW c \in Calls, SecondPass(c) \/ Launches(c), call[c].pc = "check"
      PROVE  RouteInv'
  <2>1. Moves(c) /\ (Suits(c) /\ Stands(c))'
    BY <1>a, <1>7 DEF SecondPass, Launches, KeepsRoute, HasRoute
  <2> QED
    BY <1>2, <2>1
<1>8. ASSUME NEW c \in Calls, BeginLoad(c) \/ ScanSkill(c) \/ EndScan(c) \/ ReadSkill(c) \/ EndLoad(c)
      PROVE  RouteInv'
  <2>1. Moves(c) /\ KeepsRoute(c) /\ call[c].pc \in {"load", "scan", "read"}
        /\ call'[c].pc \in Indexing \cup {"route"}
    BY <1>8, CallActs DEF Loads, Indexing
  <2> QED
    BY <1>4, <2>1
<1>9. ASSUME NEW c \in Calls,
             (\E request \in Requests : StartCall(c, request))
             \/ Route(c) \/ CheckFresh(c) \/ PreLaunch(c) \/ EndCall(c)
      PROVE  RouteInv'
  <2>1. /\ Route(c) => call[c].pc = "route"
        /\ CheckFresh(c) \/ PreLaunch(c) => call[c].pc = "check"
    BY DEF Route, CheckFresh, PreLaunch, In
  <2> QED
    BY <1>3, <1>5, <1>6, <1>7, <1>9, <2>1, CallActs
<1>10. CASE \E s \in SkillDirs, kind \in Kinds : ChangeSkill(s, kind)
  BY <1>1, <1>10 DEF ChangeSkill
<1>11. CASE \E off \in SUBSET SkillDirs, readable \in BOOLEAN : ChangeConfig(off, readable)
  BY <1>1, <1>11 DEF ChangeConfig
<1>12. CASE UNCHANGED capabilityVars
  <2>1. call' = call
    BY <1>12 DEF capabilityVars
  <2>2. \A c \in Calls : (Suits(c) /\ Stands(c))'
    BY <1>a, <2>1 DEF HasRoute
  <2> QED
    BY <1>b, <2>2
<1> QED
  BY <1>8, <1>9, <1>10, <1>11, <1>12 DEF CapabilityNext

\* No call has started and nothing has been read at first.
LEMMA CapabilityInitial == CapabilityInit => CapabilityInv
<1> SUFFICES ASSUME CapabilityInit
             PROVE  CapabilityInv
  OBVIOUS
<1>1. \A c \in Calls : call[c] = IdleCall
  BY DEF CapabilityInit
<1>2. IdleCall \in WorkerCalls
  BY DEF IdleCall, WorkerCalls, CallSteps, NoConfig, Configs, NoCatalog, Catalogs
<1>3. CapabilityTypeOK
  <2>1. disk \in [SkillDirs -> Files]
    <3>1. 0 \in 0 .. MaxChanges
      BY CapabilityAssumption
    <3> QED
      BY <3>1 DEF CapabilityInit, Files, Kinds
  <2>2. hostConfig \in Configs
    BY DEF CapabilityInit, NoConfig, Configs
  <2>3. call \in [Calls -> WorkerCalls]
    BY <1>2 DEF CapabilityInit
  <2>4. changes \in 0 .. MaxChanges
    BY CapabilityAssumption DEF CapabilityInit
  <2>5. index \in [lock : Calls \cup {NoCall}, signature : {index.signature},
                   catalog : Catalogs, readable : BOOLEAN]
    BY DEF CapabilityInit, NoCatalog, Catalogs
  <2> QED
    BY <2>1, <2>2, <2>3, <2>4, <2>5 DEF CapabilityTypeOK
<1>4. IndexInv
  BY <1>1, CapabilityAssumption DEF CapabilityInit, IndexInv, Sound, NoCatalog, IdleCall, Indexing, In
<1>5. WitnessInv
  BY <1>1 DEF WitnessInv, IdleCall
<1>6. RouteInv
  BY <1>1 DEF RouteInv, HasRoute, IdleCall, In
<1> QED
  BY <1>3, <1>4, <1>5, <1>6 DEF CapabilityInv

\* The index's lock, what its catalog was read under, what the user did meanwhile and
\* what each call has chosen and compared stay consistent.
THEOREM CapabilityInvariant == CapabilitySpec => []CapabilityInv
<1>1. CapabilityInv /\ [CapabilityNext]_capabilityVars => CapabilityInv'
  BY CapabilityTypeStep, IndexStep, WitnessStep, RouteStep DEF CapabilityInv
<1> QED
  BY <1>1, CapabilityInitial, PTL DEF CapabilitySpec

\* A worker starts with skills that were on disk as its prompt has them and that the
\* host allowed, as long as its policy could be read, those its task named, none it
\* refused or that are the controller's own, and within the limits.
THEOREM RoutesAreCurrent == CapabilitySpec => []LaunchedRouteCurrent
<1>1. CapabilityInv => LaunchedRouteCurrent
  <2> SUFFICES ASSUME CapabilityInv, NEW c \in Calls, In(c, "launched")
               PROVE  /\ call[c].route \subseteq call[c].current
                      /\ \A e \in call[c].route : e.skill \in call[c].allowed \/ call[c].blind
                      /\ call[c].asked \ Reserved \subseteq {NameOf[e.skill] : e \in call[c].route}
                      /\ \A e \in call[c].route : /\ NameOf[e.skill] \notin call[c].denied \cup Reserved
                                                  /\ Compatible(e)
                      /\ call[c].route = {} \/ Fits(call[c].route)
    BY DEF LaunchedRouteCurrent
  <2>1. HasRoute(c) /\ call[c].pass = 2 /\ call[c].unchecked = {} /\ call[c].pc \in {"check", "launched"}
    BY DEF CapabilityInv, RouteInv, HasRoute, In
  <2> QED
    BY <2>1 DEF CapabilityInv, RouteInv
<1> QED
  BY <1>1, CapabilityInvariant, PTL

-----------------------------------------------------------------------------
(* The parts of `MCController` together. *)

\* Each part takes its own steps, and stands still while another moves.
LEMMA ControllerPartsStepAlone ==
    ControllerSpec => Spec /\ RunSpec /\ LaneSpec /\ WorkersSpec /\ ValidationSpec
<1>1. ControllerInit => Init /\ RunInit /\ LaneInit /\ WorkersInit /\ ValidationInit
  BY DEF ControllerInit
<1>2. [ControllerStep /\ UNCHANGED part]_<<part, vars, runVars, laneVars, workerVars, validationVars>>
         => /\ [Next]_vars /\ [RunNext]_runVars /\ [LaneNext]_laneVars /\ [WorkersNext]_workerVars
            /\ [ValidationNext]_validationVars
  <2> SUFFICES ASSUME [ControllerStep /\ UNCHANGED part]_<<part, vars, runVars, laneVars, workerVars,
                                                           validationVars>>
               PROVE  /\ [Next]_vars /\ [RunNext]_runVars /\ [LaneNext]_laneVars
                      /\ [WorkersNext]_workerVars /\ [ValidationNext]_validationVars
    OBVIOUS
  <2>1. CASE ControllerStep
    BY <2>1 DEF ControllerStep
  <2>2. CASE UNCHANGED <<part, vars, runVars, laneVars, workerVars, validationVars>>
    BY <2>2
  <2> QED
    BY <2>1, <2>2
<1> QED
  BY <1>1, <1>2, PTL DEF ControllerSpec, Spec, RunSpec, LaneSpec, WorkersSpec, ValidationSpec

\* The records of all five parts keep the shape their readers rely on, for any
\* number of sessions, lanes, plans, threads and gates.
THEOREM ControllerTypesHold == ControllerSpec => []ControllerTypesOK
<1>1. DecisionInv => TypeOK
  BY DEF DecisionInv
<1>2. LaneInv => LaneTypeOK
  BY DEF LaneInv, LaneRecords
<1>3. RunInv => RunTypeOK
  BY DEF RunInv, RunRecords
<1>4. WorkersInv => WorkersTypeOK
  BY WorkersTyped DEF WorkersInv
<1>5. ValidationInv => ValidationTypeOK
  BY DEF ValidationInv
<1>6. DecisionInv /\ LaneInv /\ RunInv /\ WorkersInv /\ ValidationInv => ControllerTypesOK
  BY <1>1, <1>2, <1>3, <1>4, <1>5 DEF ControllerTypesOK
<1> QED
  BY <1>6, ControllerPartsStepAlone, DecisionInvariant, LaneInvariant, RunInvariant, WorkersInvariant,
     ValidationInvariant, PTL
=============================================================================
