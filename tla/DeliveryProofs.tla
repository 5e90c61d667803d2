--------------------------- MODULE DeliveryProofs ---------------------------
(***************************************************************************)
(* The safety properties of Delivery, proved for every set of files, every *)
(* patch and any number of faults and of the operator's edits, and         *)
(* the refinement of AtomicDelivery for a source nobody else edits.        *)
(*                                                                         *)
(* Each step of the controller relies on what the steps before it saw and  *)
(* wrote, so the invariant says what is known at each place (Known), with  *)
(* faults and the operator in between.  What makes it hold across faults   *)
(* is that the operator never adds a part of the patch (OperatorShrinks)   *)
(* and that recovery runs before anything else looks at the run's files.   *)
(***************************************************************************)
EXTENDS Delivery, TLAPS

-----------------------------------------------------------------------------
\* Steps between the transaction record and the end of git apply.
Applying == {"verify", "capture", "git", "compare", "undo", "restore", "applied"}
\* Steps from the written result to the certificate.
Concluding == {"pend", "phase", "final", "prove", "persist", "certify"}
\* Steps that take a refused result back.
Refusing == {"unbind", "unlink", "invalidate", "rewrite"}

\* What is known at each place of the controller of the transaction record and
\* of the patch in the source.
Known ==
    /\ pc = "enter" /\ tx # "none" => KeepTransaction
    /\ pc \in {"work", "conform", "check", "begin"} => tx = "none"
    /\ pc \in Applying => tx = "applying"
    /\ pc \in Concluding => tx = "none" \/ mem.result.applied
    /\ pc \in {"recovered", "clear", "unlink", "capture"} => PatchedNow = {}
    /\ pc \in {"git", "compare", "undo", "restore"} =>
          \A f \in Files : captured[f] \notin WithPatch

\* What is known of the result: COMPLETE is written to a file only in phase
\* COMPLETE, and held as the answer only with a proof that is on disk.
ResultKnown ==
    /\ final.status = "complete" => phase = "complete"
    /\ pc \in {"recover", "recovered", "enter", "work", "conform", "check"} => mem.path = "main"
    /\ pc \in {"begin", "pend"} \cup Applying =>
          (mem.path = "saved" => phase = "complete" /\ mem.result.status = "complete")
    /\ pc = "phase" => final = mem.result
    /\ pc = "final" => phase = "complete"
    /\ pc \in {"prove", "persist"} /\ mem.result.status = "complete" => phase = "complete"
    /\ pc = "persist" /\ mem.result.status = "complete" => mem.result.proof # None
    /\ pc = "persist" => mem.result.status \in {"complete", "blocked"}
    /\ pc \in Refusing => mem.result.status = "blocked" /\ final.status = "blocked"
    /\ pc = "certify" => mem.result.status = "complete"
    /\ pc \in {"certify", "close", "removing", "returned"} /\ mem.result.status = "complete" =>
          final = mem.result /\ final.proof # None /\ phase = "complete"
    /\ pc \in {"close", "removing", "returned"} /\ mem.result.status = "complete" => tx = "none"

IInv == TypeOK /\ PatchAccounted /\ Known /\ ResultKnown

\* What is known besides when nobody else edits the source.
Alone ==
    /\ edits = 0 /\ ~headMoved
    /\ \A f \in Files : source[f] \in {"old", "new"} /\ (f \notin Patched => source[f] = "old")
    /\ pc \in {"recover", "recovered", "enter", "work", "conform", "check"} => ~mem.result.applied
    /\ KeepTransaction => source = Expected
    /\ pc \in {"applied", "compare"} => source = Expected
    /\ pc \in {"pend", "phase", "final"} /\ mem.result.applied => source = Expected
    /\ pc \in {"prove", "persist", "certify"} /\ mem.result.status = "complete" /\ mem.result.applied =>
          source = Expected
    /\ pc \in {"capture", "git"} => source = Old
    /\ pc \notin {"undo", "restore"}

\* After the certificate the source holds the whole patch for good.
Delivered ==
    /\ source = Expected
    /\ tx = "none"
    /\ pc \notin {"begin", "pend", "phase", "final"} \cup Applying
    /\ final.status \in {"complete", "pending"} => final.applied
    /\ pc \in {"prove", "persist"} /\ mem.result.status = "complete" => mem.result.applied
    /\ pc \in {"recover", "recovered", "handle"} \cup TryPCs => ~mem.delivered

AloneInv == MaxEdits = 0 => Alone /\ (certified => Delivered)

-----------------------------------------------------------------------------
\* Type correctness.
LEMMA ResultTyped ==
    ASSUME NEW r \in Result
    PROVE  /\ Blocked(r) \in Result
           /\ \A b \in BOOLEAN : [r EXCEPT !.applied = b] \in Result
           /\ \A s \in {"none", "pending", "complete", "blocked", "canceled"} :
                 [r EXCEPT !.status = s] \in Result
           /\ \A t \in Trees : [r EXCEPT !.proof = t] \in Result
BY DEF Result, Blocked

\* The controller's memory keeps its type under a new result.
LEMMA MemoryTyped ==
    ASSUME NEW m \in Memory, NEW r \in Result
    PROVE  /\ [m EXCEPT !.result = r] \in Memory
           /\ m.result \in Result
BY DEF Memory

\* The memory of a process that starts is typed.
LEMMA BlankTyped ==
    /\ NoResult \in Result
    /\ \A a \in BOOLEAN : Blank(a) \in Memory
BY DEF NoResult, Result, Blank, Memory

\* The tree before the run and the tree the run delivers are trees.
LEMMA TreesTyped == Old \in Trees /\ Expected \in Trees
BY DEF Old, Expected, Trees, Text

\* git apply and git apply --reverse on some of the patch's files.
LEMMA Reversed ==
    ASSUME source \in Trees, CanReverse, NEW S \in SUBSET Patched
    PROVE  /\ Backward(S) \in Trees
           /\ \A f \in Files : /\ Backward(S)[f] \in WithPatch => source[f] \in WithPatch
                               /\ Backward(S)[f] \in Edited <=> source[f] \in Edited
           /\ \A f \in Patched : Backward(Patched)[f] \notin WithPatch
BY DeliveryAssumption DEF CanReverse, Backward, Off, Trees, Text, WithPatch, Edited

\* git apply keeps the operator's edits, whatever part of the patch it got through.
LEMMA Forwarded ==
    ASSUME source \in Trees, CanApply, NEW S \in SUBSET Patched
    PROVE  /\ Forward(S) \in Trees
           /\ \A f \in Files : Forward(S)[f] \in Edited <=> source[f] \in Edited
BY DeliveryAssumption DEF CanApply, Forward, On, Trees, Text, Unpatched, Edited

\* A rollback ends in the snapshot or fails, and never adds a part of the patch.
LEMMA RollbackDoes ==
    ASSUME TypeOK, NEW ok, NEW m, NEW failed, Rollback(ok, m, failed)
    PROVE  /\ source' \in Trees /\ faults' \in 0 .. MaxFaults
           /\ \A f \in Files : /\ source'[f] \in WithPatch => source[f] \in WithPatch
                               /\ source'[f] \in Edited <=> source[f] \in Edited
           /\ source' = source \/ CanReverse
           /\ \/ pc' = ok /\ mem' = m /\ source' = Old
              \/ pc' = failed /\ mem' = mem
<1>1. source \in Trees /\ faults \in 0 .. MaxFaults /\ MaxFaults \in Nat
  BY DeliveryAssumption DEF TypeOK
<1>2. CASE /\ CanReverse
           /\ source' = Backward(Patched)
           /\ IF source' = Old THEN Goto(ok) /\ mem' = m ELSE Goto(failed) /\ UNCHANGED mem
           /\ UNCHANGED faults
  BY <1>1, <1>2, Reversed DEF Goto
<1>3. CASE /\ ~CanReverse
           /\ Goto(failed)
           /\ UNCHANGED <<source, mem, faults>>
  BY <1>1, <1>3 DEF Goto
<1>4. CASE /\ CanReverse
           /\ Fault("git")
           /\ \E S \in (SUBSET Patched) \ {Patched} : source' = Backward(S)
           /\ Goto(failed)
           /\ UNCHANGED mem
  BY <1>1, <1>4, Reversed DEF Goto, Fault
<1> QED
  BY <1>2, <1>3, <1>4 DEF Rollback

\* The operator takes parts of the patch away and never adds one.
LEMMA OperatorShrinks ==
    ASSUME TypeOK, Operator
    PROVE  /\ source' \in Trees /\ headMoved' \in BOOLEAN /\ edits' \in 0 .. MaxEdits
           /\ \A f \in Files : source'[f] \in WithPatch => source[f] \in WithPatch
<1>1. source \in Trees /\ edits \in 0 .. MaxEdits /\ MaxEdits \in Nat /\ headMoved \in BOOLEAN
  BY DeliveryAssumption DEF TypeOK
<1>3. headMoved' \in BOOLEAN
  BY <1>1 DEF Operator
<1>4. edits' \in 0 .. MaxEdits
  BY <1>1 DEF Operator
<1>2. CASE \E f \in Files : \E t \in EditTo[source[f]] : source' = [source EXCEPT ![f] = t]
  <2>0. PICK f \in Files : \E t \in EditTo[source[f]] : source' = [source EXCEPT ![f] = t]
    BY <1>2
  <2>1. PICK t \in EditTo[source[f]] : source' = [source EXCEPT ![f] = t]
    BY <2>0
  <2>2. t \in Text /\ (t \in WithPatch => source[f] \in WithPatch)
    BY <1>1, <2>1 DEF EditTo, Trees, Text, WithPatch
  <2>3. source' \in Trees /\ \A g \in Files : source'[g] \in WithPatch => source[g] \in WithPatch
    BY <1>1, <2>1, <2>2 DEF Trees
  <2> QED
    BY <1>3, <1>4, <2>3
<1> QED
  BY <1>1, <1>2, <1>3, <1>4 DEF Operator, sourceUnchanged

\* run goes on with a saved delivery, with its saved result, or with its work.
LEMMA EnterDoes ==
    ASSUME TypeOK, Enter
    PROVE  /\ pc = "enter" /\ headMoved' = FALSE
           /\ final' \in Result /\ mem' \in Memory /\ mem'.delivered = mem.delivered
           /\ \/ final' = final
              \/ /\ final.status = "pending" /\ final'.status = "complete"
                 /\ final'.applied = final.applied
           /\ \/ /\ final.status = "complete" /\ ~final.applied
                 /\ pc' = "begin" /\ mem'.path = "saved" /\ mem'.result = final /\ final' = final
              \/ /\ phase = "complete" /\ final.status # "none"
                 /\ pc' = "prove" /\ mem'.result = final'
              \/ /\ ~(phase = "complete" /\ final.status # "none")
                 /\ pc' = "work" /\ mem'.path = mem.path /\ mem'.result = mem.result /\ final' = final
           /\ UNCHANGED <<source, phase, tx, conformance, workspace, captured, todo, faults, edits, certified>>
<1> DEFINE m == [mem EXCEPT !.pre = IF final.status = "complete" THEN final ELSE NoResult]
<1>1. /\ m \in Memory /\ m.delivered = mem.delivered /\ m.path = mem.path /\ m.result = mem.result
      /\ final \in Result /\ [final EXCEPT !.status = "complete"] \in Result
  BY ResultTyped, BlankTyped DEF TypeOK, Memory
<1>2. /\ [final EXCEPT !.status = "complete"].status = "complete"
      /\ [final EXCEPT !.status = "complete"].applied = final.applied
  BY <1>1 DEF Result
<1>3. /\ pc = "enter" /\ headMoved' = FALSE
      /\ \/ /\ final.status = "complete" /\ ~final.applied
            /\ mem' = [m EXCEPT !.result = final, !.path = "saved"]
            /\ pc' = "begin" /\ final' = final
         \/ /\ phase = "complete" /\ final.status # "none"
            /\ \/ final.status = "pending" /\ final' = [final EXCEPT !.status = "complete"]
               \/ final' = final
            /\ mem' = [m EXCEPT !.result = final'] /\ pc' = "prove"
         \/ /\ ~(phase = "complete" /\ final.status # "none")
            /\ mem' = m /\ pc' = "work" /\ final' = final
      /\ UNCHANGED <<source, phase, tx, conformance, workspace, captured, todo, faults, edits, certified>>
  BY DEF Enter, At, Goto, sourceUnchanged, scratchUnchanged
<1> HIDE DEF m
<1>4. \A r \in Result :
         /\ [m EXCEPT !.result = r] \in Memory /\ [m EXCEPT !.result = r].delivered = m.delivered
         /\ [m EXCEPT !.result = r].result = r
         /\ [m EXCEPT !.result = r, !.path = "saved"] \in Memory
         /\ [m EXCEPT !.result = r, !.path = "saved"].delivered = m.delivered
         /\ [m EXCEPT !.result = r, !.path = "saved"].result = r
         /\ [m EXCEPT !.result = r, !.path = "saved"].path = "saved"
  BY <1>1 DEF Memory
<1>5. /\ final' \in Result
      /\ final' = final \/ (final.status = "pending" /\ final'.status = "complete" /\ final'.applied = final.applied)
  BY <1>1, <1>2, <1>3
<1>6. mem' \in Memory /\ mem'.delivered = mem.delivered
  <2>1. \/ mem' = m \/ mem' = [m EXCEPT !.result = final'] \/ mem' = [m EXCEPT !.result = final, !.path = "saved"]
    BY <1>3
  <2> QED
    BY <1>1, <1>4, <1>5, <2>1
<1>7. \/ /\ final.status = "complete" /\ ~final.applied
         /\ pc' = "begin" /\ mem'.path = "saved" /\ mem'.result = final /\ final' = final
      \/ /\ phase = "complete" /\ final.status # "none"
         /\ pc' = "prove" /\ mem'.result = final'
      \/ /\ ~(phase = "complete" /\ final.status # "none")
         /\ pc' = "work" /\ mem'.path = mem.path /\ mem'.result = mem.result /\ final' = final
  BY <1>1, <1>3, <1>4, <1>5
<1> QED
  BY <1>3, <1>5, <1>6, <1>7

\* The initial states are typed.
LEMMA TypeInit == Init => TypeOK
<1>1. 0 \in 0 .. MaxFaults /\ 0 \in 0 .. MaxEdits
  BY DeliveryAssumption
<1>2. Blank(FALSE) \in Memory
  BY BlankTyped
<1> QED
  BY <1>1, <1>2, TreesTyped, BlankTyped DEF Init, TypeOK, PCs

\* Every step keeps the types.
LEMMA TypeStep == TypeOK /\ [Next]_vars => TypeOK'
<1> SUFFICES ASSUME TypeOK, [Next]_vars
             PROVE  TypeOK'
  OBVIOUS
<1> USE DEF TypeOK, Goto, At, Decide, sourceUnchanged, diskUnchanged, scratchUnchanged, worldUnchanged, disk
<1>a. /\ mem.result \in Result /\ Blocked(mem.result) \in Result
      /\ \A b \in BOOLEAN : [mem EXCEPT !.result.applied = b] \in Memory
      /\ \A s \in {"none", "pending", "complete", "blocked", "canceled"} :
            /\ [mem EXCEPT !.result.status = s] \in Memory
            /\ [mem.result EXCEPT !.status = s] \in Result
      /\ [mem EXCEPT !.result = Blocked(@)] \in Memory
      /\ \A r \in Result : [mem EXCEPT !.result = r] \in Memory
  <2>1. mem \in Memory /\ mem.result \in Result
    BY DEF Memory
  <2>2. \A r \in Result : [mem EXCEPT !.result = r] \in Memory
    BY <2>1, MemoryTyped
  <2>3. /\ \A b \in BOOLEAN :
              [mem EXCEPT !.result.applied = b] = [mem EXCEPT !.result = [mem.result EXCEPT !.applied = b]]
        /\ \A s : [mem EXCEPT !.result.status = s] = [mem EXCEPT !.result = [mem.result EXCEPT !.status = s]]
    BY <2>1 DEF Memory
  <2> QED
    BY <2>1, <2>2, <2>3, ResultTyped
<1>1. CASE \E a \in BOOLEAN : Start(a)
  BY <1>1, BlankTyped DEF Start, PCs
<1>2. CASE Recover
  BY <1>2, RollbackDoes DEF Recover, PCs, TryPCs
<1>3. CASE Recovered \/ Clear \/ Unlink
  BY <1>3 DEF Recovered, Clear, Unlink, ForgetTransaction, PCs, TryPCs, ProofPCs
<1>4. CASE Enter
  BY <1>4, EnterDoes DEF PCs, TryPCs, ProofPCs
<1>5. CASE Work \/ Conform \/ Check \/ Begin \/ Verify \/ Capture
  <2>1. CASE Work \/ Conform
    BY <2>1 DEF Work, Conform, PCs, TryPCs, ProofPCs
  <2>2. CASE Check \/ Verify
    BY <2>2 DEF Check, Verify, PCs, TryPCs, ProofPCs
  <2>3. CASE Begin
    BY <2>3, <1>a DEF Begin, PCs, TryPCs, ProofPCs
  <2>4. CASE Capture
    BY <2>4 DEF Capture, PCs, TryPCs, ProofPCs
  <2> QED
    BY <1>5, <2>1, <2>2, <2>3, <2>4
<1>6. CASE GitApply
  BY <1>6, Forwarded, DeliveryAssumption DEF GitApply, Fault, PCs, TryPCs, ProofPCs
<1>7. CASE Compare \/ Applied \/ EnterComplete \/ FinalResult \/ Pend
  <2>1. [mem EXCEPT !.delivered = TRUE, !.result.applied = TRUE] \in Memory
    BY <1>a DEF Memory
  <2> QED
    BY <1>7, <1>a, <2>1 DEF Compare, Applied, EnterComplete, FinalResult, Pend, PCs, TryPCs, ProofPCs
<1>8. CASE Undo
  <2>1. source' \in Trees /\ todo' \subseteq Files
    BY <1>8, Reversed DEF Undo
  <2>2. faults' \in 0 .. MaxFaults
    BY <1>8, DeliveryAssumption DEF Undo, Fault
  <2> QED
    BY <1>8, <2>1, <2>2 DEF Undo, PCs, TryPCs, ProofPCs
<1>9. CASE Restore
  BY <1>9 DEF Restore, Trees, PCs, TryPCs, ProofPCs
<1>10. CASE Handle \/ Unbind
  <2>1. [mem EXCEPT !.result.applied = FALSE] \in Memory
    BY <1>a
  <2>2. CASE Decide("block", mem) \/ Decide("invalidate", mem)
    BY <2>2 DEF PCs, ProofPCs
  <2>3. CASE /\ \/ Rollback("clear", [mem EXCEPT !.result.applied = FALSE], "block")
                \/ Rollback("unlink", [mem EXCEPT !.result.applied = FALSE], "invalidate")
             /\ diskUnchanged /\ scratchUnchanged
             /\ UNCHANGED <<headMoved, edits, certified>>
    <3>1. /\ source' \in Trees /\ faults' \in 0 .. MaxFaults /\ mem' \in Memory
          /\ pc' \in {"clear", "block", "unlink", "invalidate"}
      BY <2>1, <2>3, RollbackDoes
    <3> QED
      BY <2>3, <3>1 DEF PCs, ProofPCs
  <2> QED
    BY <1>10, <2>2, <2>3 DEF Handle, Unbind
<1>11. CASE Block \/ Failure \/ Prove \/ Persist \/ Invalidate \/ Rewrite \/ Certify
  <2>1. [mem EXCEPT !.result.proof = source] \in Memory
    BY <1>a, ResultTyped DEF Memory
  <2>2. CASE Block \/ Failure
    <3>1. mem' \in Memory /\ (mem' = mem \/ mem'.result = Blocked(mem.result))
      BY <2>2, <1>a DEF Block, Failure, Memory
    <3> QED
      BY <2>2, <3>1, <1>a DEF Block, Failure, PCs, ProofPCs, ClosePCs
  <2>3. CASE Prove
    BY <2>3, <1>a, <2>1 DEF Prove, PCs, ProofPCs, ClosePCs
  <2>4. CASE Persist \/ Rewrite
    BY <2>4, <1>a DEF Persist, Rewrite, PCs, ProofPCs, ClosePCs
  <2>5. CASE Invalidate
    BY <2>5 DEF Invalidate, PCs, ProofPCs, ClosePCs
  <2>6. CASE Certify
    <3>1. certified' \in BOOLEAN
      BY <2>6 DEF Certify
    <3> QED
      BY <2>6, <3>1 DEF Certify, PCs, ProofPCs, ClosePCs
  <2> QED
    BY <1>11, <2>2, <2>3, <2>4, <2>5, <2>6
<1>12. CASE Close \/ Removed
  <2>1. faults' \in 0 .. MaxFaults
    BY <1>12, DeliveryAssumption DEF Close, Removed, Fault
  <2>2. CASE Removed
    BY <2>2 DEF Removed, PCs
  <2>3. CASE Close
    <3>1. mem' \in Memory /\ final' \in Result /\ workspace' \in {"absent", "there", "torn"} /\ pc' \in PCs
      BY <2>3, <1>a DEF Close, PCs, ClosePCs, Memory
    <3> QED
      BY <2>1, <2>3, <3>1 DEF Close
  <2> QED
    BY <1>12, <2>2, <2>3
<1>13. CASE Kill \/ Interrupt \/ DiskFails
  BY <1>13, <1>a, DeliveryAssumption DEF Kill, Interrupt, DiskFails, Cut, Fault, PCs, TryPCs, ProofPCs, ClosePCs
<1>14. CASE Operator
  BY <1>14, OperatorShrinks DEF Operator
<1>15. CASE UNCHANGED vars
  BY <1>15 DEF vars
<1> QED
  BY <1>1, <1>2, <1>3, <1>4, <1>5, <1>6, <1>7, <1>8, <1>9, <1>10, <1>11, <1>12, <1>13, <1>14, <1>15
     DEF Next, Controller

-----------------------------------------------------------------------------
\* The transaction record.

\* A source that is the snapshot, or has parts of the patch taken away.
LEMMA OldUnpatched == source = Old => PatchedNow = {}
BY DEF Old, PatchedNow, WithPatch

\* Nothing of the patch is in the tree the run started from: after a step.
LEMMA OldUnpatchedNext == source' = Old => PatchedNow' = {}
BY DEF Old, PatchedNow, WithPatch

\* A step that adds no patched file leaves no more of the patch in the source.
LEMMA Shrunk ==
    (\A f \in Files : source'[f] \in WithPatch => source[f] \in WithPatch) => PatchedNow' \subseteq PatchedNow
BY DEF PatchedNow

\* The places Known speaks of.
Tracked == {"enter", "work", "conform", "check", "begin", "recovered", "clear", "unlink"}
             \cup Applying \cup Concluding

\* A step to a place of which nothing is known keeps the account, unless it
\* writes the record or adds to the patch.
LEMMA AccountElsewhere ==
    ASSUME PatchAccounted, pc' \notin Tracked, tx' = tx, PatchedNow' \subseteq PatchedNow, certified' = certified
    PROVE  PatchAccounted' /\ Known'
BY DEF PatchAccounted, Known, Tracked, Applying, Concluding

\* Every step keeps the account of the patch and what the places of a delivery know of it.
LEMMA AccountStep == TypeOK /\ PatchAccounted /\ Known /\ ResultKnown /\ [Next]_vars => PatchAccounted' /\ Known'
<1> SUFFICES ASSUME TypeOK, PatchAccounted, Known, ResultKnown, [Next]_vars
             PROVE  PatchAccounted' /\ Known'
  OBVIOUS
<1> USE DEF Goto, At, Decide, sourceUnchanged, diskUnchanged, scratchUnchanged, worldUnchanged, disk
<1>a. ASSUME source' = source
      PROVE  PatchedNow' = PatchedNow
  BY <1>a DEF PatchedNow
<1>1. CASE \E a \in BOOLEAN : Start(a)
  BY <1>1, <1>a, AccountElsewhere DEF Start, Tracked, Applying, Concluding
<1>2. CASE Recover
  <2>1. CASE tx = "none" \/ KeepTransaction
    <3>1. Decide("enter", mem)
      BY <1>2, <2>1 DEF Recover
    <3> QED
      BY <3>1, <2>1, <1>a DEF PatchAccounted, Known, KeepTransaction, Applying, Concluding
  <2>2. CASE ~(tx = "none" \/ KeepTransaction)
    <3>1. /\ tx' = tx /\ certified' = certified /\ pc' \in {"recovered", "off"}
          /\ PatchedNow' \subseteq PatchedNow
          /\ pc' = "recovered" => PatchedNow' = {}
      <4>1. CASE CanReverse
        <5>1. Rollback("recovered", mem, "off") /\ tx' = tx /\ certified' = certified
          BY <1>2, <2>2, <4>1 DEF Recover
        <5> QED
          BY <5>1, RollbackDoes, Shrunk, OldUnpatchedNext
      <4>2. CASE ~CanReverse
        BY <1>2, <1>a, <2>2, <4>2, OldUnpatched DEF Recover
      <4> QED
        BY <4>1, <4>2
    <3> QED
      BY <3>1 DEF PatchAccounted, Known, Applying, Concluding
  <2> QED
    BY <2>1, <2>2
<1>3. CASE Recovered \/ Clear \/ Unlink
  <2>1. PatchedNow' = {} /\ tx' = "none" /\ pc' \in {"enter", "block", "invalidate"}
    BY <1>3, <1>a DEF Recovered, Clear, Unlink, ForgetTransaction, Known
  <2> QED
    BY <2>1 DEF PatchAccounted, Known, Applying, Concluding
<1>4. CASE Enter
  <2>1. PatchedNow' = PatchedNow /\ tx' = tx /\ certified' = certified
    BY <1>4, <1>a, EnterDoes
  <2>2. tx # "none" => phase = "complete" /\ final.applied /\ final.status \in {"complete", "pending"}
    BY <1>4, EnterDoes DEF Known, KeepTransaction
  <2>3. /\ pc' = "begin" \/ pc' = "work" => tx = "none"
        /\ pc' = "prove" => tx = "none" \/ mem'.result.applied
        /\ pc' \in {"begin", "work", "prove"}
    BY <1>4, <2>2, EnterDoes
  <2> QED
    BY <2>1, <2>3 DEF PatchAccounted, Known, Applying, Concluding
<1>5. CASE Work \/ Conform \/ Check
  <2>1. /\ PatchedNow' = PatchedNow /\ tx' = tx /\ certified' = certified
        /\ pc' \in {"conform", "check", "begin", "pend", "handle"} /\ tx = "none"
    BY <1>5, <1>a DEF Work, Conform, Check, Known
  <2> QED
    BY <2>1 DEF PatchAccounted, Known, Applying, Concluding
<1>6. CASE Begin
  <2>1. /\ PatchedNow' = PatchedNow /\ certified' = certified /\ tx = "none"
        /\ \/ tx' = tx /\ pc' = "pend"
           \/ tx' = tx /\ pc' = "handle"
           \/ tx' = "applying" /\ pc' = "verify"
    BY <1>6, <1>a DEF Begin, Known
  <2> QED
    BY <2>1 DEF PatchAccounted, Known, Applying, Concluding
<1>7. CASE Verify \/ Capture
  <2>1. PatchedNow' = PatchedNow /\ tx' = tx /\ tx = "applying" /\ certified' = certified
    BY <1>7, <1>a DEF Verify, Capture, Known, Applying
  <2>2. CASE Verify
    BY <2>1, <2>2, OldUnpatched DEF Verify, PatchAccounted, Known, Applying, Concluding
  <2>3. CASE Capture
    <3>1. PatchedNow = {} /\ captured' = source /\ pc' = "git"
      BY <2>3 DEF Capture, Known
    <3>2. \A f \in Files : captured'[f] \notin WithPatch
      BY <3>1 DEF PatchedNow
    <3> QED
      BY <2>1, <3>1, <3>2 DEF PatchAccounted, Known, Applying, Concluding
  <2> QED
    BY <1>7, <2>2, <2>3
<1>8. CASE GitApply \/ Compare
  <2>1. /\ tx' = tx /\ tx = "applying" /\ captured' = captured
        /\ \A f \in Files : captured[f] \notin WithPatch
        /\ pc' \in {"compare", "handle", "applied", "undo"}
    BY <1>8 DEF GitApply, Compare, Known, Applying
  <2> QED
    BY <2>1 DEF PatchAccounted, Known, Applying, Concluding
<1>9. CASE Undo \/ Restore
  <2>1. /\ tx' = tx /\ tx = "applying" /\ captured' = captured
        /\ \A f \in Files : captured[f] \notin WithPatch
        /\ pc' \in {"restore", "handle"}
    BY <1>9 DEF Undo, Restore, Known, Applying
  <2> QED
    BY <2>1 DEF PatchAccounted, Known, Applying, Concluding
<1>10. CASE Applied
  <2>1. tx' = "applied" /\ mem'.result.applied /\ pc' = "pend"
    BY <1>10 DEF Applied, TypeOK, Memory, Result
  <2> QED
    BY <2>1 DEF PatchAccounted, Known, Applying, Concluding
<1>11. CASE Pend \/ EnterComplete \/ FinalResult
  <2>1. /\ PatchedNow' = PatchedNow /\ tx' = tx /\ certified' = certified
        /\ tx = "none" \/ mem.result.applied
        /\ mem'.result.applied = mem.result.applied
        /\ pc' \in {"phase", "final", "prove"}
    BY <1>11, <1>a DEF Pend, EnterComplete, FinalResult, Known, Concluding, TypeOK, Memory, Result
  <2> QED
    BY <2>1 DEF PatchAccounted, Known, Applying, Concluding
<1>12. CASE Handle \/ Unbind
  <2>1. CASE Decide("block", mem) \/ Decide("invalidate", mem)
    BY <1>a, <2>1, AccountElsewhere DEF Tracked, Applying, Concluding
  <2>2. CASE /\ \/ Rollback("clear", [mem EXCEPT !.result.applied = FALSE], "block")
                \/ Rollback("unlink", [mem EXCEPT !.result.applied = FALSE], "invalidate")
             /\ diskUnchanged
             /\ UNCHANGED <<headMoved, edits, certified>>
    <3>1. /\ PatchedNow' \subseteq PatchedNow
          /\ pc' \in {"clear", "unlink"} => PatchedNow' = {}
          /\ pc' \in {"clear", "unlink", "block", "invalidate"}
          /\ tx' = tx /\ certified' = certified
      BY <2>2, RollbackDoes, Shrunk, OldUnpatchedNext
    <3> QED
      BY <3>1 DEF PatchAccounted, Known, Applying, Concluding
  <2> QED
    BY <1>12, <2>1, <2>2 DEF Handle, Unbind
<1>13. CASE Block \/ Failure \/ Invalidate \/ Rewrite \/ Close \/ Removed
  BY <1>13, <1>a, AccountElsewhere
     DEF Block, Failure, Invalidate, Rewrite, Close, Removed, Tracked, Applying, Concluding
<1>14. CASE Prove \/ Persist
  <2>1. /\ PatchedNow' = PatchedNow /\ tx' = tx /\ certified' = certified
        /\ tx = "none" \/ mem.result.applied
        /\ mem'.result.applied = mem.result.applied
        /\ pc' \in {"close", "persist", "certify", "unbind"}
    BY <1>14, <1>a DEF Prove, Persist, Blocked, Known, Concluding, TypeOK, Memory, Result
  <2> QED
    BY <2>1 DEF PatchAccounted, Known, Applying, Concluding
<1>15. CASE Certify
  <2>1. /\ PatchedNow' = PatchedNow /\ pc' = "close" /\ tx' = "none"
        /\ certified' = (certified \/ mem.result.applied)
        /\ tx = "none" \/ mem.result.applied
    BY <1>15, <1>a DEF Certify, Known, Concluding
  <2> QED
    BY <2>1 DEF PatchAccounted, Known, Applying, Concluding
<1>16. CASE Kill \/ Interrupt \/ DiskFails
  BY <1>16, <1>a, AccountElsewhere
     DEF Kill, Interrupt, DiskFails, Cut, Tracked, Applying, Concluding
<1>17. CASE Operator
  <2>1. PatchedNow' \subseteq PatchedNow
    BY <1>17, OperatorShrinks, Shrunk
  <2>2. UNCHANGED <<phase, tx, final, pc, mem, captured, certified>>
    BY <1>17 DEF Operator
  <2> QED
    BY <2>1, <2>2 DEF PatchAccounted, Known, KeepTransaction, Applying, Concluding
<1>18. CASE UNCHANGED vars
  <2>1. PatchedNow' = PatchedNow /\ UNCHANGED <<phase, tx, final, pc, mem, captured, certified>>
    BY <1>18, <1>a DEF vars
  <2> QED
    BY <2>1 DEF PatchAccounted, Known, KeepTransaction, Applying, Concluding
<1> QED
  BY <1>1, <1>2, <1>3, <1>4, <1>5, <1>6, <1>7, <1>8, <1>9, <1>10, <1>11, <1>12, <1>13, <1>14, <1>15, <1>16,
     <1>17, <1>18 DEF Next, Controller

-----------------------------------------------------------------------------
\* The result.
LEMMA ResultStep ==
    TypeOK /\ Known /\ ResultKnown /\ [Next]_vars => ResultKnown'
<1> SUFFICES ASSUME TypeOK, Known, ResultKnown, [Next]_vars
             PROVE  ResultKnown'
  OBVIOUS
<1> USE DEF Goto, At, Decide, sourceUnchanged, diskUnchanged, scratchUnchanged, worldUnchanged, disk,
            Applying, Refusing
<1>a. /\ mem \in Memory /\ mem.result \in Result /\ final \in Result
      /\ source # None
      /\ final.status = "complete" => phase = "complete"
  BY DeliveryAssumption DEF TypeOK, Memory, Trees, Text, ResultKnown
<1>b. \A m \in Memory :
         /\ \A b : /\ [m EXCEPT !.result.applied = b].path = m.path
                   /\ [m EXCEPT !.result.applied = b].result.status = m.result.status
         /\ \A s : [m EXCEPT !.result.status = s].result.status = s
         /\ [m EXCEPT !.result = Blocked(@)].result.status = "blocked"
  BY DEF Memory, Result, Blocked
<1>1. CASE \E a \in BOOLEAN : Start(a)
  BY <1>1, <1>a DEF Start, Blank, NoResult, ResultKnown
<1>2. CASE Recover
  <2>1. mem' = mem /\ pc' \in {"enter", "recovered", "off"} /\ pc = "recover"
    BY <1>2, RollbackDoes DEF Recover
  <2>2. phase' = phase /\ final' = final
    BY <1>2 DEF Recover
  <2> QED
    BY <2>1, <2>2 DEF ResultKnown
<1>3. CASE Recovered \/ Clear \/ Unlink
  BY <1>3 DEF Recovered, Clear, Unlink, ForgetTransaction, ResultKnown
<1>4. CASE Enter
  <2>1. final.status = "pending" /\ pc' = "prove" => phase = "complete"
    BY <1>4, EnterDoes
  <2> QED
    BY <1>4, <1>a, <2>1, EnterDoes DEF ResultKnown
<1>5. CASE Work \/ Conform \/ Check \/ Verify \/ Capture \/ GitApply \/ Undo \/ Restore
  BY <1>5 DEF Work, Conform, Check, Verify, Capture, GitApply, Undo, Restore, ResultKnown
<1>6. CASE Begin \/ Compare \/ Applied
  <2>1. /\ mem'.path = mem.path /\ mem'.result.status = mem.result.status
        /\ phase' = phase /\ final' = final
    <3>1. /\ [mem EXCEPT !.delivered = TRUE, !.result.applied = TRUE].path = mem.path
          /\ [mem EXCEPT !.delivered = TRUE, !.result.applied = TRUE].result.status = mem.result.status
      BY <1>a DEF Memory, Result
    <3>2. CASE Begin
      <4>1. mem' = mem \/ mem' = [mem EXCEPT !.result.applied = TRUE]
        BY <3>2 DEF Begin
      <4>2. phase' = phase /\ final' = final
        BY <3>2 DEF Begin
      <4>3. /\ [mem EXCEPT !.result.applied = TRUE].path = mem.path
            /\ [mem EXCEPT !.result.applied = TRUE].result.status = mem.result.status
        BY <1>a DEF Memory, Result
      <4> QED
        BY <4>1, <4>2, <4>3
    <3>3. CASE Compare
      BY <3>1, <3>3, <1>a, <1>b DEF Compare
    <3>4. CASE Applied
      BY <3>4, <1>a, <1>b DEF Applied
    <3> QED
      BY <1>6, <3>2, <3>3, <3>4
  <2> QED
    BY <1>6, <2>1 DEF Begin, Compare, Applied, ResultKnown
<1>7. CASE Pend
  <2>1. /\ mem.path = "saved" => phase = "complete" /\ final'.status = "complete"
        /\ mem.path = "main" => final'.status = "pending"
        /\ mem.path \in {"main", "saved"} /\ mem'.result = final'
    BY <1>7, <1>a DEF Pend, ResultKnown, Memory, Result
  <2> QED
    BY <1>7, <2>1 DEF Pend, ResultKnown
<1>8. CASE EnterComplete \/ FinalResult
  BY <1>8, <1>a DEF EnterComplete, FinalResult, ResultKnown, Memory, Result
<1>9. CASE Handle
  <2>1. pc' \in {"clear", "block"} /\ phase' = phase /\ final' = final
    BY <1>9, RollbackDoes DEF Handle
  <2> QED
    BY <2>1, <1>a DEF ResultKnown
<1>10. CASE Block \/ Failure
  BY <1>10, <1>a, <1>b DEF Block, Failure, ResultKnown
<1>11. CASE Prove
  <2>1. /\ phase' = phase /\ final' = final /\ pc' \in {"close", "persist"}
        /\ pc' = "close" => mem'.result.status # "complete"
        /\ pc' = "persist" => /\ mem.result.status = "complete"
                              /\ mem'.result.status \in {"complete", "blocked"}
                              /\ mem'.result.status = "complete" => mem'.result.proof # None
    BY <1>11, <1>a, <1>b DEF Prove, ProofStands, Memory, Result
  <2> QED
    BY <1>11, <2>1 DEF Prove, ResultKnown
<1>12. CASE Persist
  BY <1>12, <1>a DEF Persist, ResultKnown
<1>13. CASE Unbind
  <2>1. /\ pc' \in {"unlink", "invalidate"} /\ phase' = phase /\ final' = final
        /\ mem'.result.status = mem.result.status
    <3>1. CASE tx # "none" /\ mem.result.applied
      <4>1. /\ Rollback("unlink", [mem EXCEPT !.result.applied = FALSE], "invalidate")
            /\ phase' = phase /\ final' = final
        BY <1>13, <3>1 DEF Unbind
      <4>2. [mem EXCEPT !.result.applied = FALSE].result.status = mem.result.status
        BY <1>a, <1>b
      <4> QED
        BY <4>1, <4>2, RollbackDoes
    <3>2. CASE ~(tx # "none" /\ mem.result.applied)
      BY <1>13, <3>2 DEF Unbind
    <3> QED
      BY <3>1, <3>2
  <2> QED
    BY <1>13, <2>1 DEF Unbind, ResultKnown
<1>14. CASE Invalidate \/ Rewrite \/ Certify
  BY <1>14, <1>a DEF Invalidate, Rewrite, Certify, ResultKnown
<1>15. CASE Close \/ Removed
  BY <1>15, <1>a, <1>b DEF Close, Removed, ResultKnown
<1>16. CASE Kill \/ Interrupt \/ DiskFails
  <2>a. phase' = phase /\ final' = final
    BY <1>16 DEF Kill, Interrupt, DiskFails, Cut
  <2>1. \/ pc' \in {"off", "handle", "block", "failure"}
        \/ pc' = "invalidate" /\ pc = "unlink" /\ mem' = mem
        \/ pc' = "close" /\ mem'.result.status \in {"canceled", "blocked"}
    <3>1. \/ pc' \in {"off", "handle", "block", "failure"}
          \/ pc' = "invalidate" /\ pc = "unlink" /\ mem' = mem
          \/ pc' = "close" /\ mem' = [mem EXCEPT !.result.status = "canceled"]
          \/ pc' = "close" /\ mem' = [mem EXCEPT !.result = Blocked(@)]
      BY <1>16 DEF Kill, Interrupt, DiskFails, Cut
    <3> QED
      BY <3>1, <1>a, <1>b
  <2> QED
    BY <2>a, <2>1 DEF ResultKnown
<1>17. CASE Operator \/ UNCHANGED vars
  <2>1. UNCHANGED <<phase, tx, final, pc, mem>>
    BY <1>17 DEF Operator, vars
  <2> QED
    BY <2>1 DEF ResultKnown
<1> QED
  BY <1>1, <1>2, <1>3, <1>4, <1>5, <1>6, <1>7, <1>8, <1>9, <1>10, <1>11, <1>12, <1>13, <1>14, <1>15, <1>16,
     <1>17 DEF Next, Controller

-----------------------------------------------------------------------------
\* The initial states satisfy the inductive invariant.
LEMMA InvInit == Init => IInv
<1> SUFFICES ASSUME Init
             PROVE  IInv
  OBVIOUS
<1>1. TypeOK
  BY TypeInit
<1>2. PatchedNow = {}
  BY OldUnpatched DEF Init
<1>3. ResultKnown
  BY DEF Init, ResultKnown, NoResult, Applying, Refusing
<1> QED
  BY <1>1, <1>2, <1>3 DEF Init, IInv, PatchAccounted, Known, Applying, Concluding

\* Every step keeps the inductive invariant.
LEMMA InvStep == IInv /\ [Next]_vars => IInv'
BY TypeStep, AccountStep, ResultStep DEF IInv

\* The inductive invariant behind the safety of delivery.
THEOREM DeliveryInvariant == Spec => []IInv
BY InvInit, InvStep, PTL DEF Spec

\* Every state of a delivery is well typed.
THEOREM DeliveryTypeCorrect == Spec => []TypeOK
<1>1. IInv => TypeOK
  BY DEF IInv
<1> QED
  BY <1>1, DeliveryInvariant, PTL

\* Wherever the controller stops, a part of the patch in the operator's source is
\* there under a transaction record, until a run was certified COMPLETE.
THEOREM PatchIsAccounted == Spec => []PatchAccounted
<1>1. IInv => PatchAccounted
  BY DEF IInv
<1> QED
  BY <1>1, DeliveryInvariant, PTL

\* A run that reports COMPLETE has its proof and its COMPLETE phase on disk, and
\* nothing left that a later recovery would take back.
THEOREM CompleteProven == Spec => []CompleteIsProven
<1>1. IInv => CompleteIsProven
  BY DEF IInv, ResultKnown, CompleteIsProven
<1> QED
  BY <1>1, DeliveryInvariant, PTL

\* No step of the controller loses an edit of the operator, whenever the edit
\* falls: every change of the source is git's, on files whose hunks the edit left
\* alone, or restores a file that holds exactly what the patch wrote.
THEOREM EditsKept == Spec => OperatorEditsKept
<1>1. TypeOK /\ [Next]_vars =>
         (<<pc, todo>>' # <<pc, todo>> =>
             \A f \in Files : source[f] \in Edited => source'[f] \in Edited)
  <2> SUFFICES ASSUME TypeOK, [Next]_vars, <<pc, todo>>' # <<pc, todo>>,
                      NEW f \in Files, source[f] \in Edited
               PROVE  source'[f] \in Edited
    OBVIOUS
  <2>a. source \in Trees
    BY DEF TypeOK
  <2>1. CASE Recover \/ Handle \/ Unbind
    <3>1. CASE source' = source
      BY <3>1
    <3>2. CASE source' # source
      BY <2>1, <3>2, RollbackDoes DEF Recover, Handle, Unbind, Decide, sourceUnchanged
    <3> QED
      BY <3>1, <3>2
  <2>2. CASE GitApply
    BY <2>2, <2>a, Forwarded DEF GitApply
  <2>3. CASE Undo
    BY <2>3, <2>a, Reversed DEF Undo
  <2>4. CASE Restore
    <3>1. PICK g \in Files : \/ source' = source
                             \/ source[g] = Expected[g] /\ source' = [source EXCEPT ![g] = captured[g]]
      BY <2>4, DeliveryAssumption DEF Restore, Restorable, TypeOK
    <3>2. Expected[g] \notin Edited
      BY DEF Expected, Edited
    <3> QED
      BY <2>a, <3>1, <3>2 DEF Trees
  <2>5. CASE Operator \/ UNCHANGED vars
    BY <2>5 DEF Operator, scratchUnchanged, vars
  <2>6. CASE \/ \E a \in BOOLEAN : Start(a)
             \/ Recovered \/ Enter \/ Work \/ Conform \/ Check \/ Begin \/ Verify \/ Capture \/ Compare \/ Applied
             \/ Pend \/ EnterComplete \/ FinalResult \/ Clear \/ Block \/ Failure \/ Prove \/ Persist \/ Unlink
             \/ Invalidate \/ Rewrite \/ Certify \/ Close \/ Removed \/ Kill \/ Interrupt \/ DiskFails
    BY <2>6 DEF Start, Recovered, Enter, Work, Conform, Check, Begin, Verify, Capture, Compare, Applied, Pend,
                EnterComplete, FinalResult, Clear, Block, Failure, Prove, Persist, Unlink, Invalidate, Rewrite,
                Certify, Close, Removed, Kill, Interrupt, DiskFails, Cut, ForgetTransaction, Decide, sourceUnchanged
  <2> QED
    BY <2>1, <2>2, <2>3, <2>4, <2>5, <2>6 DEF Next, Controller
<1> QED
  BY <1>1, DeliveryTypeCorrect, PTL DEF Spec, OperatorEditsKept

-----------------------------------------------------------------------------
\* Delivery is atomic.
LEMMA ExpectedDiffers == Expected # Old
BY DeliveryAssumption DEF Expected, Old

\* What git does to a source nobody edited.
LEMMA GitAlone ==
    ASSUME source \in Trees, \A f \in Files : source[f] \in {"old", "new"} /\ (f \notin Patched => source[f] = "old")
    PROVE  /\ source = Old => Forward(Patched) = Expected
           /\ CanApply => \A S \in SUBSET Patched : \A f \in Files :
                 Forward(S)[f] \in {"old", "new"} /\ (f \notin Patched => Forward(S)[f] = "old")
           /\ CanReverse => /\ source = Expected
                            /\ \A S \in SUBSET Patched : \A f \in Files :
                                  Backward(S)[f] \in {"old", "new"} /\ (f \notin Patched => Backward(S)[f] = "old")
<1>1. source = Old => Forward(Patched) = Expected
  BY DeliveryAssumption DEF Old, Forward, Expected, On
<1>2. CanApply => \A S \in SUBSET Patched : \A f \in Files :
                 Forward(S)[f] \in {"old", "new"} /\ (f \notin Patched => Forward(S)[f] = "old")
  BY DeliveryAssumption DEF CanApply, Forward, On, Unpatched
<1>3. CanReverse => source = Expected
  BY DEF CanReverse, Expected, WithPatch, Trees
<1>4. CanReverse => \A S \in SUBSET Patched : \A f \in Files :
                       Backward(S)[f] \in {"old", "new"} /\ (f \notin Patched => Backward(S)[f] = "old")
  BY DeliveryAssumption DEF CanReverse, Backward, Off, WithPatch
<1> QED
  BY <1>1, <1>2, <1>3, <1>4

\* A source nobody edited, as Alone describes it.
Plain == \A f \in Files : source[f] \in {"old", "new"} /\ (f \notin Patched => source[f] = "old")

\* Without edits of the operator a rollback leaves the source plain: old and new files only.
LEMMA RollbackAlone ==
    ASSUME TypeOK, Plain, NEW ok, NEW m, NEW failed, Rollback(ok, m, failed)
    PROVE  Plain' /\ (source' = source \/ source = Expected)
<1>1. source \in Trees
  BY DEF TypeOK
<1>2. CASE ~CanReverse
  BY <1>2 DEF Rollback, Plain
<1>3. CASE CanReverse
  <2>1. \E S \in SUBSET Patched : source' = Backward(S)
    BY <1>3 DEF Rollback
  <2> QED
    BY <1>1, <1>3, <2>1, GitAlone DEF Plain
<1> QED
  BY <1>2, <1>3

\* The initial states satisfy the invariant of a delivery the operator leaves alone.
LEMMA AloneInit == Init => AloneInv
BY DeliveryAssumption DEF Init, AloneInv, Alone, Old, NoResult, KeepTransaction, Applying

\* Every step keeps the invariant of a delivery the operator leaves alone.
LEMMA AloneStep == IInv /\ AloneInv /\ [Next]_vars => AloneInv'
<1> SUFFICES ASSUME IInv, Alone, certified => Delivered, [Next]_vars, MaxEdits = 0
             PROVE  Alone' /\ (certified' => Delivered')
  BY DEF AloneInv
<1> USE DEF Goto, At, Decide, sourceUnchanged, diskUnchanged, scratchUnchanged, worldUnchanged, disk,
            Applying
<1>a. /\ TypeOK /\ source \in Trees /\ mem \in Memory /\ mem.result \in Result /\ final \in Result
      /\ Plain /\ Expected # Old
  BY ExpectedDiffers DEF IInv, TypeOK, Memory, Alone, Plain
<1>b. ASSUME source' = source
      PROVE  Plain'
  BY <1>a, <1>b DEF Plain
<1>1. CASE \E a \in BOOLEAN : Start(a)
  <2>1. /\ UNCHANGED <<source, tx, final, headMoved, faults, edits, certified>> /\ pc' \in {"off", "recover"}
        /\ phase' = "complete" <=> phase = "complete"
        /\ ~mem'.result.applied /\ ~mem'.delivered
    BY <1>1 DEF Start, Blank, NoResult
  <2> QED
    BY <2>1, <1>b DEF KeepTransaction, Alone, Delivered, TryPCs, Plain
<1>2. CASE Recover
  <2>1. CASE tx = "none" \/ KeepTransaction
    BY <1>2, <1>b, <2>1 DEF Recover, KeepTransaction, Alone, Delivered, TryPCs, Plain
  <2>2. CASE ~(tx = "none" \/ KeepTransaction)
    <3>1. /\ ~certified /\ certified' = certified /\ edits' = edits /\ headMoved' = headMoved
          /\ phase' = phase /\ final' = final
      BY <1>2, <2>2 DEF Recover, Delivered
    <3>3. mem' = mem /\ pc' \in {"recovered", "off"}
      <4>1. CASE CanReverse
        <5>1. Rollback("recovered", mem, "off")
          BY <1>2, <2>2, <4>1 DEF Recover
        <5> QED
          BY <1>a, <5>1, RollbackDoes
      <4>2. CASE ~CanReverse
        BY <1>2, <2>2, <4>2 DEF Recover
      <4> QED
        BY <4>1, <4>2
    <3>2. Plain'
      BY <1>2, <1>a, <1>b, <2>2, RollbackAlone DEF Recover
    <3> QED
      BY <1>2, <2>2, <3>1, <3>2, <3>3 DEF Recover, KeepTransaction, Alone, Plain
  <2> QED
    BY <2>1, <2>2
<1> USE DEF KeepTransaction
<1>3. CASE Recovered \/ Clear \/ Unlink
  BY <1>3, <1>b DEF Recovered, Clear, Unlink, ForgetTransaction, Alone, Delivered, TryPCs, Plain
<1>4. CASE Enter
  <2>1. final.status = "pending" /\ final'.status = "complete" /\ pc' = "prove" => phase = "complete"
    BY <1>4, <1>a, EnterDoes
  <2>2. final.status = "complete" => phase = "complete"
    BY DEF IInv, ResultKnown
  <2>3. /\ edits' = edits /\ headMoved' = FALSE /\ Plain' /\ source' = source /\ tx' = tx /\ phase' = phase
        /\ certified' = certified /\ pc' \in {"begin", "prove", "work"} /\ mem'.delivered = mem.delivered
        /\ pc = "enter"
    BY <1>4, <1>a, <1>b, EnterDoes
  <2>4. final'.applied = final.applied /\ (final'.status = final.status \/ final.status = "pending")
    BY <1>4, <1>a, EnterDoes
  <2>5. pc' = "prove" => mem'.result = final' /\ phase = "complete"
    BY <1>4, <1>a, EnterDoes
  <2>6. pc' = "begin" => final.status = "complete" /\ ~final.applied
    BY <1>4, <1>a, EnterDoes
  <2>7. final'.status \in {"complete", "pending"} <=> final.status \in {"complete", "pending"}
    BY <1>4, <1>a, EnterDoes
  <2>8. Alone'
    <3>1. KeepTransaction' <=> KeepTransaction
      BY <2>3, <2>4, <2>7
    <3>2. pc' = "prove" /\ mem'.result.status = "complete" /\ mem'.result.applied => source = Expected
      BY <2>4, <2>5, <2>7 DEF Alone
    <3>3. pc' = "work" => ~mem'.result.applied
      BY <1>4, <1>a, EnterDoes DEF Alone
    <3> QED
      BY <2>3, <3>1, <3>2, <3>3 DEF Alone, Plain
  <2>9. certified' => Delivered'
    BY <2>3, <2>4, <2>5, <2>6, <2>7 DEF Delivered, TryPCs
  <2> QED
    BY <2>8, <2>9
<1>5. CASE Work \/ Conform \/ Check
  <2>1. /\ UNCHANGED <<source, phase, tx, final, mem, headMoved, faults, edits, certified>>
        /\ pc \in {"work", "conform", "check"}
        /\ \/ pc' \in {"conform", "check", "handle"}
           \/ pc' \in {"begin", "pend"} /\ source = Old
    BY <1>5 DEF Work, Conform, Check
  <2> QED
    BY <2>1, <1>a, <1>b DEF Alone, Delivered, TryPCs, Plain
<1>6. CASE Begin
  <2>1. ~certified /\ tx = "none" /\ ~CanReverse
    <3>1. ~certified
      BY <1>6 DEF Begin, Delivered
    <3>2. tx = "none"
      BY <1>6 DEF Begin, IInv, Known
    <3>3. PatchedNow = {}
      BY <3>1, <3>2 DEF IInv, PatchAccounted
    <3> QED
      BY <3>1, <3>2, <3>3, DeliveryAssumption DEF PatchedNow, CanReverse
  <2>2. /\ UNCHANGED <<source, phase, final, mem, headMoved, faults, edits, certified>>
        /\ pc' \in {"handle", "verify"}
    BY <1>6, <2>1 DEF Begin
  <2> QED
    BY <2>1, <2>2, <1>b DEF Alone, Plain
<1>7. CASE Verify \/ Capture
  <2>1. /\ UNCHANGED <<source, phase, tx, final, mem, headMoved, faults, edits, certified>>
        /\ ~certified
        /\ pc' = "handle" \/ (pc' \in {"capture", "git"} /\ source = Old)
    BY <1>7 DEF Verify, Capture, Alone, Delivered
  <2> QED
    BY <2>1, <1>b DEF Alone, Plain
<1>8. CASE GitApply
  <2>1. /\ UNCHANGED <<phase, tx, final, mem, headMoved, edits, certified>>
        /\ ~certified /\ source = Old /\ pc' \in {"compare", "handle"}
    BY <1>8 DEF GitApply, Alone, Delivered
  <2>2. Plain' /\ (pc' = "compare" => source' = Expected)
    <3>1. CASE source' = source /\ pc' = "handle"
      BY <1>b, <3>1
    <3>2. CASE CanApply /\ source' = Forward(Patched)
      BY <1>a, <2>1, <3>2, GitAlone DEF Plain
    <3>3. CASE CanApply /\ pc' = "handle" /\ \E S \in SUBSET Patched : source' = Forward(S)
      BY <1>a, <3>3, GitAlone DEF Plain
    <3> QED
      BY <1>8, <3>1, <3>2, <3>3 DEF GitApply
  <2>3. ~KeepTransaction
    BY <1>a, <2>1 DEF Alone
  <2> QED
    BY <2>1, <2>2, <2>3 DEF Alone, Plain
<1>9. CASE Compare \/ Applied
  <2>1. /\ UNCHANGED <<source, phase, final, headMoved, faults, edits, certified>>
        /\ ~certified /\ source = Expected /\ pc' \in {"applied", "pend"}
    BY <1>9 DEF Compare, Applied, Alone, Delivered
  <2> QED
    BY <2>1, <1>b DEF Alone, Plain
<1>10. CASE Undo \/ Restore
  BY <1>10 DEF Undo, Restore, Alone
<1>11. CASE Pend \/ EnterComplete \/ FinalResult
  <2>1. /\ UNCHANGED <<source, tx, headMoved, faults, edits, certified>>
        /\ ~certified /\ pc' \in {"phase", "final", "prove"}
        /\ mem'.result.applied = mem.result.applied
        /\ mem.result.applied => source = Expected
    BY <1>11, <1>a DEF Pend, EnterComplete, FinalResult, Alone, Delivered, Memory, Result
  <2>2. KeepTransaction' => source = Expected
    <3>1. CASE Pend \/ FinalResult
      BY <1>a, <2>1, <3>1 DEF Pend, FinalResult, Alone, Memory, Result
    <3>2. CASE EnterComplete
      BY <2>1, <3>2 DEF EnterComplete, IInv, ResultKnown
    <3> QED
      BY <1>11, <3>1, <3>2
  <2> QED
    BY <2>1, <2>2, <1>b DEF Alone, Plain
<1>12. CASE Handle
  <2>1. CASE mem.delivered /\ phase # "complete"
    <3>1. ~certified /\ UNCHANGED <<phase, final, headMoved, edits, certified>>
      BY <1>12, <2>1 DEF Handle, Delivered
    <3>2. Plain' /\ pc' \in {"clear", "block"}
      BY <1>12, <1>a, <2>1, RollbackAlone, RollbackDoes DEF Handle
    <3> QED
      BY <2>1, <3>1, <3>2 DEF Alone, Plain
  <2>2. CASE ~(mem.delivered /\ phase # "complete")
    BY <1>12, <1>b, <2>2 DEF Handle, Alone, Delivered, TryPCs, Plain
  <2> QED
    BY <2>1, <2>2
<1>13. CASE Block \/ Failure
  <2>1. /\ UNCHANGED <<source, tx, headMoved, faults, edits, certified>> /\ pc' \in {"failure", "close"}
        /\ KeepTransaction' => KeepTransaction
        /\ final' = final \/ final'.status = "blocked"
    BY <1>13, <1>a DEF Block, Failure, Blocked, Memory, Result
  <2> QED
    BY <2>1, <1>b DEF Alone, Delivered, TryPCs, Plain
<1>14. CASE Prove
  <2>1. /\ UNCHANGED <<source, phase, tx, final, headMoved, faults, edits, certified>>
        /\ pc = "prove" /\ pc' \in {"close", "persist"}
        /\ mem'.result.applied = mem.result.applied
        /\ pc' = "persist" => mem.result.status = "complete"
    BY <1>14, <1>a DEF Prove, Blocked, Memory, Result
  <2> QED
    BY <2>1, <1>b DEF Alone, Delivered, TryPCs, Plain
<1>15. CASE Persist
  <2>1. /\ UNCHANGED <<source, phase, tx, mem, headMoved, faults, edits, certified>>
        /\ pc = "persist" /\ final' = mem.result /\ mem.result.status \in {"complete", "blocked"}
        /\ pc' = IF mem.result.status = "complete" THEN "certify" ELSE "unbind"
    BY <1>15 DEF Persist, IInv, ResultKnown
  <2> QED
    BY <2>1, <1>b DEF Alone, Delivered, TryPCs, Plain
<1>16. CASE Unbind
  <2>1. CASE tx # "none" /\ mem.result.applied
    <3>1. ~certified /\ UNCHANGED <<phase, final, headMoved, edits, certified>> /\ final.status = "blocked"
      BY <1>16, <2>1 DEF Unbind, Delivered, IInv, ResultKnown, Refusing
    <3>2. Plain' /\ pc' \in {"unlink", "invalidate"}
      BY <1>16, <1>a, <2>1, RollbackAlone, RollbackDoes DEF Unbind
    <3> QED
      BY <3>1, <3>2 DEF Alone, Plain
  <2>2. CASE ~(tx # "none" /\ mem.result.applied)
    BY <1>16, <1>b, <2>2 DEF Unbind, Alone, Delivered, TryPCs, Plain
  <2> QED
    BY <2>1, <2>2
<1>17. CASE Invalidate \/ Rewrite
  <2>1. /\ UNCHANGED <<source, tx, headMoved, faults, edits, certified>> /\ pc' \in {"rewrite", "close"}
        /\ final'.status = "blocked"
    BY <1>17 DEF Invalidate, Rewrite, IInv, ResultKnown, Refusing
  <2> QED
    BY <2>1, <1>b DEF Alone, Delivered, TryPCs, Plain
<1>18. CASE Certify
  <2>1. /\ UNCHANGED <<source, phase, final, mem, headMoved, faults, edits>> /\ pc' = "close"
        /\ tx' = "none" /\ certified' = (certified \/ mem.result.applied)
        /\ mem.result.status = "complete" /\ final = mem.result
        /\ mem.result.applied => source = Expected
    BY <1>18 DEF Certify, IInv, ResultKnown, Alone
  <2>2. Alone'
    BY <2>1, <1>b DEF Alone, Plain
  <2>3. certified' => Delivered'
    BY <2>1, <1>b DEF Delivered, TryPCs
  <2> QED
    BY <2>2, <2>3
<1>19. CASE Close \/ Removed
  <2>1. /\ UNCHANGED <<source, phase, tx, headMoved, edits, certified>> /\ pc' \in {"removing", "returned"}
        /\ final' = final \/ final'.status = "blocked"
    BY <1>19, <1>a DEF Close, Removed, Blocked, Memory, Result
  <2> QED
    BY <2>1, <1>b DEF Alone, Delivered, TryPCs, Plain
<1>20. CASE Kill \/ Interrupt \/ DiskFails
  <2>1. /\ UNCHANGED <<source, phase, tx, final, headMoved, edits, certified>>
        /\ \/ pc' \in {"off", "block", "failure", "invalidate", "close"}
           \/ pc' = "handle" /\ pc \in TryPCs /\ mem' = mem
    BY <1>20 DEF Kill, Interrupt, DiskFails, Cut
  <2> QED
    BY <2>1, <1>b DEF Alone, Delivered, TryPCs, Plain
<1>21. CASE Operator
  BY <1>21 DEF Operator, Alone
<1>22. CASE UNCHANGED vars
  BY <1>22, <1>b DEF vars, Alone, Delivered, Plain
<1> QED
  BY <1>1, <1>2, <1>3, <1>4, <1>5, <1>6, <1>7, <1>8, <1>9, <1>10, <1>11, <1>12, <1>13, <1>14, <1>15, <1>16,
     <1>17, <1>18, <1>19, <1>20, <1>21, <1>22 DEF Next, Controller

\* With nobody else editing the source, it holds none of the patch until the run
\* is certified and all of it from that step on, whatever faults and restarts
\* come in between: the controller implements AtomicDelivery.
THEOREM DeliveryIsAtomic == MaxEdits = 0 => (Spec => ImplementsAtomic)
<1> SUFFICES ASSUME MaxEdits = 0
             PROVE  Spec => ImplementsAtomic
  OBVIOUS
<1> DEFINE tree == IF tx = "none" THEN PatchedNow ELSE {}
<1>1. Init => Atomic!Init
  BY OldUnpatched DEF Init, Atomic!Init
<1>2. IInv /\ AloneInv => tree = IF certified THEN Patched ELSE {}
  <2> SUFFICES ASSUME IInv, Alone, certified => Delivered
               PROVE  tree = IF certified THEN Patched ELSE {}
    BY DEF AloneInv
  <2>1. CASE certified
    BY <2>1, DeliveryAssumption DEF Delivered, Expected, PatchedNow, WithPatch
  <2>2. CASE ~certified
    BY <2>2 DEF IInv, PatchAccounted
  <2> QED
    BY <2>1, <2>2
<1>3. [Next]_vars /\ certified => certified'
  <2> SUFFICES ASSUME [Next]_vars, certified
               PROVE  certified'
    OBVIOUS
  <2> USE DEF Decide, worldUnchanged
  <2>1. CASE \E a \in BOOLEAN : Start(a)
    BY <2>1 DEF Start
  <2>2. CASE Recover \/ Recovered \/ Enter \/ Work \/ Conform \/ Check \/ Begin \/ Verify
    BY <2>2 DEF Recover, Recovered, Enter, Work, Conform, Check, Begin, Verify, ForgetTransaction
  <2>3. CASE Capture \/ GitApply \/ Compare \/ Undo \/ Restore \/ Applied \/ Pend \/ EnterComplete \/ FinalResult
    BY <2>3 DEF Capture, GitApply, Compare, Undo, Restore, Applied, Pend, EnterComplete, FinalResult
  <2>4. CASE Handle \/ Clear \/ Block \/ Failure \/ Prove \/ Persist \/ Unbind \/ Unlink
    BY <2>4 DEF Handle, Clear, Block, Failure, Prove, Persist, Unbind, Unlink, ForgetTransaction
  <2>5. CASE Invalidate \/ Rewrite \/ Certify \/ Close \/ Removed
    BY <2>5 DEF Invalidate, Rewrite, Certify, Close, Removed
  <2>6. CASE Kill \/ Interrupt \/ DiskFails \/ Operator \/ UNCHANGED vars
    BY <2>6 DEF Kill, Interrupt, DiskFails, Cut, Operator, vars
  <2> QED
    BY <2>1, <2>2, <2>3, <2>4, <2>5, <2>6 DEF Next, Controller
<1>4. TypeOK => certified \in BOOLEAN
  BY DEF TypeOK
<1>5. ASSUME IInv, AloneInv, IInv', AloneInv', [Next]_vars
      PROVE  [Atomic!Deliver]_<<tree, certified>>
  <2>1. tree = (IF certified THEN Patched ELSE {})
    BY <1>2, <1>5
  <2>2. (IInv /\ AloneInv => tree = IF certified THEN Patched ELSE {})'
    BY <1>2, PTL
  <2>3. tree' = (IF certified' THEN Patched ELSE {})
    BY <1>5, <2>2
  <2>4. certified \in BOOLEAN /\ certified' \in BOOLEAN
    BY <1>5 DEF IInv, TypeOK
  <2>5. CASE certified' = certified
    BY <2>1, <2>3, <2>5
  <2>6. CASE ~certified /\ certified' = TRUE
    BY <2>1, <2>3, <2>6 DEF Atomic!Deliver
  <2>7. certified' = certified \/ (~certified /\ certified' = TRUE)
    BY <1>3, <1>5, <2>4
  <2> QED
    BY <2>5, <2>6, <2>7
<1> QED
  BY <1>1, <1>5, AloneInit, AloneStep, DeliveryInvariant, PTL DEF Spec, ImplementsAtomic, Atomic!Spec
=============================================================================
