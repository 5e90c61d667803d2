------------------------------ MODULE ReadOnly ------------------------------
(***************************************************************************)
(* Read-only runs of one repository and what happens to their evidence.    *)
(* _run_read_only audits an isolated copy and proves that the source did   *)
(* not change; close_terminal removes the copy and then applies the        *)
(* retention policy, which deletes OTHER runs by the status they last      *)
(* wrote, with nothing that tells it whether a controller works on them.   *)
(***************************************************************************)
EXTENDS Naturals, Sequences, FiniteSets

CONSTANTS
    Audits,      \* the read-only runs of the repository
    MaxRuns,     \* retention.max_run_count
    MaxEdits,    \* bound: edits of the source by its operator
    MaxCuts      \* bound: kills, interrupts and failing steps

ASSUME ReadOnlyAssumption == MaxRuns \in Nat \ {0} /\ MaxEdits \in Nat /\ MaxCuts \in Nat

VARIABLES
    sourceFiles, \* the version of the repository's files
    audit,       \* [Audits -> what the run's directory holds]
    auditor,     \* [Audits -> the controller working on the run]
    ages,        \* the run directories, least recently modified first
    ended,       \* history: the runs that wrote an outcome at least once
    cuts         \* faults so far

readOnlyVars == <<sourceFiles, audit, auditor, ages, ended, cuts>>

Proofs == 1 .. 3   \* source-unchanged, acceptance-evidence, intent-conformance
Terminal == {"BLOCKED", "CANCELED", "COMPLETE"}
AuditSteps == {"idle", "isolate", "gates", "audit", "prove", "deliver", "finish", "complete",
          "fail", "close", "retain", "remove", "closed"}
NoRecord == [kept |-> FALSE, phase |-> "none", final |-> "none", lifecycle |-> "none",
             workspace |-> FALSE, snapshot |-> 0, review |-> 0, locked |-> {},
             compacted |-> FALSE, remade |-> FALSE]
NoAudit == [pc |-> "idle", status |-> "none", proved |-> 0, victims |-> {}, failed |-> FALSE]

ReadOnlyTypeOK ==
    /\ sourceFiles \in 1 .. MaxEdits + 1
    /\ audit \in [Audits -> [kept : BOOLEAN, phase : {"none", "working", "BLOCKED", "COMPLETE"},
                             final : {"none", "BLOCKED", "COMPLETE"},
                             lifecycle : {"none"} \cup Terminal, workspace : BOOLEAN,
                             snapshot : 0 .. MaxEdits + 1, review : 0 .. MaxEdits + 1,
                             locked : SUBSET Proofs, compacted : BOOLEAN, remade : BOOLEAN]]
    /\ auditor \in [Audits -> [pc : AuditSteps, status : {"none"} \cup Terminal, proved : 0 .. 3,
                               victims : SUBSET (Nat \X Audits), failed : BOOLEAN]]
    /\ ages \in Seq(Audits) /\ \A i, j \in DOMAIN ages : ages[i] = ages[j] => i = j
    /\ \A r \in Audits : audit[r].kept <=> \E i \in DOMAIN ages : ages[i] = r
    /\ ended \subseteq Audits /\ cuts \in 0 .. MaxCuts

ReadOnlyInit ==
    /\ sourceFiles = 1 /\ ages = <<>> /\ ended = {} /\ cuts = 0
    /\ audit = [r \in Audits |-> NoRecord]
    /\ auditor = [r \in Audits |-> NoAudit]

AuditAt(r, pc) == auditor[r].pc = pc
Moves(r, pc) == auditor' = [auditor EXCEPT ![r].pc = pc]
Closes(r, status) == auditor' = [auditor EXCEPT ![r].pc = "close", ![r].status = status]
Cut == cuts < MaxCuts /\ cuts' = cuts + 1

\* The directories without run q's.
Without(q) ==
    IF \E i \in DOMAIN ages : ages[i] = q
    THEN LET i == CHOOSE i \in DOMAIN ages : ages[i] = q
         IN  SubSeq(ages, 1, i - 1) \o SubSeq(ages, i + 1, Len(ages))
    ELSE ages

\* Mutant: a directory written to again is listed once more.
Record_Again(r, record, touch) ==
    /\ audit' = [audit EXCEPT ![r] = [record EXCEPT !.kept = TRUE,
                                                    !.remade = @ \/ ~audit[r].kept]]
    /\ ages' = IF touch \/ ~audit[r].kept THEN Append(ages, r) ELSE ages

\* A write of run r's directory, which makes it anew when it was removed.
\* Entries made or removed directly in it change its age.
Record(r, record, touch) ==
    /\ audit' = [audit EXCEPT ![r] = [record EXCEPT !.kept = TRUE,
                                                    !.remade = @ \/ ~audit[r].kept]]
    /\ ages' = IF touch \/ ~audit[r].kept THEN Append(Without(r), r) ELSE ages
Leaves(r) == UNCHANGED <<audit, ages>>

-----------------------------------------------------------------------------
(* The audit. *)

\* A new run, or the continuation of one: a COMPLETE one returns the result it
\* wrote and is closed again, any other starts over.
OpenAudit(r) ==
    /\ AuditAt(r, "idle")
    /\ audit[r].kept \/ auditor[r].status = "none"
    /\ IF audit[r].phase = "COMPLETE"
       THEN Closes(r, audit[r].final) /\ Leaves(r)
       ELSE /\ auditor' = [auditor EXCEPT ![r] = [NoAudit EXCEPT !.pc = "isolate", !.status = "CANCELED"]]
            /\ audit' = [audit EXCEPT ![r] = [@ EXCEPT !.kept = TRUE, !.phase = "working"]]
            /\ ages' = IF audit[r].kept THEN ages ELSE Append(ages, r)
    /\ UNCHANGED <<sourceFiles, ended, cuts>>

\* The workspace of a controller that was killed is taken over; create()
\* refuses a run that has a snapshot.
Isolate(r) ==
    /\ AuditAt(r, "isolate")
    /\ IF audit[r].workspace THEN Moves(r, "gates") /\ Leaves(r)
       ELSE IF audit[r].snapshot # 0 THEN Moves(r, "fail") /\ Leaves(r)
       ELSE Moves(r, "gates")
            /\ Record(r, [audit[r] EXCEPT !.workspace = TRUE, !.snapshot = sourceFiles], TRUE)
    /\ UNCHANGED <<sourceFiles, ended, cuts>>

\* assert_source_unchanged: without the snapshot it fails as well.
SourceUnchanged(r) == audit[r].snapshot = sourceFiles

\* Every gate runs as one that is not required; then the source is compared.
Diagnose(r) ==
    /\ AuditAt(r, "gates")
    /\ Moves(r, IF SourceUnchanged(r) THEN "audit" ELSE "fail")
    /\ Leaves(r) /\ UNCHANGED <<sourceFiles, ended, cuts>>

\* A review that is there is taken as it is.
Audit(r) ==
    /\ AuditAt(r, "audit")
    /\ Moves(r, IF SourceUnchanged(r) THEN "prove" ELSE "fail")
    /\ IF audit[r].review # 0 THEN Leaves(r)
       ELSE Record(r, [audit[r] EXCEPT !.review = audit[r].snapshot], FALSE)
    /\ UNCHANGED <<sourceFiles, ended, cuts>>

\* Three locked records, one write after the other: one that an earlier
\* controller wrote is refused.
Prove(r) ==
    /\ AuditAt(r, "prove")
    /\ LET next == auditor[r].proved + 1
       IN  IF next \in audit[r].locked THEN Moves(r, "fail") /\ Leaves(r)
           ELSE /\ Record(r, [audit[r] EXCEPT !.locked = @ \cup {next}], FALSE)
                /\ auditor' = [auditor EXCEPT ![r].proved = next,
                                              ![r].pc = IF next = 3 THEN "deliver" ELSE @]
    /\ UNCHANGED <<sourceFiles, ended, cuts>>

\* The empty patch, the pending report and the capture by the operator's
\* tools; then the source once more.
DeliverAudit(r) ==
    /\ AuditAt(r, "deliver")
    /\ Moves(r, IF SourceUnchanged(r) THEN "finish" ELSE "fail")
    /\ Leaves(r) /\ UNCHANGED <<sourceFiles, ended, cuts>>

FinishAudit(r) ==
    /\ AuditAt(r, "finish")
    /\ Record(r, [audit[r] EXCEPT !.final = "COMPLETE"], FALSE) /\ Moves(r, "complete")
    /\ ended' = ended \cup {r} /\ UNCHANGED <<sourceFiles, cuts>>

CompleteAudit(r) ==
    /\ AuditAt(r, "complete")
    /\ Record(r, [audit[r] EXCEPT !.phase = "COMPLETE"], FALSE) /\ Closes(r, "COMPLETE")
    /\ UNCHANGED <<sourceFiles, ended, cuts>>

\* The handler: phase and result say BLOCKED, and the exception goes on to the
\* closeout.
FailAudit(r) ==
    /\ AuditAt(r, "fail")
    /\ Record(r, [audit[r] EXCEPT !.phase = "BLOCKED", !.final = "BLOCKED"], FALSE)
    /\ Closes(r, "BLOCKED")
    /\ ended' = ended \cup {r} /\ UNCHANGED <<sourceFiles, cuts>>

Working(r) == auditor[r].pc \in {"isolate", "gates", "audit", "prove", "deliver", "finish", "complete"}
Live(r) == ~AuditAt(r, "idle")

\* Any step of the audit can raise.
StepRaises(r) ==
    /\ Working(r) /\ Cut /\ Moves(r, "fail")
    /\ Leaves(r) /\ UNCHANGED <<sourceFiles, ended>>

\* KeyboardInterrupt passes the handler and reaches the closeout.
InterruptAudit(r) ==
    /\ Working(r) /\ Cut /\ Closes(r, "CANCELED")
    /\ Leaves(r) /\ UNCHANGED <<sourceFiles, ended>>

KillAuditor(r) ==
    /\ Live(r) /\ Cut /\ auditor' = [auditor EXCEPT ![r] = [NoAudit EXCEPT !.status = "CANCELED"]]
    /\ Leaves(r) /\ UNCHANGED <<sourceFiles, ended>>

OperatorEdits ==
    /\ sourceFiles <= MaxEdits /\ sourceFiles' = sourceFiles + 1
    /\ UNCHANGED <<audit, auditor, ages, ended, cuts>>

-----------------------------------------------------------------------------
(* The closeout. *)

\* cleanup_terminal: a workspace it cannot preserve or remove stays, and the
\* status is recorded all the same.
CleanUp(r) ==
    /\ AuditAt(r, "close")
    /\ \E stays \in {FALSE} \cup {audit[r].workspace} :
          /\ IF stays THEN Cut ELSE UNCHANGED cuts
          /\ Record(r, [audit[r] EXCEPT !.workspace = stays, !.lifecycle = auditor[r].status],
                    audit[r].workspace # stays)
          /\ auditor' = [auditor EXCEPT ![r].pc = "retain", ![r].failed = stays]
    /\ ended' = ended \cup {r} /\ UNCHANGED sourceFiles

\* Mutant: a run without a recorded end counts as an ended one.
RunStatus_Guess(r) == IF audit[r].final # "none" THEN audit[r].final ELSE "CANCELED"

\* _run_status: the result that was written last, else the status of the
\* cleanup, else the phase.
RunStatus(r) == IF audit[r].final # "none" THEN audit[r].final
                ELSE IF audit[r].lifecycle # "none" THEN audit[r].lifecycle
                ELSE audit[r].phase

\* The other runs whose status is terminal, oldest first.  Those over the age
\* limit and those over the count go: a beginning of that list.
Removable(r) == {i \in DOMAIN ages : ages[i] # r /\ RunStatus(ages[i]) \in Terminal}

\* The current run, over its size limit: the packets, jobs and plans go.
Compact(r) ==
    /\ audit[r].kept /\ RunStatus(r) = "COMPLETE"
    /\ Record(r, [audit[r] EXCEPT !.compacted = TRUE], FALSE)

ChooseRemovals(r) ==
    /\ AuditAt(r, "retain")
    /\ \E n \in 0 .. Len(ages) :
          /\ Cardinality({i \in Removable(r) : i > n}) <= MaxRuns - 1
          /\ auditor' = [auditor EXCEPT ![r].pc = "remove",
                           ![r].victims = {<<i, ages[i]>> : i \in Removable(r) \cap (1 .. n)}]
    /\ Leaves(r) \/ Compact(r)
    /\ UNCHANGED <<sourceFiles, ended, cuts>>

\* One directory after the other, on the status read before.  A run that is
\* no longer there makes the removal fail.
RemoveRun(r) ==
    /\ AuditAt(r, "remove")
    /\ \E v \in auditor[r].victims :
          /\ \A w \in auditor[r].victims : v[1] <= w[1]
          /\ audit' = [audit EXCEPT ![v[2]] = NoRecord]
          /\ ages' = Without(v[2])
          /\ auditor' = [auditor EXCEPT ![r].victims = IF audit[v[2]].kept THEN @ \ {v} ELSE {},
                                        ![r].failed = @ \/ ~audit[v[2]].kept]
    /\ UNCHANGED <<sourceFiles, ended, cuts>>

\* A COMPLETE run whose closeout failed is reported BLOCKED.
EndClose(r) ==
    /\ AuditAt(r, "remove") /\ auditor[r].victims = {}
    /\ auditor' = [auditor EXCEPT ![r] = [NoAudit EXCEPT !.status = "CANCELED"]]
    /\ IF auditor[r].status = "COMPLETE" /\ auditor[r].failed
       THEN Record(r, [audit[r] EXCEPT !.final = "BLOCKED"], FALSE) ELSE Leaves(r)
    /\ UNCHANGED <<sourceFiles, ended, cuts>>

AuditStep(r) ==
    \/ OpenAudit(r) \/ Isolate(r) \/ Diagnose(r) \/ Audit(r) \/ Prove(r) \/ DeliverAudit(r)
    \/ FinishAudit(r) \/ CompleteAudit(r) \/ FailAudit(r) \/ StepRaises(r) \/ InterruptAudit(r)
    \/ KillAuditor(r) \/ CleanUp(r) \/ ChooseRemovals(r) \/ RemoveRun(r) \/ EndClose(r)

ReadOnlyNext == OperatorEdits \/ \E r \in Audits : AuditStep(r)

ReadOnlySpec == ReadOnlyInit /\ [][ReadOnlyNext]_readOnlyVars

-----------------------------------------------------------------------------
(* What the evidence of an audit is worth, and which runs retention may take. *)

\* A directory that retention removed held a run that had ended, and a result
\* that says COMPLETE (not written into a directory that was removed under its
\* controller) stands on the audit of the snapshot and on all three proofs.
EvidenceStands ==
    \A r \in Audits :
        /\ (~audit[r].kept /\ auditor[r].status # "none") => r \in ended
        /\ (audit[r].final = "COMPLETE" /\ ~audit[r].remade)
              => audit[r].locked = Proofs /\ audit[r].review = audit[r].snapshot
        /\ audit[r].compacted => audit[r].remade \/ audit[r].final # "none"

\* Not so: a run that a controller works on is never removed under it.
LiveRunKept == \A r \in Audits : Live(r) => audit[r].kept

\* Not so: a continuation of an interrupted audit gets past its isolation.
ContinuedAuditIsolates == \A r \in Audits : AuditAt(r, "isolate") => (audit[r].workspace \/ audit[r].snapshot = 0)
=============================================================================
