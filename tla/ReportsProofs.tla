---------------------------- MODULE ReportsProofs ----------------------------
(***************************************************************************)
(* Theorems about what others take Manageroo's word for: the receipt of a  *)
(* host's session, the reports of read-only runs, the handoff of the       *)
(* release-ready command and the release a packager publishes.  The parts  *)
(* share no variable; each section gives a part's inductive invariant, the *)
(* lemmas that every action keeps it, and the property that follows.       *)
(***************************************************************************)
EXTENDS MCReports, TLAPS, SequenceTheorems

-----------------------------------------------------------------------------
(* The session of a host. *)

\* A state of the session, wherever it is held: a receipt in it is of its text
\* and repository and of a run that has ended, and a complete one has the
\* receipt of its very request.
Held(s, record) ==
    /\ s.status = "none" => s = NoSession
    /\ s.status # "none" => s.generation # 0
    /\ s.receipt # 0 => record[s.receipt].pc = "done" /\ OfRequest(s, record[s.receipt].receipt)
    /\ s.status = "complete" => s.receipt # 0 /\ record[s.receipt].receipt = Identity(s)
HookCarries(h) ==
    /\ Held(hooks[h].copy, runs)
    /\ hooks[h].pc \in {"tool", "allowed", "rebound", "launch"} => hooks[h].copy.status = "active"
CaptureNew ==
    capture.pc # "none" =>
        /\ Held(capture.next, runs)
        /\ capture.pc # "kept" => capture.next.status = "active" /\ capture.next.receipt = 0
RunBound(n) ==
    /\ runs[n].pc = "working" => runs[n].of.generation # 0
    /\ runs[n].pc = "receipt" => runs[n].receipt = runs[n].of
ContinuityInv ==
    /\ ContinuityTypeOK /\ Held(session, runs) /\ CaptureNew
    /\ \A h \in Hooks : HookCarries(h)
    /\ \A n \in Runs : RunBound(n)

\* The records of the hooks, the runs and the capture.
CaptureRecords == [pc : {"none", "blank", "bind", "kept"}, next : Sessions]
HookRecords == [pc : {"none", "tool", "allowed", "rebound", "launch", "stop", "proven"}, copy : Sessions]
RunRecords == [pc : {"none", "working", "complete", "receipt", "done"}, of : Receipt, receipt : Receipt]
SessionTyped ==
    /\ session \in Sessions /\ requests \in [Generation \ {0} -> Request]
    /\ capture \in CaptureRecords
    /\ hooks \in [Hooks -> HookRecords] /\ runs \in [Runs -> RunRecords]
    /\ prompts \in 0 .. MaxPrompts /\ breaks \in 0 .. MaxBreaks

\* The type of the records, by name.
LEMMA SessionsByName == ContinuityTypeOK <=> SessionTyped
BY DEF ContinuityTypeOK, SessionTyped, CaptureRecords, HookRecords, RunRecords

\* The fields of a state of the session.
LEMMA SessionFields ==
    ASSUME NEW s \in Sessions
    PROVE  /\ s.status \in {"none", "active", "paused", "cancelled", "complete"} /\ s.text \in Texts
           /\ s.generation \in Generation /\ s.required \in BOOLEAN /\ s.repo \in Repos \cup {NoRepo}
           /\ s.request \in BOOLEAN /\ s.metadata \in Generation /\ s.receipt \in Runs \cup {0}
           /\ s.generation \in Nat
BY ContinuityAssumption DEF Sessions, Generation

\* The session that is not there.
LEMMA NoSessionTyped ==
    /\ NoSession \in Sessions /\ NoRequest \in Request /\ NoReceipt \in Receipt
    /\ \A record : Held(NoSession, record)
BY ContinuityAssumption
   DEF NoSession, NoRequest, NoReceipt, Sessions, Request, Receipt, Generation, Texts, Held

\* A state stays what it was while runs go on.
LEMMA HeldOn ==
    ASSUME NEW s \in Sessions, NEW record, NEW next, Held(s, record),
           \A n \in Runs : record[n].pc = "done" => next[n] = record[n]
    PROVE  Held(s, next)
<1>1. s.receipt \in Runs \cup {0}
  BY SessionFields
<1> QED
  BY <1>1 DEF Held

\* A request that is new, or one turn longer, has no receipt.
LEMMA TurnAdded ==
    ASSUME NEW s \in Sessions, NEW turn \in 1 .. MaxPrompts, NEW required \in BOOLEAN,
           s.status # "none" => s.generation # 0, NEW x,
           x = Started(s, turn, required) \/ (x = AddRequest(s, turn, required) /\ x.text # s.text),
           x.generation \in Generation
    PROVE  x \in Sessions /\ x.status = "active" /\ x.receipt = 0 /\ x.generation # 0
<1>1. /\ s.generation \in Nat /\ s.text \in Texts /\ 0 \in Generation
      /\ s.status \in {"none", "active", "paused", "cancelled", "complete"}
      /\ s.required \in BOOLEAN /\ s.generation \in Generation
  BY SessionFields, ContinuityAssumption DEF Generation
<1>2. CASE x = Started(s, turn, required)
  <2>1. <<turn>> \in Texts
    BY DEF Texts
  <2>2. x = [status |-> "active", text |-> <<turn>>, generation |-> s.generation + 1, required |-> required,
             repo |-> NoRepo, request |-> FALSE, metadata |-> 0, receipt |-> 0]
    BY <1>2 DEF Started, NoSession
  <2> QED
    BY <2>1, <2>2, <1>1 DEF Sessions
<1>3. CASE x # Started(s, turn, required)
  <2>1. /\ s.status \notin {"none", "complete", "paused"}
        /\ x = [s EXCEPT !.status = "active", !.text = Append(@, turn), !.required = @ \/ required,
                         !.repo = NoRepo, !.request = FALSE, !.metadata = 0, !.receipt = 0]
    BY <1>3, <1>1 DEF AddRequest
  <2>2. Append(s.text, turn) \in Texts
    BY <1>1 DEF Texts
  <2>3. /\ x.status = "active" /\ x.receipt = 0 /\ x.generation = s.generation
    BY <2>1 DEF Sessions
  <2>4. x \in Sessions
    BY <2>1, <2>2, <1>1 DEF Sessions
  <2> QED
    BY <2>1, <2>3, <2>4, <1>1
<1> QED
  BY <1>2, <1>3

\* A persisted request is the same one, or a new generation without a receipt.
LEMMA Persisting ==
    ASSUME NEW s \in Sessions, Persisted(s).generation \in Generation
    PROVE  /\ Persisted(s) \in Sessions /\ Persisted(s).status = s.status
           /\ Persisted(s).text = s.text /\ Persisted(s).repo = s.repo
           /\ Persisted(s).required = s.required
           /\ \/ Persisted(s).generation = s.generation /\ Persisted(s).receipt = s.receipt
              \/ Persisted(s).generation = s.generation + 1 /\ Persisted(s).receipt = 0
<1> DEFINE t == Advanced(s)
<1>1. t \in {s, [s EXCEPT !.generation = @ + 1, !.receipt = 0]}
  BY DEF Advanced
<1>2. Persisted(s) = [t EXCEPT !.request = TRUE, !.metadata = t.generation]
  BY DEF Persisted
<1>3. s.generation \in Nat
  BY SessionFields
<1>4. /\ t.status = s.status /\ t.text = s.text /\ t.repo = s.repo /\ t.required = s.required
      /\ \/ t.generation = s.generation /\ t.receipt = s.receipt
         \/ t.generation = s.generation + 1 /\ t.receipt = 0
  BY <1>1 DEF Sessions
<1>5. t.generation \in Generation
  <2>1. Persisted(s).generation = t.generation
    BY <1>1, <1>2 DEF Sessions
  <2> QED
    BY <2>1
<1>6. t \in Sessions
  BY <1>1, <1>4, <1>5 DEF Sessions
<1> HIDE DEF t
<1>7. /\ Persisted(s) \in Sessions /\ Persisted(s).generation = t.generation
      /\ Persisted(s).receipt = t.receipt /\ Persisted(s).status = t.status
      /\ Persisted(s).text = t.text /\ Persisted(s).repo = t.repo /\ Persisted(s).required = t.required
  BY <1>2, <1>5, <1>6 DEF Sessions
<1> QED
  BY <1>4, <1>7

\* What a capture or a hook persists holds what the state held.
LEMMA FinalizedHeld ==
    ASSUME NEW s \in Sessions, NEW record, Held(s, record), s.status # "complete",
           Finalized(s).generation \in Generation
    PROVE  /\ Finalized(s) \in Sessions /\ Held(Finalized(s), record)
           /\ Finalized(s).status = s.status /\ Finalized(s).text = s.text /\ Finalized(s).repo = s.repo
           /\ Finalized(s).generation >= s.generation /\ Finalized(s).receipt \in {0, s.receipt}
<1>1. s.generation \in Nat /\ s.receipt \in Runs \cup {0}
  BY SessionFields
<1>2. CASE ~Finalizes(s)
  BY <1>1, <1>2 DEF Finalized
<1>3. CASE Finalizes(s)
  <2> DEFINE t == Persisted(s)
  <2>1. Finalized(s) = t /\ s.status = "active"
    BY <1>3 DEF Finalized, Finalizes
  <2>2. /\ t \in Sessions /\ t.status = s.status /\ t.text = s.text /\ t.repo = s.repo
        /\ \/ t.generation = s.generation /\ t.receipt = s.receipt
           \/ t.generation = s.generation + 1 /\ t.receipt = 0
    BY <2>1, Persisting
  <2> HIDE DEF t
  <2>3. t.generation \in Nat
    BY <2>2, SessionFields
  <2>4. Held(t, record)
    <3>1. CASE t.generation = s.generation /\ t.receipt = s.receipt
      BY <1>1, <2>1, <2>2, <3>1 DEF Held, OfRequest
    <3>2. CASE t.generation = s.generation + 1 /\ t.receipt = 0
      BY <1>1, <2>1, <2>2, <3>2 DEF Held
    <3> QED
      BY <2>2, <3>1, <3>2
  <2> QED
    BY <1>1, <2>1, <2>2, <2>3, <2>4
<1> QED
  BY <1>2, <1>3

\* The requests on disk keep their type.
LEMMA WrittenTyped ==
    ASSUME requests \in [Generation \ {0} -> Request], NEW s \in Sessions,
           s.status # "none" => s.generation # 0
    PROVE  RequestWritten(s) \in [Generation \ {0} -> Request]
<1>1. s.text \in Texts /\ s.repo \in Repos \cup {NoRepo} /\ s.generation \in Generation
  BY SessionFields
<1>2. [text |-> s.text, repo |-> s.repo] \in Request
  BY <1>1 DEF Request
<1>3. CASE Finalizes(s)
  BY <1>1, <1>2, <1>3 DEF RequestWritten, Finalizes
<1>4. CASE ~Finalizes(s)
  BY <1>4 DEF RequestWritten
<1> QED
  BY <1>3, <1>4

\* A pause drops all that a resumption needs ...
LEMMA Paused ==
    ASSUME NEW s \in Sessions, NEW record, Held(s, record), s.status # "none"
    PROVE  /\ PauseRequest(s) \in Sessions /\ Held(PauseRequest(s), record)
           /\ PauseRequest(s).status = "paused" /\ PauseRequest(s).text = s.text
           /\ PauseRequest(s).generation = s.generation
<1> DEFINE t == PauseRequest(s)
<1>1. t = [s EXCEPT !.status = "paused", !.repo = NoRepo, !.request = FALSE, !.metadata = 0, !.receipt = 0]
  BY DEF PauseRequest
<1>2. 0 \in Generation
  BY ContinuityAssumption DEF Generation
<1>3. /\ t \in Sessions /\ t.status = "paused" /\ t.text = s.text /\ t.generation = s.generation
      /\ t.receipt = 0
  BY <1>1, <1>2 DEF Sessions
<1> HIDE DEF t
<1>4. Held(t, record)
  BY <1>3 DEF Held
<1> QED
  BY <1>3, <1>4 DEF t

\* ... which leaves the rest as it is.
LEMMA Resumed ==
    ASSUME NEW s \in Sessions, NEW record, Held(s, record), ResumeRequest(s) # s
    PROVE  /\ ResumeRequest(s) \in Sessions /\ Held(ResumeRequest(s), record)
           /\ ResumeRequest(s).status = "active" /\ ResumeRequest(s).text = s.text
           /\ ResumeRequest(s).generation = s.generation
<1> DEFINE t == ResumeRequest(s)
<1>1. s.status = "paused" /\ t = [s EXCEPT !.status = "active"]
  BY DEF ResumeRequest
<1>2. /\ t \in Sessions /\ t.status = "active" /\ t.text = s.text /\ t.generation = s.generation
      /\ t.receipt = s.receipt /\ t.repo = s.repo
  BY <1>1 DEF Sessions
<1> HIDE DEF t
<1>3. Held(t, record)
  BY <1>1, <1>2 DEF Held, OfRequest
<1> QED
  BY <1>2, <1>3 DEF t

\* What is put back is of the same objective, in this generation or an earlier one.
LEMMA RestoredHeld ==
    ASSUME NEW s \in Sessions, NEW before \in Sessions, NEW record, Held(before, record),
           before.status # "none", s.text = before.text, s.generation >= before.generation,
           s.status \in {"active", "paused"}, \A n \in Runs : record[n].receipt \in Receipt
    PROVE  Restored(s, before) \in Sessions /\ Held(Restored(s, before), record)
<1> DEFINE t == Restored(s, before)
           metadata == IF before.metadata = 0 THEN s.metadata ELSE before.metadata
<1>1. t = [s EXCEPT !.repo = before.repo, !.receipt = before.receipt, !.metadata = metadata]
  BY DEF Restored
<1>2. /\ metadata \in Generation /\ before.repo \in Repos \cup {NoRepo} /\ before.receipt \in Runs \cup {0}
      /\ s.generation \in Nat /\ before.generation \in Nat
  BY SessionFields
<1> HIDE DEF metadata
<1>3. /\ t \in Sessions /\ t.status = s.status /\ t.text = before.text /\ t.repo = before.repo
      /\ t.receipt = before.receipt /\ t.generation = s.generation
  BY <1>1, <1>2 DEF Sessions
<1> HIDE DEF t
<1>4. before.generation # 0
  BY DEF Held
<1>5. Held(t, record)
  <2>1. ASSUME t.receipt # 0
        PROVE  record[t.receipt].pc = "done" /\ OfRequest(t, record[t.receipt].receipt)
    <3>1. record[before.receipt].pc = "done" /\ OfRequest(before, record[before.receipt].receipt)
      BY <1>3, <2>1 DEF Held
    <3> DEFINE r == record[before.receipt].receipt
    <3>2. /\ r.text = before.text /\ r.repo = before.repo /\ r.generation <= before.generation
          /\ r.generation \in Nat
      <4>1. r \in Receipt
        BY <1>2, <1>3, <2>1
      <4>2. r.generation \in Nat
        BY <4>1, ContinuityAssumption DEF Receipt, Generation
      <4> QED
        BY <3>1, <4>2 DEF OfRequest
    <3> HIDE DEF r
    <3>3. OfRequest(t, r)
      BY <1>2, <1>3, <3>2 DEF OfRequest
    <3> QED
      BY <1>3, <3>1, <3>3 DEF r
  <2> QED
    BY <1>2, <1>3, <1>4, <2>1 DEF Held
<1> QED
  BY <1>3, <1>5 DEF t

\* The invariant over the named records.
SessionInv ==
    /\ SessionTyped /\ Held(session, runs) /\ CaptureNew
    /\ \A h \in Hooks : HookCarries(h)
    /\ \A n \in Runs : RunBound(n)

\* What has to be shown of a step: the types, and what it writes.
LEMMA WhatIsWritten ==
    ASSUME SessionInv, SessionTyped', \A n \in Runs : runs[n].pc = "done" => runs'[n] = runs[n],
           session' = session \/ Held(session', runs'),
           capture' = capture \/ CaptureNew',
           \A h \in Hooks : hooks'[h] = hooks[h] \/ HookCarries(h)',
           \A n \in Runs : runs'[n] = runs[n] \/ RunBound(n)'
    PROVE  SessionInv'
<1>1. ASSUME NEW s \in Sessions, Held(s, runs)
      PROVE  Held(s, runs')
  BY <1>1, HeldOn
<1>2. Held(session, runs)'
  <2>1. session \in Sessions /\ Held(session, runs)
    BY DEF SessionInv, SessionTyped
  <2>2. Held(session', runs')
    BY <2>1, <1>1
  <2> QED
    BY <2>2
<1>3. CaptureNew'
  <2>1. CASE capture' = capture
    <3>1. capture.next \in Sessions /\ CaptureNew
      BY DEF SessionInv, SessionTyped, CaptureRecords
    <3> QED
      BY <2>1, <3>1, <1>1 DEF CaptureNew
  <2> QED
    BY <2>1
<1>4. ASSUME NEW h \in Hooks
      PROVE  HookCarries(h)'
  <2>1. hooks[h].copy \in Sessions /\ HookCarries(h)
    BY DEF SessionInv, SessionTyped, HookRecords
  <2>2. CASE hooks'[h] = hooks[h]
    BY <2>1, <2>2, <1>1 DEF HookCarries
  <2> QED
    BY <2>2
<1>5. ASSUME NEW n \in Runs
      PROVE  RunBound(n)'
  BY DEF SessionInv, RunBound
<1> QED
  BY <1>2, <1>3, <1>4, <1>5 DEF SessionInv

\* What the invariant says of the values a step uses.
LEMMA Now ==
    ASSUME SessionInv
    PROVE  /\ session \in Sessions /\ Held(session, runs)
           /\ requests \in [Generation \ {0} -> Request]
           /\ capture.next \in Sessions /\ capture \in CaptureRecords
           /\ hooks \in [Hooks -> HookRecords] /\ runs \in [Runs -> RunRecords]
           /\ \A h \in Hooks : hooks[h].copy \in Sessions /\ Held(hooks[h].copy, runs) /\ HookCarries(h)
           /\ \A n \in Runs : runs[n].of \in Receipt /\ runs[n].receipt \in Receipt
           /\ prompts \in 0 .. MaxPrompts /\ MaxPrompts \in Nat /\ breaks \in 0 .. MaxBreaks
BY ContinuityAssumption DEF SessionInv, SessionTyped, CaptureRecords, HookRecords, RunRecords, HookCarries

\* A capture that is over holds nothing.
LEMMA CaptureGone ==
    ASSUME capture' = [pc |-> "none", next |-> NoSession]
    PROVE  capture' \in CaptureRecords /\ CaptureNew'
BY NoSessionTyped DEF CaptureRecords, CaptureNew

\* A prompt that keeps the objective: what is written, and what is put back, is
\* what the session held.
LEMMA KeepObjectiveStep == SessionInv /\ KeepObjective => SessionInv'
<1> SUFFICES ASSUME SessionInv, KeepObjective
             PROVE  SessionInv'
  OBVIOUS
<1>1. /\ prompts < MaxPrompts /\ prompts' = prompts + 1 /\ session # NoSession
      /\ UNCHANGED <<hooks, runs, breaks>>
  BY DEF KeepObjective
<1>2. prompts' \in 0 .. MaxPrompts /\ session \in Sessions /\ Held(session, runs)
      /\ session.status # "none" /\ session.generation \in Nat
      /\ requests \in [Generation \ {0} -> Request]
  BY <1>1, Now, SessionFields DEF Held
<1>3. CASE session' = session /\ UNCHANGED <<requests, capture>>
  <2>1. SessionTyped'
    BY <1>1, <1>2, <1>3 DEF SessionInv, SessionTyped
  <2> QED
    BY <1>1, <1>3, <2>1, WhatIsWritten
<1>4. CASE session' = CancelRequest(session) /\ UNCHANGED <<requests, capture>>
  <2>1. session.generation # 0
    BY <1>2 DEF Held
  <2>2. session' = [session EXCEPT !.status = "cancelled", !.required = FALSE, !.receipt = 0]
    <3>1. session' = [session EXCEPT !.status = "cancelled", !.required = FALSE, !.receipt = 0,
                                     !.generation = session.generation]
      BY <1>4, <2>1 DEF CancelRequest
    <3> QED
      BY <1>2, <3>1 DEF Sessions
  <2>3. /\ session' \in Sessions /\ session'.status = "cancelled" /\ session'.receipt = 0
        /\ session'.generation = session.generation
    BY <1>2, <2>2 DEF Sessions
  <2>4. Held(session', runs')
    BY <2>1, <2>3 DEF Held
  <2>5. SessionTyped'
    BY <1>1, <1>2, <1>4, <2>3 DEF SessionInv, SessionTyped
  <2> QED
    BY <1>1, <1>4, <2>4, <2>5, WhatIsWritten
<1>5. ASSUME NEW next \in {PauseRequest(session), ResumeRequest(session)}, next # session,
             Finalized(next).generation \in Generation, session' = Finalized(next),
             requests' = RequestWritten(Finalized(next)),
             capture' = [pc |-> "kept", next |-> Restored(Finalized(next), session)]
      PROVE  SessionInv'
  <2>1. /\ next \in Sessions /\ Held(next, runs) /\ next.text = session.text
        /\ next.generation = session.generation /\ next.status \in {"active", "paused"}
    BY <1>2, <1>5, Paused, Resumed
  <2> DEFINE s == Finalized(next)
             back == Restored(s, session)
  <2>2. /\ s \in Sessions /\ Held(s, runs) /\ s.text = session.text /\ s.generation >= session.generation
        /\ s.status \in {"active", "paused"}
    BY <1>5, <2>1, FinalizedHeld
  <2>3. session' = s /\ requests' = RequestWritten(s) /\ capture' = [pc |-> "kept", next |-> back]
    BY <1>5
  <2> HIDE DEF s
  <2>4. requests' \in [Generation \ {0} -> Request]
    BY <1>2, <2>2, <2>3, WrittenTyped DEF Held
  <2>5. back \in Sessions /\ Held(back, runs)
    BY <1>2, <2>2, RestoredHeld, Now
  <2> HIDE DEF back
  <2>6. capture' \in CaptureRecords /\ CaptureNew'
    BY <1>1, <2>3, <2>5 DEF CaptureRecords, CaptureNew
  <2>7. SessionTyped'
    BY <1>1, <1>2, <2>2, <2>3, <2>4, <2>6 DEF SessionInv, SessionTyped
  <2> QED
    BY <1>1, <2>2, <2>3, <2>6, <2>7, WhatIsWritten
<1> QED
  BY <1>3, <1>4, <1>5 DEF KeepObjective

\* The state put back is what the capture holds.
LEMMA SaveKeptStep ==
    ASSUME SessionInv, SaveKept
    PROVE  SessionInv'
<1>1. /\ capture.pc = "kept" /\ session' = capture.next
      /\ capture' = [pc |-> "none", next |-> NoSession]
      /\ UNCHANGED <<requests, hooks, runs, prompts, breaks>>
  BY DEF SaveKept
<1>2. session' \in Sessions /\ Held(session', runs')
  BY <1>1, Now DEF SessionInv, CaptureNew
<1>3. SessionTyped'
  BY <1>1, <1>2, CaptureGone DEF SessionInv, SessionTyped
<1> QED
  BY <1>1, <1>2, <1>3, CaptureGone, WhatIsWritten

\* A captured request has no receipt.
LEMMA CapturePromptStep == SessionInv /\ CapturePrompt => SessionInv'
<1> SUFFICES ASSUME SessionInv, CapturePrompt
             PROVE  SessionInv'
  OBVIOUS
<1>1. PICK named \in NamedRepos, replaces \in BOOLEAN, required \in BOOLEAN :
         LET added == IF replaces THEN Started(session, prompts', required)
                      ELSE AddRequest(session, prompts', required)
             s == Finalized(added)
         IN  /\ added.generation \in Generation /\ s.generation \in Generation
             /\ replaces \/ session.status \notin {"active", "paused"} \/ ~Conflict(session, named)
             /\ added.text # session.text
             /\ \E repo \in Binding(named, IF replaces \/ session.status = "cancelled" THEN NoRepo
                                          ELSE session.repo) :
                   capture' = [pc |-> "blank", next |-> [s EXCEPT !.repo = repo]]
             /\ requests' = RequestWritten(s)
  BY DEF CapturePrompt
<1>2. /\ prompts < MaxPrompts /\ prompts' = prompts + 1
      /\ UNCHANGED <<session, hooks, runs, breaks>>
  BY DEF CapturePrompt
<1> DEFINE added == IF replaces THEN Started(session, prompts', required)
                    ELSE AddRequest(session, prompts', required)
           s == Finalized(added)
           owner == IF replaces \/ session.status = "cancelled" THEN NoRepo ELSE session.repo
<1>3. /\ added.text # session.text /\ added.generation \in Generation /\ s.generation \in Generation
      /\ requests' = RequestWritten(s)
  BY <1>1
<1>4. PICK repo \in Binding(named, owner) : capture' = [pc |-> "blank", next |-> [s EXCEPT !.repo = repo]]
  BY <1>1
<1>5. repo \in Repos \cup {NoRepo}
  BY Now, SessionFields DEF NamedRepos, Binding
<1>6. prompts' \in 0 .. MaxPrompts /\ prompts' \in 1 .. MaxPrompts
      /\ requests \in [Generation \ {0} -> Request]
  BY <1>2, Now
<1>7. /\ added \in Sessions /\ added.status = "active" /\ added.receipt = 0 /\ added.generation # 0
  <2>1. added = Started(session, prompts', required) \/ added = AddRequest(session, prompts', required)
    OBVIOUS
  <2>2. session.status # "none" => session.generation # 0
    BY Now DEF Held
  <2> HIDE DEF added
  <2> QED
    BY <2>1, <2>2, <1>3, <1>6, Now, TurnAdded
<1> HIDE DEF added, owner
<1>8. Held(added, runs)
  BY <1>7 DEF Held
<1>9. /\ s \in Sessions /\ s.status = "active" /\ s.receipt = 0 /\ s.generation # 0
  <2>1. s \in Sessions /\ Held(s, runs) /\ s.status = "active" /\ s.receipt = 0
    BY <1>3, <1>7, <1>8, FinalizedHeld
  <2> QED
    BY <2>1 DEF Held
<1> HIDE DEF s
<1>10. requests' \in [Generation \ {0} -> Request]
  BY <1>3, <1>6, <1>9, WrittenTyped
<1>11. capture' \in CaptureRecords /\ CaptureNew'
  <2> DEFINE t == [s EXCEPT !.repo = repo]
  <2>1. t \in Sessions /\ t.status = "active" /\ t.receipt = 0 /\ t.generation = s.generation
    BY <1>5, <1>9 DEF Sessions
  <2>2. capture' = [pc |-> "blank", next |-> t]
    BY <1>4
  <2> HIDE DEF t
  <2>3. Held(t, runs')
    BY <2>1, <1>9 DEF Held
  <2> QED
    BY <2>1, <2>2, <2>3 DEF CaptureRecords, CaptureNew
<1>12. SessionTyped'
  BY <1>2, <1>6, <1>10, <1>11 DEF SessionInv, SessionTyped
<1> QED
  BY <1>2, <1>11, <1>12, WhatIsWritten

\* A rejected prompt writes nothing.
LEMMA RejectPromptStep ==
    ASSUME SessionInv, RejectPrompt
    PROVE  SessionInv'
<1>1. prompts' = prompts + 1 /\ prompts < MaxPrompts
      /\ UNCHANGED <<session, requests, capture, hooks, runs, breaks>>
  BY DEF RejectPrompt
<1>2. prompts' \in 0 .. MaxPrompts
  BY <1>1, Now
<1>3. SessionTyped'
  BY <1>1, <1>2 DEF SessionInv, SessionTyped
<1> QED
  BY <1>1, <1>3, WhatIsWritten

\* The captured request, saved before its repository is known.
LEMMA SaveBlankStep ==
    ASSUME SessionInv, SaveBlank
    PROVE  SessionInv'
<1>1. /\ capture.pc = "blank" /\ session' = [capture.next EXCEPT !.repo = NoRepo]
      /\ capture' = [capture EXCEPT !.pc = "bind"] /\ UNCHANGED <<requests, hooks, runs, prompts, breaks>>
  BY DEF SaveBlank
<1>2. capture'.pc = "bind" /\ capture'.next = capture.next /\ capture' \in CaptureRecords
  BY <1>1, Now DEF CaptureRecords
<1>3. /\ capture.next.status = "active" /\ capture.next.receipt = 0 /\ Held(capture.next, runs)
  BY <1>1 DEF SessionInv, CaptureNew
<1>4. /\ session' \in Sessions /\ session'.status = "active" /\ session'.receipt = 0
      /\ session'.generation = capture.next.generation
  BY <1>1, <1>3, Now DEF Sessions
<1>5. Held(session', runs')
  BY <1>3, <1>4 DEF Held
<1>6. SessionTyped'
  BY <1>1, <1>2, <1>4 DEF SessionInv, SessionTyped
<1>7. CaptureNew'
  BY <1>1, <1>2, <1>3 DEF CaptureNew
<1> QED
  BY <1>1, <1>5, <1>6, <1>7, WhatIsWritten

\* The captured request, saved with its repository.
LEMMA SaveBoundStep ==
    ASSUME SessionInv, SaveBound
    PROVE  SessionInv'
<1> DEFINE s == Finalized(capture.next)
<1>1. /\ capture.pc = "bind" /\ session' = s /\ requests' = RequestWritten(s) /\ s.generation \in Generation
      /\ capture' = [pc |-> "none", next |-> NoSession] /\ UNCHANGED <<hooks, runs, prompts, breaks>>
  BY DEF SaveBound
<1>2. capture.next \in Sessions /\ Held(capture.next, runs) /\ capture.next.status = "active"
      /\ requests \in [Generation \ {0} -> Request]
  BY <1>1, Now DEF SessionInv, CaptureNew
<1>3. s \in Sessions /\ Held(s, runs)
  BY <1>1, <1>2, FinalizedHeld
<1> HIDE DEF s
<1>4. requests' \in [Generation \ {0} -> Request]
  BY <1>1, <1>2, <1>3, WrittenTyped DEF Held
<1>5. SessionTyped'
  BY <1>1, <1>3, <1>4, CaptureGone DEF SessionInv, SessionTyped
<1> QED
  BY <1>1, <1>3, <1>5, CaptureGone, WhatIsWritten

\* A capture that dies leaves the session as it last saved it.
LEMMA KillCaptureStep ==
    ASSUME SessionInv, KillCapture
    PROVE  SessionInv'
<1>1. /\ UNCHANGED <<session, requests, hooks, runs, prompts>>
      /\ capture' = [pc |-> "none", next |-> NoSession]
      /\ breaks < MaxBreaks /\ breaks' = breaks + 1
  BY DEF KillCapture, Break
<1>2. breaks' \in 0 .. MaxBreaks
  BY <1>1, Now, ContinuityAssumption
<1>3. SessionTyped'
  BY <1>1, <1>2, CaptureGone DEF SessionInv, SessionTyped
<1> QED
  BY <1>1, <1>3, CaptureGone, WhatIsWritten

\* A reset leaves no session.
LEMMA ResetSessionStep ==
    ASSUME SessionInv, ResetSession
    PROVE  SessionInv'
<1>1. /\ session' = NoSession /\ requests' = [g \in Generation \ {0} |-> NoRequest]
      /\ UNCHANGED <<capture, hooks, runs, prompts>> /\ breaks < MaxBreaks /\ breaks' = breaks + 1
  BY DEF ResetSession, Break
<1>2. breaks' \in 0 .. MaxBreaks
  BY <1>1, Now, ContinuityAssumption
<1>3. Held(session', runs') /\ session' \in Sessions /\ requests' \in [Generation \ {0} -> Request]
  BY <1>1, NoSessionTyped
<1>4. SessionTyped'
  BY <1>1, <1>2, <1>3 DEF SessionInv, SessionTyped
<1> QED
  BY <1>1, <1>3, <1>4, WhatIsWritten

\* What a hook reads is the session.
LEMMA ReadForHookStep ==
    ASSUME SessionInv, NEW h \in Hooks, ReadForHook(h)
    PROVE  SessionInv'
<1>1. PICK pc \in {"tool", "stop"} :
         /\ pc = "tool" => session.status = "active"
         /\ hooks' = [hooks EXCEPT ![h] = [pc |-> pc, copy |-> session]]
  BY DEF ReadForHook, HookAt
<1>2. UNCHANGED <<session, requests, capture, runs, prompts, breaks>>
  BY DEF ReadForHook
<1>3. hooks' \in [Hooks -> HookRecords]
  BY <1>1, Now DEF HookRecords
<1>4. \A k \in Hooks : hooks'[k] = hooks[k] \/ HookCarries(k)'
  BY <1>1, <1>2, Now DEF HookCarries
<1>5. SessionTyped'
  BY <1>2, <1>3 DEF SessionInv, SessionTyped
<1> QED
  BY <1>2, <1>4, <1>5, WhatIsWritten

\* A hook that ends holds nothing.
LEMMA HookGone ==
    ASSUME SessionInv, NEW h \in Hooks, HookEnds(h)
    PROVE  hooks' \in [Hooks -> HookRecords] /\ \A k \in Hooks : hooks'[k] = hooks[k] \/ HookCarries(k)'
<1>1. hooks' = [hooks EXCEPT ![h] = [pc |-> "none", copy |-> NoSession]]
  BY DEF HookEnds, HookAt
<1>2. hooks' \in [Hooks -> HookRecords]
  BY <1>1, Now, NoSessionTyped DEF HookRecords
<1>3. Held(NoSession, runs')
  BY NoSessionTyped
<1> QED
  BY <1>1, <1>2, <1>3, Now DEF HookCarries

\* A hook that goes on with the state it has read, or a sound one.
LEMMA HookGoes ==
    ASSUME SessionInv, NEW h \in Hooks,
           NEW pc \in {"none", "tool", "allowed", "rebound", "launch", "stop", "proven"},
           NEW copy \in Sessions, Held(copy, runs),
           pc \in {"tool", "allowed", "rebound", "launch"} => copy.status = "active",
           HookAt(h, pc, copy), runs' = runs
    PROVE  hooks' \in [Hooks -> HookRecords] /\ \A k \in Hooks : hooks'[k] = hooks[k] \/ HookCarries(k)'
<1>1. hooks' \in [Hooks -> HookRecords]
  BY Now DEF HookRecords, HookAt
<1> QED
  BY <1>1, Now DEF HookCarries, HookAt

\* A hook that lets a tool pass, or dies, writes nothing.
LEMMA HookStops ==
    ASSUME SessionInv, NEW h \in Hooks, PassOrDeny(h) \/ KillHook(h)
    PROVE  SessionInv'
<1>1. HookEnds(h) /\ UNCHANGED <<session, requests, capture, runs, prompts>>
      /\ (breaks' = breaks \/ (breaks < MaxBreaks /\ breaks' = breaks + 1))
  BY DEF PassOrDeny, KillHook, Break
<1>2. breaks' \in 0 .. MaxBreaks
  BY <1>1, Now, ContinuityAssumption
<1>3. SessionTyped'
  BY <1>1, <1>2, HookGone DEF SessionInv, SessionTyped
<1> QED
  BY <1>1, <1>3, HookGone, WhatIsWritten

\* A run is allowed on the state that was read.
LEMMA AllowRunStep ==
    ASSUME SessionInv, NEW h \in Hooks, AllowRun(h)
    PROVE  SessionInv'
<1> DEFINE s == hooks[h].copy
<1>1. hooks[h].pc = "tool" /\ HookAt(h, "allowed", s)
      /\ UNCHANGED <<session, requests, capture, runs, prompts, breaks>>
  BY DEF AllowRun
<1>2. s \in Sessions /\ Held(s, runs) /\ s.status = "active"
  BY <1>1, Now DEF HookCarries
<1> HIDE DEF s
<1>3. hooks' \in [Hooks -> HookRecords] /\ \A k \in Hooks : hooks'[k] = hooks[k] \/ HookCarries(k)'
  BY <1>1, <1>2, HookGoes
<1>4. SessionTyped'
  BY <1>1, <1>3 DEF SessionInv, SessionTyped
<1> QED
  BY <1>1, <1>3, <1>4, WhatIsWritten

\* A request moved to another repository loses its receipt.
LEMMA RebindRepoStep ==
    ASSUME SessionInv, NEW h \in Hooks, RebindRepo(h)
    PROVE  SessionInv'
<1> DEFINE old == hooks[h].copy
<1>1. hooks[h].pc = "allowed" /\ UNCHANGED <<session, capture, runs, prompts, breaks>>
  BY DEF RebindRepo
<1>2. PICK repo \in Repos :
         LET s == Persisted([old EXCEPT !.repo = repo, !.receipt = 0])
         IN  /\ s.generation \in Generation /\ requests' = RequestWritten(s)
             /\ HookAt(h, "rebound", s)
  BY DEF RebindRepo
<1> DEFINE moved == [old EXCEPT !.repo = repo, !.receipt = 0]
           s == Persisted(moved)
<1>3. /\ s.generation \in Generation /\ requests' = RequestWritten(s)
      /\ HookAt(h, "rebound", s)
  BY <1>2
<1>4. old \in Sessions /\ old.status = "active" /\ Held(old, runs)
      /\ requests \in [Generation \ {0} -> Request]
  BY <1>1, Now DEF HookCarries
<1>5. /\ moved \in Sessions /\ moved.status = "active" /\ moved.receipt = 0
      /\ moved.generation = old.generation
  BY <1>4 DEF Sessions
<1>6. old.generation \in Nat /\ old.generation # 0
  BY <1>4, SessionFields DEF Held
<1> HIDE DEF moved, old
<1>7. /\ s \in Sessions /\ s.status = "active" /\ s.receipt = 0 /\ s.generation # 0
  BY <1>3, <1>5, <1>6, Persisting
<1> HIDE DEF s
<1>8. Held(s, runs)
  BY <1>7 DEF Held
<1>9. requests' \in [Generation \ {0} -> Request]
  BY <1>3, <1>4, <1>7, WrittenTyped
<1>10. hooks' \in [Hooks -> HookRecords] /\ \A k \in Hooks : hooks'[k] = hooks[k] \/ HookCarries(k)'
  BY <1>1, <1>3, <1>7, <1>8, HookGoes
<1>11. SessionTyped'
  BY <1>1, <1>9, <1>10 DEF SessionInv, SessionTyped
<1> QED
  BY <1>1, <1>10, <1>11, WhatIsWritten

\* The moved request, saved.
LEMMA SaveReboundStep ==
    ASSUME SessionInv, NEW h \in Hooks, SaveRebound(h)
    PROVE  SessionInv'
<1> DEFINE s == hooks[h].copy
<1>1. hooks[h].pc = "rebound" /\ HookAt(h, "launch", s) /\ session' = s
      /\ UNCHANGED <<requests, capture, runs, prompts, breaks>>
  BY DEF SaveRebound
<1>2. s \in Sessions /\ Held(s, runs) /\ s.status = "active"
  BY <1>1, Now DEF HookCarries
<1> HIDE DEF s
<1>3. hooks' \in [Hooks -> HookRecords] /\ \A k \in Hooks : hooks'[k] = hooks[k] \/ HookCarries(k)'
  BY <1>1, <1>2, HookGoes
<1>4. SessionTyped'
  BY <1>1, <1>2, <1>3 DEF SessionInv, SessionTyped
<1> QED
  BY <1>1, <1>2, <1>3, <1>4, WhatIsWritten

\* The state written back at a launch is the one that was read; the run is new.
LEMMA LaunchRunStep ==
    ASSUME SessionInv, NEW h \in Hooks, LaunchRun(h)
    PROVE  SessionInv'
<1> DEFINE s == hooks[h].copy
           brief == [NoReceipt EXCEPT !.generation = s.generation, !.repo = s.repo]
<1>1. /\ hooks[h].pc \in {"allowed", "launch"} /\ HookEnds(h) /\ session' = s
      /\ UNCHANGED <<requests, capture, prompts, breaks>>
  BY DEF LaunchRun
<1>2. PICK n \in Runs : runs[n].pc = "none" /\ runs' = [runs EXCEPT ![n].pc = "working", ![n].of = brief]
  BY DEF LaunchRun
<1>3. s \in Sessions /\ s.status = "active" /\ Held(s, runs)
  BY <1>1, Now DEF HookCarries
<1>4. brief \in Receipt /\ brief.generation = s.generation /\ s.generation # 0
  <2>1. s.generation # 0
    BY <1>3 DEF Held
  <2> HIDE DEF s
  <2>2. NoReceipt \in Receipt /\ s.generation \in Generation /\ s.repo \in Repos \cup {NoRepo}
    BY <1>3, NoSessionTyped, SessionFields
  <2>3. brief \in Receipt /\ brief.generation = s.generation
    BY <2>2 DEF Receipt
  <2> QED
    BY <2>1, <2>3
<1> HIDE DEF brief, s
<1>5. /\ runs' \in [Runs -> RunRecords] /\ runs'[n].pc = "working" /\ runs'[n].of = brief
      /\ \A m \in Runs \ {n} : runs'[m] = runs[m]
  BY <1>2, <1>4, Now DEF RunRecords
<1>6. \A m \in Runs : runs[m].pc = "done" => runs'[m] = runs[m]
  BY <1>2, <1>5
<1>7. Held(s, runs')
  BY <1>3, <1>6, HeldOn
<1>8. \A m \in Runs : runs'[m] = runs[m] \/ RunBound(m)'
  BY <1>4, <1>5 DEF RunBound
<1>9. SessionTyped'
  BY <1>1, <1>3, <1>5, HookGone DEF SessionInv, SessionTyped
<1> QED
  BY <1>1, <1>6, <1>7, <1>8, <1>9, HookGone, WhatIsWritten

\* A state is taken as complete on the receipt of its very request.
LEMMA StopSessionStep ==
    ASSUME SessionInv, NEW h \in Hooks, StopSession(h)
    PROVE  SessionInv'
<1> DEFINE s == hooks[h].copy
           proven == [s EXCEPT !.status = "complete"]
<1>1. UNCHANGED <<session, requests, capture, runs, prompts, breaks>>
  BY DEF StopSession
<1>2. s \in Sessions /\ Held(s, runs)
  BY Now
<1>3. CASE HookEnds(h)
  <2>1. SessionTyped'
    BY <1>1, <1>3, HookGone DEF SessionInv, SessionTyped
  <2> QED
    BY <1>1, <1>3, <2>1, HookGone, WhatIsWritten
<1>4. CASE ReceiptProves(s) /\ HookAt(h, "proven", proven)
  <2>1. HookAt(h, "proven", proven)
    BY <1>4
  <2> HIDE DEF s
  <2>2. /\ proven \in Sessions /\ proven.status = "complete" /\ proven.receipt = s.receipt
        /\ proven.generation = s.generation /\ proven.text = s.text /\ proven.repo = s.repo
    BY <1>2 DEF Sessions
  <2>3. s.status # "none"
    <3>1. NoSession.receipt = 0
      BY DEF NoSession
    <3> QED
      BY <3>1, <1>2, <1>4 DEF Held, ReceiptProves
  <2> HIDE DEF proven
  <2>4. Held(proven, runs)
    BY <1>2, <1>4, <2>2, <2>3 DEF Held, OfRequest, Identity, ReceiptProves
  <2>5. hooks' \in [Hooks -> HookRecords] /\ \A k \in Hooks : hooks'[k] = hooks[k] \/ HookCarries(k)'
    BY <1>1, <2>1, <2>2, <2>4, HookGoes
  <2>6. SessionTyped'
    BY <1>1, <2>5 DEF SessionInv, SessionTyped
  <2> QED
    BY <1>1, <2>5, <2>6, WhatIsWritten
<1> QED
  BY <1>3, <1>4 DEF StopSession

\* What the stop hook saves is what it had proven.
LEMMA SaveStoppedStep ==
    ASSUME SessionInv, NEW h \in Hooks, SaveStopped(h)
    PROVE  SessionInv'
<1>1. HookEnds(h) /\ session' = hooks[h].copy /\ UNCHANGED <<requests, capture, runs, prompts, breaks>>
  BY DEF SaveStopped
<1>2. session' \in Sessions /\ Held(session', runs')
  BY <1>1, Now
<1>3. SessionTyped'
  BY <1>1, <1>2, HookGone DEF SessionInv, SessionTyped
<1> QED
  BY <1>1, <1>2, <1>3, HookGone, WhatIsWritten

\* Loading the brief changes a run that has no receipt yet.
LEMMA LoadBriefStep ==
    ASSUME SessionInv, NEW n \in Runs, LoadBrief(n)
    PROVE  SessionInv'
<1> DEFINE request == requests[runs[n].of.generation]
           next == IF request
               = NoRequest \/ request.repo # runs[n].of.repo THEN [runs[n] EXCEPT !.pc = "done"]
                   ELSE [runs[n] EXCEPT !.pc = "complete", !.of.text = request.text]
<1>1. /\ runs[n].pc = "working" /\ runs' = [runs EXCEPT ![n] = next]
      /\ UNCHANGED <<session, requests, capture, hooks, prompts, breaks>>
  BY DEF LoadBrief
<1>2. request \in Request
  <2>1. runs[n].of.generation # 0
    BY <1>1 DEF SessionInv, RunBound
  <2> QED
    BY <2>1, Now DEF Receipt
<1>3. request.text \in Texts
  BY <1>2 DEF Request
<1> HIDE DEF request
<1>4. next \in RunRecords /\ next.pc \in {"done", "complete"}
  <2>1. runs[n] \in RunRecords /\ runs[n].of \in Receipt
    BY Now
  <2>2. [runs[n].of EXCEPT !.text = request.text] \in Receipt
    BY <1>3, <2>1 DEF Receipt
  <2>3. [runs[n] EXCEPT !.pc = "complete", !.of.text = request.text]
           = [runs[n] EXCEPT !.pc = "complete", !.of = [runs[n].of EXCEPT !.text = request.text]]
    BY <2>1 DEF RunRecords
  <2>4. /\ [runs[n] EXCEPT !.pc = "complete",
            !.of = [runs[n].of EXCEPT !.text = request.text]] \in RunRecords
        /\ [runs[n] EXCEPT !.pc = "complete",
            !.of = [runs[n].of EXCEPT !.text = request.text]].pc = "complete"
        /\ [runs[n] EXCEPT !.pc = "done"] \in RunRecords /\ [runs[n] EXCEPT !.pc = "done"].pc = "done"
    BY <2>1, <2>2 DEF RunRecords
  <2> QED
    BY <2>3, <2>4
<1> HIDE DEF next
<1>5. /\ runs' \in [Runs -> RunRecords] /\ runs'[n] = next /\ \A m \in Runs \ {n} : runs'[m] = runs[m]
  BY <1>1, <1>4, Now
<1>6. \A m \in Runs : runs[m].pc = "done" => runs'[m] = runs[m]
  BY <1>1, <1>5
<1>7. \A m \in Runs : runs'[m] = runs[m] \/ RunBound(m)'
  BY <1>4, <1>5 DEF RunBound
<1>8. SessionTyped'
  BY <1>1, <1>5 DEF SessionInv, SessionTyped
<1> QED
  BY <1>1, <1>6, <1>7, <1>8, WhatIsWritten

\* A receipt is for the request its run was bound to.
LEMMA WriteReceiptStep ==
    ASSUME SessionInv, NEW n \in Runs, WriteReceipt(n)
    PROVE  SessionInv'
<1>1. /\ runs[n].pc = "complete"
      /\ runs' \in {[runs EXCEPT ![n].pc = "receipt", ![n].receipt = runs[n].of],
                    [runs EXCEPT ![n].pc = "done"]}
      /\ UNCHANGED <<session, requests, capture, hooks, prompts, breaks>>
  BY DEF WriteReceipt
<1>2. runs[n] \in RunRecords /\ runs[n].of \in Receipt
  BY Now
<1>3. /\ runs' \in [Runs -> RunRecords] /\ runs'[n].pc \in {"receipt", "done"}
      /\ runs'[n].pc = "receipt" => runs'[n].receipt = runs'[n].of
      /\ \A m \in Runs \ {n} : runs'[m] = runs[m]
  <2>1. CASE runs' = [runs EXCEPT ![n].pc = "receipt", ![n].receipt = runs[n].of]
    BY <1>2, <2>1, Now DEF RunRecords
  <2>2. CASE runs' = [runs EXCEPT ![n].pc = "done"]
    BY <1>2, <2>2, Now DEF RunRecords
  <2> QED
    BY <1>1, <2>1, <2>2
<1>4. \A m \in Runs : runs[m].pc = "done" => runs'[m] = runs[m]
  BY <1>1, <1>3
<1>5. \A m \in Runs : runs'[m] = runs[m] \/ RunBound(m)'
  BY <1>3 DEF RunBound
<1>6. SessionTyped'
  BY <1>1, <1>3 DEF SessionInv, SessionTyped
<1> QED
  BY <1>1, <1>4, <1>5, <1>6, WhatIsWritten

\* The session takes a receipt only for the request it has.
LEMMA BindReceiptStep ==
    ASSUME SessionInv, NEW n \in Runs, BindReceipt(n)
    PROVE  SessionInv'
<1> DEFINE bound == [session EXCEPT !.receipt = n]
<1>1. /\ runs[n].pc = "receipt" /\ runs' = [runs EXCEPT ![n].pc = "done"]
      /\ session' = IF Identity(session) = runs[n].of /\ session.request THEN bound ELSE session
      /\ UNCHANGED <<requests, capture, hooks, prompts, breaks>>
  BY DEF BindReceipt
<1>2. runs[n] \in RunRecords /\ session \in Sessions /\ Held(session, runs)
      /\ runs[n].receipt = runs[n].of
  BY <1>1, Now DEF SessionInv, RunBound
<1>3. /\ runs' \in [Runs -> RunRecords] /\ runs'[n].pc = "done" /\ runs'[n].receipt = runs[n].receipt
      /\ \A m \in Runs \ {n} : runs'[m] = runs[m]
  BY <1>1, <1>2, Now DEF RunRecords
<1>4. \A m \in Runs : runs[m].pc = "done" => runs'[m] = runs[m]
  BY <1>1, <1>3
<1>5. ASSUME Identity(session) = runs[n].of, session.request
      PROVE  session' \in Sessions /\ Held(session', runs')
  <2>1. /\ bound \in Sessions /\ bound.receipt = n /\ bound.status = session.status
        /\ bound.generation = session.generation /\ bound.text = session.text /\ bound.repo = session.repo
    BY <1>2 DEF Sessions
  <2>2. session.status # "none"
    <3>1. NoSession.request = FALSE
      BY DEF NoSession
    <3> QED
      BY <3>1, <1>2, <1>5 DEF Held
  <2>3. n # 0 /\ session' = bound
    BY <1>1, <1>5, ContinuityAssumption
  <2> HIDE DEF bound
  <2>5. session.generation \in Nat
    BY <1>2, SessionFields
  <2>4. Held(bound, runs')
    BY <1>1, <1>2, <1>3, <1>5, <2>1, <2>2, <2>3, <2>5 DEF Held, OfRequest, Identity
  <2> QED
    BY <2>1, <2>3, <2>4
<1>6. ASSUME ~(Identity(session) = runs[n].of /\ session.request)
      PROVE  session' = session
  BY <1>1, <1>6
<1>7. session' \in Sessions /\ (session' = session \/ Held(session', runs'))
  BY <1>2, <1>5, <1>6
<1>8. \A m \in Runs : runs'[m] = runs[m] \/ RunBound(m)'
  BY <1>3 DEF RunBound
<1>9. SessionTyped'
  BY <1>1, <1>3, <1>7 DEF SessionInv, SessionTyped
<1> QED
  BY <1>1, <1>4, <1>7, <1>8, <1>9, WhatIsWritten

\* Every step of the session keeps its invariant.
LEMMA SessionStep == SessionInv /\ [ContinuityNext]_continuityVars => SessionInv'
<1> SUFFICES ASSUME SessionInv, [ContinuityNext]_continuityVars
             PROVE  SessionInv'
  OBVIOUS
<1>1. CASE ContinuityNext
  BY <1>1, KeepObjectiveStep, SaveKeptStep, RejectPromptStep, CapturePromptStep, SaveBlankStep,
     SaveBoundStep, KillCaptureStep, ResetSessionStep, ReadForHookStep, HookStops, AllowRunStep,
     RebindRepoStep, SaveReboundStep, LaunchRunStep, StopSessionStep, SaveStoppedStep,
     LoadBriefStep, WriteReceiptStep, BindReceiptStep
     DEF ContinuityNext
<1>2. CASE UNCHANGED continuityVars
  <2>1. UNCHANGED <<session, requests, capture, hooks, runs, prompts, breaks>>
    BY <1>2 DEF continuityVars
  <2>2. SessionTyped'
    BY <2>1 DEF SessionInv, SessionTyped
  <2> QED
    BY <2>1, <2>2, WhatIsWritten
<1> QED
  BY <1>1, <1>2

\* The initial state of the session.
LEMMA SessionStarts == ContinuityInit => SessionInv
<1> SUFFICES ASSUME ContinuityInit
             PROVE  SessionInv
  OBVIOUS
<1>1. /\ MaxPrompts \in Nat /\ MaxBreaks \in Nat /\ prompts \in 0 .. MaxPrompts /\ breaks \in 0 .. MaxBreaks
  BY ContinuityAssumption DEF ContinuityInit
<1>2. SessionTyped
  BY <1>1, NoSessionTyped DEF ContinuityInit, SessionTyped, CaptureRecords, HookRecords, RunRecords
<1>3. Held(session, runs) /\ \A h \in Hooks : HookCarries(h)
  BY <1>1, NoSessionTyped DEF ContinuityInit, HookCarries
<1>4. CaptureNew /\ \A n \in Runs : RunBound(n)
  BY DEF ContinuityInit, CaptureNew, RunBound
<1> QED
  BY <1>2, <1>3, <1>4 DEF SessionInv

\* The inductive invariant of the session: every state of it that a hook or the
\* capture holds is as sound as the one on disk.
THEOREM ContinuityInvariant == ContinuitySpec => []ContinuityInv
<1>1. SessionInv <=> ContinuityInv
  BY SessionsByName DEF SessionInv, ContinuityInv
<1>2. SessionInv' <=> ContinuityInv'
  BY DEF SessionInv, ContinuityInv, ContinuityTypeOK, SessionTyped, CaptureRecords, HookRecords, RunRecords
<1>3. ContinuityInit => ContinuityInv
  BY <1>1, SessionStarts
<1>4. ContinuityInv /\ [ContinuityNext]_continuityVars => ContinuityInv'
  BY <1>1, <1>2, SessionStep
<1> QED
  BY <1>3, <1>4, PTL DEF ContinuitySpec

\* A receipt the session holds is of its text and repository, and it is complete
\* only with one of its very request, whatever a hook writes back of what it had
\* read.
THEOREM SessionClaims == ContinuitySpec => []CompletionBound
<1>1. ContinuityInv => CompletionBound
  BY DEF ContinuityInv, Held, CompletionBound
<1> QED
  BY <1>1, ContinuityInvariant, PTL

-----------------------------------------------------------------------------
(* Read-only runs. *)

\* A run whose directory is the one it was opened in; one that has written an
\* outcome, or is about to be closed with one.
Whole(r) == audit[r].kept /\ ~audit[r].remade
Outcome(r) ==
    \/ auditor[r].pc \in {"complete", "retain", "remove"}
    \/ audit[r].final # "none" \/ audit[r].lifecycle # "none" \/ audit[r].phase \in Terminal
Audited == {"prove", "deliver", "finish", "complete"}

\* Retention takes runs that have ended, and only they can be gone.
EndedAt(r) ==
    /\ Outcome(r) => r \in ended
    /\ \A v \in auditor[r].victims : v[2] \in ended
    /\ ~audit[r].kept /\ (Live(r) \/ auditor[r].status # "none") => r \in ended
\* The proofs are written one after the other.
ProvedAt(r) ==
    /\ auditor[r].pc \in {"isolate", "gates", "audit"} => auditor[r].proved = 0
    /\ auditor[r].pc = "prove" => auditor[r].proved < 3
    /\ auditor[r].pc \in {"deliver", "finish", "complete"} => auditor[r].proved = 3
\* The evidence of a run, in the order its audit collects it.
EvidenceAt(r) ==
    Whole(r) =>
        /\ auditor[r].pc \in {"audit"} \cup Audited => audit[r].snapshot # 0
        /\ auditor[r].pc \in Audited => audit[r].review # 0
        /\ audit[r].review # 0 => audit[r].review = audit[r].snapshot
        /\ 1 .. auditor[r].proved \subseteq audit[r].locked
        /\ audit[r].final = "COMPLETE" => audit[r].locked = Proofs /\ audit[r].review # 0
\* A run is closed as complete, and compacted, on the result it wrote.
ResultAt(r) ==
    Whole(r) =>
        /\ (audit[r].lifecycle = "COMPLETE" \/ audit[r].phase = "COMPLETE" \/ audit[r].compacted)
              => audit[r].final # "none"
        /\ (auditor[r].pc = "complete" \/ (auditor[r].pc = "close" /\ auditor[r].status = "COMPLETE"))
              => audit[r].final # "none"
\* What is gone left nothing.
GoneAt(r) == ~audit[r].kept => audit[r] = NoRecord
ReadOnlyInv ==
    /\ ReadOnlyTypeOK
    /\ \A r \in Audits : EndedAt(r) /\ ProvedAt(r) /\ EvidenceAt(r) /\ ResultAt(r) /\ GoneAt(r)

AuditRecords ==
    [kept : BOOLEAN, phase : {"none", "working", "BLOCKED", "COMPLETE"},
     final : {"none", "BLOCKED", "COMPLETE"}, lifecycle : {"none"} \cup Terminal,
     workspace : BOOLEAN, snapshot : 0 .. MaxEdits + 1, review : 0 .. MaxEdits + 1,
     locked : SUBSET Proofs, compacted : BOOLEAN, remade : BOOLEAN]
AuditorRecords ==
    [pc : AuditSteps, status : {"none"} \cup Terminal, proved : 0 .. 3,
     victims : SUBSET (Nat \X Audits), failed : BOOLEAN]

\* The directories, each listed once.
Listed(list) == list \in Seq(Audits) /\ \A i, j \in DOMAIN list : list[i] = list[j] => i = j
AgesOK == Listed(ages) /\ \A r \in Audits : audit[r].kept <=> \E i \in DOMAIN ages : ages[i] = r
RecordsTyped ==
    /\ sourceFiles \in 1 .. MaxEdits + 1
    /\ audit \in [Audits -> AuditRecords] /\ auditor \in [Audits -> AuditorRecords]
    /\ ended \subseteq Audits /\ cuts \in 0 .. MaxCuts

\* The type of the records, by name.
LEMMA AuditsByName == ReadOnlyTypeOK <=> RecordsTyped /\ AgesOK
BY DEF ReadOnlyTypeOK, RecordsTyped, AgesOK, Listed, AuditRecords, AuditorRecords

\* A list without one of its entries, or with a new one at its end.
LEMMA ListWithout ==
    ASSUME Listed(ages), NEW q
    PROVE  /\ Listed(Without(q))
           /\ \A r \in Audits : (\E i \in DOMAIN Without(q) : Without(q)[i] = r)
                                   <=> r # q /\ \E i \in DOMAIN ages : ages[i] = r
<1> DEFINE n == Len(ages)
<1>1. n \in Nat /\ DOMAIN ages = 1 .. n /\ \A i \in 1 .. n : ages[i] \in Audits
  BY DEF Listed
<1>2. CASE ~ \E i \in DOMAIN ages : ages[i] = q
  BY <1>2 DEF Without
<1>3. CASE \E i \in DOMAIN ages : ages[i] = q
  <2> DEFINE i == CHOOSE i \in DOMAIN ages : ages[i] = q
             left == SubSeq(ages, 1, i - 1)
             right == SubSeq(ages, i + 1, n)
             rest == left \o right
  <2>1. i \in 1 .. n /\ ages[i] = q
    BY <1>3, <1>1
  <2>2. Without(q) = rest
    BY <1>3 DEF Without
  <2> HIDE DEF i
  <2>3. /\ left \in Seq(Audits) /\ Len(left) = i - 1 /\ \A k \in 1 .. i - 1 : left[k] = ages[k]
        /\ right \in Seq(Audits) /\ Len(right) = n - i /\ \A k \in 1 .. n - i : right[k] = ages[i + k]
    <3>1. /\ 1 \in Int /\ n \in Int /\ i - 1 \in Int /\ i + 1 \in Int
          /\ \A k \in 1 .. i - 1 : ages[k] \in Audits
          /\ \A k \in i + 1 .. n : ages[k] \in Audits
      BY <1>1, <2>1
    <3>2. /\ left \in Seq(Audits) /\ Len(left) = IF 1 <= i - 1 THEN i - 1 - 1 + 1 ELSE 0
          /\ \A k \in 1 .. i - 1 - 1 + 1 : left[k] = ages[1 + k - 1]
      BY <3>1, SubSeqProperties
    <3>3. /\ right \in Seq(Audits) /\ Len(right) = IF i + 1 <= n THEN n - (i + 1) + 1 ELSE 0
          /\ \A k \in 1 .. n - (i + 1) + 1 : right[k] = ages[i + 1 + k - 1]
      BY <3>1, SubSeqProperties
    <3> HIDE DEF left, right
    <3>4. \A k \in 1 .. i - 1 : 1 + k - 1 = k
      OBVIOUS
    <3>5. i - 1 - 1 + 1 = i - 1 /\ n - (i + 1) + 1 = n - i /\ \A k \in 1 .. n - i : i + 1 + k - 1 = i + k
      BY <1>1, <2>1
    <3>6. Len(left) = i - 1 /\ Len(right) = n - i
      <4>1. /\ i \in Int /\ n \in Int /\ 1 <= i /\ i <= n
        BY <1>1, <2>1
      <4> HIDE DEF n
      <4>2. /\ 1 <= i - 1 => i - 1 - 1 + 1 = i - 1
            /\ ~(1 <= i - 1) => i - 1 = 0
            /\ i + 1 <= n => n - (i + 1) + 1 = n - i
            /\ ~(i + 1 <= n) => n - i = 0
        BY <4>1
      <4> QED
        BY <4>2, <3>2, <3>3
    <3>7. \A k \in 1 .. i - 1 : left[k] = ages[k]
      BY <3>2, <3>4, <3>5
    <3>8. \A k \in 1 .. n - i : right[k] = ages[i + k]
      BY <3>3, <3>5
    <3> QED
      BY <3>2, <3>3, <3>6, <3>7, <3>8
  <2> HIDE DEF left, right
  <2>4. /\ rest \in Seq(Audits) /\ Len(rest) = n - 1 /\ DOMAIN rest = 1 .. n - 1
        /\ \A k \in 1 .. i - 1 : rest[k] = ages[k]
        /\ \A k \in i .. n - 1 : rest[k] = ages[k + 1]
    <3>1. /\ rest \in Seq(Audits) /\ Len(rest) = Len(left) + Len(right)
          /\ \A k \in 1 .. Len(left) + Len(right) :
                rest[k] = IF k <= Len(left) THEN left[k] ELSE right[k - Len(left)]
      BY <2>3, ConcatProperties
    <3> HIDE DEF rest
    <3>2. Len(left) + Len(right) = n - 1
      BY <1>1, <2>1, <2>3
    <3>3. DOMAIN rest = 1 .. n - 1
      BY <3>1, <3>2
    <3>4. \A k \in 1 .. i - 1 : rest[k] = ages[k]
      BY <1>1, <2>1, <2>3, <3>1, <3>2
    <3>5. ASSUME NEW k \in i .. n - 1
          PROVE  rest[k] = ages[k + 1]
      <4>1. /\ k \in 1 .. n - 1 /\ ~(k <= i - 1) /\ k - (i - 1) \in 1 .. n - i
            /\ i + (k - (i - 1)) = k + 1
        BY <1>1, <2>1
      <4>2. rest[k] = right[k - (i - 1)]
        BY <3>1, <3>2, <2>3, <4>1
      <4> QED
        BY <4>1, <4>2, <2>3
    <3> QED
      BY <3>1, <3>2, <3>3, <3>4, <3>5
  <2> HIDE DEF rest
  <2>5. \A k \in 1 .. n - 1 : rest[k] = ages[IF k < i THEN k ELSE k + 1]
    BY <1>1, <2>1, <2>4
  <2>6. Listed(rest)
    <3>1. ASSUME NEW k \in 1 .. n - 1, NEW j \in 1 .. n - 1, rest[k] = rest[j]
          PROVE  k = j
      <4>1. (IF k < i THEN k ELSE k + 1) = (IF j < i THEN j ELSE j + 1)
        BY <1>1, <2>1, <2>5, <3>1 DEF Listed
      <4> QED
        BY <4>1, <1>1, <2>1
    <3> QED
      BY <3>1, <2>4 DEF Listed
  <2>7. \A r : (\E k \in 1 .. n - 1 : rest[k] = r) => r # q /\ \E k \in 1 .. n : ages[k] = r
    BY <1>1, <2>1, <2>5 DEF Listed
  <2>8. ASSUME NEW r, r # q, NEW k \in 1 .. n, ages[k] = r
        PROVE  \E j \in 1 .. n - 1 : rest[j] = r
    <3>1. CASE k < i
      BY <3>1, <2>8, <2>1, <2>4, <1>1
    <3>2. CASE k > i
      <4>1. k - 1 \in i .. n - 1 /\ (k - 1) + 1 = k /\ k - 1 \in 1 .. n - 1
        BY <3>2, <2>1, <1>1
      <4> QED
        BY <4>1, <2>8, <2>4
    <3> QED
      BY <3>1, <3>2, <2>8, <2>1, <1>1
  <2> QED
    BY <2>2, <2>4, <2>6, <2>7, <2>8, <1>1
<1> QED
  BY <1>2, <1>3

\* A list with a new entry at its end.
LEMMA ListWith ==
    ASSUME NEW list, Listed(list), NEW q \in Audits, ~ \E i \in DOMAIN list : list[i] = q
    PROVE  /\ Listed(Append(list, q))
           /\ \A r \in Audits : (\E i \in DOMAIN Append(list, q) : Append(list, q)[i] = r)
                                   <=> r = q \/ \E i \in DOMAIN list : list[i] = r
<1> DEFINE n == Len(list)
           longer == Append(list, q)
<1>1. n \in Nat /\ DOMAIN list = 1 .. n /\ \A i \in 1 .. n : list[i] \in Audits
  BY DEF Listed
<1>2. /\ longer \in Seq(Audits) /\ Len(longer) = n + 1 /\ DOMAIN longer = 1 .. n + 1
      /\ \A i \in 1 .. n : longer[i] = list[i]
      /\ longer[n + 1] = q
  BY <1>1 DEF Listed
<1> HIDE DEF longer
<1>3. Listed(longer)
  BY <1>1, <1>2 DEF Listed
<1>4. ASSUME NEW r \in Audits
      PROVE  (\E i \in 1 .. n + 1 : longer[i] = r) <=> r = q \/ \E i \in 1 .. n : list[i] = r
  BY <1>1, <1>2
<1> QED
  BY <1>1, <1>2, <1>3, <1>4 DEF longer

\* A write of a run's directory: the record is as it should be, it is there,
\* and it is marked when the directory was gone.
Written(r, record) ==
    audit' = [audit EXCEPT ![r] = [record EXCEPT !.kept = TRUE, !.remade = @ \/ ~audit[r].kept]]

\* A write of a run's directory lists it once.
LEMMA RecordWrites ==
    ASSUME RecordsTyped, AgesOK, NEW r \in Audits, NEW record \in AuditRecords, NEW touch,
           Record(r, record, touch)
    PROVE  AgesOK' /\ audit' \in [Audits -> AuditRecords] /\ Written(r, record)
<1>1. /\ audit \in [Audits -> AuditRecords] /\ Written(r, record)
      /\ [record EXCEPT !.kept = TRUE, !.remade = @ \/ ~audit[r].kept] \in AuditRecords
  BY DEF RecordsTyped, Record, Written, AuditRecords
<1>2. /\ audit' \in [Audits -> AuditRecords]
      /\ audit'[r].kept /\ \A q \in Audits \ {r} : audit'[q] = audit[q]
  BY <1>1 DEF Written, AuditRecords
<1>3. CASE touch \/ ~audit[r].kept
  <2> DEFINE shorter == Without(r)
  <2>1. /\ Listed(shorter) /\ ~ \E i \in DOMAIN shorter : shorter[i] = r
        /\ \A q \in Audits : (\E i \in DOMAIN shorter : shorter[i] = q)
                                <=> q # r /\ \E i \in DOMAIN ages : ages[i] = q
    BY ListWithout DEF AgesOK
  <2>2. ages' = Append(shorter, r)
    BY <1>3 DEF Record
  <2> HIDE DEF shorter
  <2>3. /\ Listed(ages')
        /\ \A q \in Audits : (\E i \in DOMAIN ages' : ages'[i] = q)
                                <=> q = r \/ \E i \in DOMAIN shorter : shorter[i] = q
    BY <2>1, <2>2, ListWith
  <2>4. \A q \in Audits : audit'[q].kept <=> \E i \in DOMAIN ages' : ages'[i] = q
    BY <2>1, <2>3, <1>2 DEF AgesOK
  <2> QED
    BY <1>1, <1>2, <2>3, <2>4 DEF AgesOK
<1>4. CASE ~(touch \/ ~audit[r].kept)
  <2>1. ages' = ages /\ audit[r].kept
    BY <1>4 DEF Record
  <2> QED
    BY <1>1, <2>1, <1>2 DEF AgesOK
<1> QED
  BY <1>1, <1>2, <1>3, <1>4


\* A step of one audit keeps the records whole.
LEMMA AuditTypes ==
    ASSUME RecordsTyped, AgesOK, NEW r \in Audits, ProvedAt(r), AuditStep(r)
    PROVE  RecordsTyped' /\ AgesOK'
<1> DEFINE me == auditor[r]
           it == audit[r]
<1>a. /\ audit \in [Audits -> AuditRecords] /\ auditor \in [Audits -> AuditorRecords]
      /\ it \in AuditRecords /\ me \in AuditorRecords /\ NoAudit \in AuditorRecords
      /\ NoRecord \in AuditRecords /\ sourceFiles \in 1 .. MaxEdits + 1
      /\ ended \subseteq Audits /\ cuts \in 0 .. MaxCuts
      /\ cuts < MaxCuts => cuts + 1 \in 0 .. MaxCuts
  BY ReadOnlyAssumption
     DEF RecordsTyped, AuditRecords, AuditorRecords, NoAudit, NoRecord, AuditSteps, Terminal,
         Proofs
<1>b. /\ it.snapshot \in 0 .. MaxEdits + 1 /\ it.locked \in SUBSET Proofs /\ it.workspace \in BOOLEAN
      /\ it.final \in {"none", "BLOCKED", "COMPLETE"} /\ me.status \in {"none"} \cup Terminal
      /\ me.victims \in SUBSET (Nat \X Audits) /\ me.proved \in 0 .. 3
      /\ sourceFiles \in 0 .. MaxEdits + 1
  BY <1>a, ReadOnlyAssumption DEF AuditRecords, AuditorRecords
<1>c. /\ \A step \in AuditSteps :
            Moves(r, step) => \E rec \in AuditorRecords : auditor' = [auditor EXCEPT ![r] = rec]
      /\ \A status \in {"none"} \cup Terminal :
            Closes(r, status) => \E rec \in AuditorRecords : auditor' = [auditor EXCEPT ![r] = rec]
  <2>1. \A step \in AuditSteps, status \in {"none"} \cup Terminal :
           /\ [me EXCEPT !.pc = step] \in AuditorRecords
           /\ [me EXCEPT !.pc = step, !.status = status] \in AuditorRecords
           /\ [auditor EXCEPT ![r].pc = step] = [auditor EXCEPT ![r] = [me EXCEPT !.pc = step]]
           /\ [auditor EXCEPT ![r].pc = step, ![r].status = status]
                 = [auditor EXCEPT ![r] = [me EXCEPT !.pc = step, !.status = status]]
    BY <1>a DEF AuditorRecords
  <2>2. "close" \in AuditSteps
    BY DEF AuditSteps
  <2>3. ASSUME NEW step \in AuditSteps, Moves(r, step)
        PROVE  \E rec \in AuditorRecords : auditor' = [auditor EXCEPT ![r] = rec]
    <3>1. "none" \in {"none"} \cup Terminal
      OBVIOUS
    <3>2. [me EXCEPT !.pc = step] \in AuditorRecords
          /\ auditor' = [auditor EXCEPT ![r] = [me EXCEPT !.pc = step]]
      BY <2>1, <2>3, <3>1 DEF Moves
    <3> QED
      BY <3>2
  <2>4. ASSUME NEW status \in {"none"} \cup Terminal, Closes(r, status)
        PROVE  \E rec \in AuditorRecords : auditor' = [auditor EXCEPT ![r] = rec]
    <3> DEFINE rec == [me EXCEPT !.pc = "close", !.status = status]
    <3>1. rec \in AuditorRecords /\ auditor' = [auditor EXCEPT ![r] = rec]
      BY <2>1, <2>2, <2>4 DEF Closes
    <3> QED
      BY <3>1
  <2> QED
    BY <2>3, <2>4
<1>d. \A record \in AuditRecords : \A touch :
         Record(r, record, touch) => AgesOK' /\ audit' \in [Audits -> AuditRecords]
  BY RecordWrites
<1>e. UNCHANGED <<audit, ages>> => AgesOK' /\ audit' \in [Audits -> AuditRecords]
  BY <1>a DEF AgesOK, Listed
<1> HIDE DEF me, it
<1> SUFFICES /\ AgesOK' /\ audit' \in [Audits -> AuditRecords]
             /\ \E rec \in AuditorRecords : auditor' = [auditor EXCEPT ![r] = rec]
             /\ sourceFiles' = sourceFiles /\ ended' \subseteq Audits /\ cuts' \in 0 .. MaxCuts
  BY <1>a DEF RecordsTyped
<1> USE DEF Leaves, AuditAt, Cut, Working
<1>1. CASE OpenAudit(r)
  <2>1. CASE it.phase = "COMPLETE"
    BY <1>1, <2>1, <1>a, <1>b, <1>c, <1>e DEF OpenAudit, AuditSteps, Terminal, it
  <2>2. CASE it.phase # "COMPLETE"
    <3>1. [NoAudit EXCEPT !.pc = "isolate", !.status = "CANCELED"] \in AuditorRecords
      BY <1>a DEF AuditorRecords, AuditSteps, Terminal
    <3>2. [it EXCEPT !.kept = TRUE, !.phase = "working"] \in AuditRecords
      BY <1>a DEF AuditRecords
    <3>3. /\ audit' = [audit EXCEPT ![r] = [it EXCEPT !.kept = TRUE, !.phase = "working"]]
          /\ UNCHANGED <<sourceFiles, ended, cuts>> /\ ages' = IF it.kept THEN ages ELSE Append(ages, r)
          /\ auditor' = [auditor EXCEPT ![r] = [NoAudit EXCEPT !.pc = "isolate", !.status = "CANCELED"]]
      BY <1>1, <2>2 DEF OpenAudit, it
    <3>a. /\ audit' \in [Audits -> AuditRecords] /\ audit'[r].kept
          /\ \A q \in Audits \ {r} : audit'[q] = audit[q]
      BY <3>2, <3>3, <1>a DEF AuditRecords
    <3>4. it.kept => AgesOK'
      BY <3>3, <3>a DEF it, AgesOK
    <3>5. ~it.kept => ages' = Append(ages, r) /\ ~ \E i \in DOMAIN ages : ages[i] = r
      BY <3>3 DEF it, AgesOK
    <3>6. ~it.kept => AgesOK'
      <4> SUFFICES ASSUME ~it.kept
                   PROVE  AgesOK'
        OBVIOUS
      <4>1. Listed(ages') /\ \A q \in Audits : (\E i \in DOMAIN ages' : ages'[i] = q)
                                                  <=> q = r \/ \E i \in DOMAIN ages : ages[i] = q
        <5>1. Listed(ages) /\ ages' = Append(ages, r) /\ ~ \E i \in DOMAIN ages : ages[i] = r
          BY <3>5 DEF AgesOK
        <5> QED
          BY <5>1, ListWith
      <4> QED
        BY <4>1, <3>a DEF AgesOK
    <3> QED
      BY <3>1, <3>3, <3>a, <3>4, <3>6, <1>a
  <2> QED
    BY <2>1, <2>2
<1>2. CASE Isolate(r)
  <2>1. [it EXCEPT !.workspace = TRUE, !.snapshot = sourceFiles] \in AuditRecords
    BY <1>a, <1>b DEF AuditRecords
  <2> QED
    BY <1>2, <2>1, <1>a, <1>c, <1>d, <1>e DEF Isolate, AuditSteps, it
<1>3. CASE Diagnose(r)
  BY <1>3, <1>a, <1>b, <1>c, <1>e DEF Diagnose, AuditSteps, Terminal
<1>4. CASE Audit(r)
  <2>1. [it EXCEPT !.review = it.snapshot] \in AuditRecords
    BY <1>a, <1>b DEF AuditRecords
  <2> QED
    BY <1>4, <2>1, <1>a, <1>c, <1>d, <1>e DEF Audit, AuditSteps, it
<1>5. CASE Prove(r)
  <2> DEFINE next == me.proved + 1
  <2>1. CASE next \in it.locked
    BY <1>5, <2>1, <1>a, <1>c, <1>e DEF Prove, AuditSteps, it, me
  <2>2. CASE next \notin it.locked
    <3>0. me.pc = "prove" /\ next \in 1 .. 4
      BY <1>5, <1>b DEF Prove, me
    <3>1. /\ Record(r, [it EXCEPT !.locked = @ \cup {next}], FALSE)
          /\ auditor' = [auditor EXCEPT ![r].proved = next, ![r].pc = IF next = 3 THEN "deliver" ELSE @]
          /\ UNCHANGED <<sourceFiles, ended, cuts>>
      BY <1>5, <2>2 DEF Prove, it, me
    <3>2. auditor' = [auditor EXCEPT ![r] = [me EXCEPT !.proved = next,
                                             !.pc = IF next = 3 THEN "deliver" ELSE @]]
      BY <3>1, <1>a DEF me, AuditorRecords
    <3>3. next \in 0 .. 3 /\ next \in Proofs
      BY <3>0, <1>b DEF ProvedAt, me, Proofs
    <3>4. [it EXCEPT !.locked = @ \cup {next}] \in AuditRecords
      BY <3>3, <1>a, <1>b DEF AuditRecords
    <3>5. [me EXCEPT !.proved = next, !.pc = IF next = 3 THEN "deliver" ELSE @] \in AuditorRecords
      BY <3>3, <1>a DEF AuditorRecords, AuditSteps
    <3> QED
      BY <3>1, <3>2, <3>4, <3>5, <1>a, <1>d
  <2> QED
    BY <2>1, <2>2
<1>6. CASE DeliverAudit(r)
  BY <1>6, <1>a, <1>b, <1>c, <1>e DEF DeliverAudit, AuditSteps, Terminal
<1>7. CASE FinishAudit(r)
  <2>1. [it EXCEPT !.final = "COMPLETE"] \in AuditRecords
    BY <1>a DEF AuditRecords
  <2> QED
    BY <1>7, <2>1, <1>a, <1>c, <1>d DEF FinishAudit, AuditSteps, Terminal, it
<1>8. CASE CompleteAudit(r)
  <2>1. [it EXCEPT !.phase = "COMPLETE"] \in AuditRecords
    BY <1>a DEF AuditRecords
  <2> QED
    BY <1>8, <2>1, <1>a, <1>c, <1>d DEF CompleteAudit, AuditSteps, Terminal, it
<1>9. CASE FailAudit(r)
  <2>1. [it EXCEPT !.phase = "BLOCKED", !.final = "BLOCKED"] \in AuditRecords
    BY <1>a DEF AuditRecords
  <2> QED
    BY <1>9, <2>1, <1>a, <1>c, <1>d DEF FailAudit, AuditSteps, Terminal, it
<1>10. CASE StepRaises(r)
  BY <1>10, <1>a, <1>b, <1>c, <1>e DEF StepRaises, AuditSteps, Terminal
<1>11. CASE InterruptAudit(r)
  BY <1>11, <1>a, <1>b, <1>c, <1>e DEF InterruptAudit, AuditSteps, Terminal
<1>12. CASE KillAuditor(r)
  <2>1. [NoAudit EXCEPT !.status = "CANCELED"] \in AuditorRecords
    BY <1>a DEF AuditorRecords, Terminal
  <2> QED
    BY <1>12, <2>1, <1>a, <1>e DEF KillAuditor
<1>13. CASE CleanUp(r)
  <2>1. PICK stays \in {FALSE} \cup {it.workspace} :
           /\ IF stays THEN Cut ELSE UNCHANGED cuts
           /\ Record(r, [it EXCEPT !.workspace = stays, !.lifecycle = me.status], it.workspace # stays)
           /\ auditor' = [auditor EXCEPT ![r].pc = "retain", ![r].failed = stays]
    BY <1>13 DEF CleanUp, it, me
  <2>2. stays \in BOOLEAN
    BY <1>b
  <2>3. [it EXCEPT !.workspace = stays, !.lifecycle = me.status] \in AuditRecords
    BY <2>2, <1>a, <1>b DEF AuditRecords
  <2>4. /\ auditor' = [auditor EXCEPT ![r] = [me EXCEPT !.pc = "retain", !.failed = stays]]
        /\ [me EXCEPT !.pc = "retain", !.failed = stays] \in AuditorRecords
    BY <2>1, <2>2, <1>a DEF me, AuditorRecords, AuditSteps
  <2> QED
    BY <1>13, <2>1, <2>3, <2>4, <1>a, <1>d DEF CleanUp
<1>14. CASE ChooseRemovals(r)
  <2>1. PICK n \in 0 .. Len(ages) :
           auditor' = [auditor EXCEPT ![r].pc = "remove",
                         ![r].victims = {<<i, ages[i]>> : i \in Removable(r) \cap (1 .. n)}]
    BY <1>14 DEF ChooseRemovals
  <2> DEFINE gone == {<<i, ages[i]>> : i \in Removable(r) \cap (1 .. n)}
  <2>2. gone \in SUBSET (Nat \X Audits)
    <3>1. Len(ages) \in Nat /\ DOMAIN ages = 1 .. Len(ages) /\ \A i \in DOMAIN ages : ages[i] \in Audits
      BY DEF AgesOK, Listed
    <3> QED
      BY <3>1 DEF Removable
  <2>3. auditor' = [auditor EXCEPT ![r] = [me EXCEPT !.pc = "remove", !.victims = gone]]
    BY <2>1, <1>a DEF me, AuditorRecords
  <2> HIDE DEF gone
  <2>4. [me EXCEPT !.pc = "remove", !.victims = gone] \in AuditorRecords
    BY <2>2, <1>a DEF AuditorRecords, AuditSteps
  <2>5. [it EXCEPT !.compacted = TRUE] \in AuditRecords
    BY <1>a DEF AuditRecords
  <2>6. AgesOK' /\ audit' \in [Audits -> AuditRecords]
    BY <1>14, <2>5, <1>d, <1>e DEF ChooseRemovals, Compact, it
  <2> QED
    BY <1>14, <2>3, <2>4, <2>6, <1>a DEF ChooseRemovals
<1>15. CASE RemoveRun(r)
  <2>1. PICK v \in me.victims :
           /\ audit' = [audit EXCEPT ![v[2]] = NoRecord] /\ ages' = Without(v[2])
           /\ auditor' = [auditor EXCEPT ![r].victims = IF audit[v[2]].kept THEN @ \ {v} ELSE {},
                                         ![r].failed = @ \/ ~audit[v[2]].kept]
    BY <1>15 DEF RemoveRun, me
  <2> DEFINE left == IF audit[v[2]].kept THEN me.victims \ {v} ELSE {}
             failed == me.failed \/ ~audit[v[2]].kept
  <2>2. v[2] \in Audits /\ left \in SUBSET (Nat \X Audits) /\ failed \in BOOLEAN
    BY <1>a, <1>b DEF AuditRecords, AuditorRecords
  <2>3. auditor' = [auditor EXCEPT ![r] = [me EXCEPT !.victims = left, !.failed = failed]]
    BY <2>1, <1>a DEF me, AuditorRecords
  <2> HIDE DEF left, failed
  <2>4. [me EXCEPT !.victims = left, !.failed = failed] \in AuditorRecords
    BY <2>2, <1>a DEF AuditorRecords
  <2>5. /\ audit' \in [Audits -> AuditRecords] /\ ~audit'[v[2]].kept
        /\ \A q \in Audits \ {v[2]} : audit'[q] = audit[q]
    BY <2>1, <2>2, <1>a DEF NoRecord
  <2>6. AgesOK'
    BY <2>1, <2>5, ListWithout DEF AgesOK
  <2> QED
    BY <1>15, <2>3, <2>4, <2>5, <2>6, <1>a DEF RemoveRun
<1>16. CASE EndClose(r)
  <2>1. [NoAudit EXCEPT !.status = "CANCELED"] \in AuditorRecords
    BY <1>a DEF AuditorRecords, Terminal
  <2>2. [it EXCEPT !.final = "BLOCKED"] \in AuditRecords
    BY <1>a DEF AuditRecords
  <2> QED
    BY <1>16, <2>1, <2>2, <1>a, <1>d, <1>e DEF EndClose, it
<1> QED
  BY <1>1, <1>2, <1>3, <1>4, <1>5, <1>6, <1>7, <1>8, <1>9, <1>10, <1>11, <1>12, <1>13, <1>14,
     <1>15, <1>16 DEF AuditStep

\* What a step writes in the directory of a run, and where it leaves the run's
\* controller.
RunWritten(r) == audit'[r].kept /\ (~audit'[r].remade => audit[r].kept /\ ~audit[r].remade)
Opened(r) == audit'[r].kept /\ audit'[r].remade = audit[r].remade
StatusAt(r, phase, final, lifecycle) ==
    audit'[r].phase = phase /\ audit'[r].final = final /\ audit'[r].lifecycle = lifecycle
EvidenceIs(r, snapshot, review, locked, compacted) ==
    /\ audit'[r].snapshot = snapshot /\ audit'[r].review = review
    /\ audit'[r].locked = locked /\ audit'[r].compacted = compacted
ControllerAt(r, pc, status, proved) ==
    /\ auditor'[r].pc = pc /\ auditor'[r].status = status /\ auditor'[r].proved = proved
    /\ auditor'[r].victims \subseteq auditor[r].victims

\* What OpenAudit does to a run and its controller.
LEMMA OpenAuditDoes ==
    ASSUME RecordsTyped, NEW r \in Audits, OpenAudit(r)
    PROVE  /\ auditor[r].pc = "idle" /\ ended' = ended
           /\ \/ /\ audit[r].phase = "COMPLETE"
                 /\ audit'[r] = audit[r]
                 /\ ControllerAt(r, "close", audit[r].final, auditor[r].proved)
              \/ /\ audit[r].phase # "COMPLETE"
                 /\ Opened(r) /\ StatusAt(r, "working", audit[r].final, audit[r].lifecycle)
                 /\ EvidenceIs(r, audit[r].snapshot, audit[r].review, audit[r].locked, audit[r].compacted)
                 /\ ControllerAt(r, "isolate", "CANCELED", 0)
<1>1. /\ audit \in [Audits -> AuditRecords] /\ auditor \in [Audits -> AuditorRecords]
      /\ audit[r] \in AuditRecords /\ auditor[r] \in AuditorRecords
  BY DEF RecordsTyped
<1>2. auditor[r].pc = "idle" /\ ended' = ended
  BY DEF OpenAudit, AuditAt
<1>3. CASE audit[r].phase = "COMPLETE"
  <2>1. audit'[r] = audit[r]
    BY <1>3, <1>1 DEF OpenAudit, Leaves
  <2>2. ControllerAt(r, "close", audit[r].final, auditor[r].proved)
    BY <1>3, <1>1 DEF OpenAudit, Moves, Closes, ControllerAt, AuditorRecords
  <2> QED
    BY <1>2, <1>3, <2>1, <2>2
<1>4. CASE audit[r].phase # "COMPLETE"
  <2>0. audit' = [audit EXCEPT ![r] = [audit[r] EXCEPT !.kept = TRUE, !.phase = "working"]]
    BY <1>4 DEF OpenAudit
  <2>1. Opened(r) /\ StatusAt(r, "working", audit[r].final, audit[r].lifecycle)
        /\ EvidenceIs(r, audit[r].snapshot, audit[r].review, audit[r].locked, audit[r].compacted)
    BY <2>0, <1>1 DEF AuditRecords, Opened, StatusAt, EvidenceIs
  <2>2. ControllerAt(r, "isolate", "CANCELED", 0)
    BY <1>4, <1>1 DEF OpenAudit, Moves, Closes, ControllerAt, NoAudit
  <2> QED
    BY <1>2, <1>4, <2>1, <2>2
<1> QED
  BY <1>3, <1>4

\* What Isolate does to a run and its controller.
LEMMA IsolateDoes ==
    ASSUME RecordsTyped, NEW r \in Audits, Isolate(r)
    PROVE  /\ auditor[r].pc = "isolate" /\ ended' = ended
           /\ \/ /\ audit[r].workspace
                 /\ audit'[r] = audit[r]
                 /\ ControllerAt(r, "gates", auditor[r].status, auditor[r].proved)
              \/ /\ ~audit[r].workspace /\ audit[r].snapshot # 0
                 /\ audit'[r] = audit[r]
                 /\ ControllerAt(r, "fail", auditor[r].status, auditor[r].proved)
              \/ /\ ~audit[r].workspace /\ audit[r].snapshot = 0
                 /\ RunWritten(r) /\ StatusAt(r, audit[r].phase, audit[r].final, audit[r].lifecycle)
                 /\ EvidenceIs(r, sourceFiles, audit[r].review, audit[r].locked, audit[r].compacted)
                 /\ ControllerAt(r, "gates", auditor[r].status, auditor[r].proved)
<1>1. /\ audit \in [Audits -> AuditRecords] /\ auditor \in [Audits -> AuditorRecords]
      /\ audit[r] \in AuditRecords /\ auditor[r] \in AuditorRecords
  BY DEF RecordsTyped
<1>2. auditor[r].pc = "isolate" /\ ended' = ended
  BY DEF Isolate, AuditAt
<1>3. CASE audit[r].workspace
  <2>1. audit'[r] = audit[r]
    BY <1>3, <1>1 DEF Isolate, Leaves
  <2>2. ControllerAt(r, "gates", auditor[r].status, auditor[r].proved)
    BY <1>3, <1>1 DEF Isolate, Moves, Closes, ControllerAt, AuditorRecords
  <2> QED
    BY <1>2, <1>3, <2>1, <2>2
<1>4. CASE ~audit[r].workspace /\ audit[r].snapshot # 0
  <2>1. audit'[r] = audit[r]
    BY <1>4, <1>1 DEF Isolate, Leaves
  <2>2. ControllerAt(r, "fail", auditor[r].status, auditor[r].proved)
    BY <1>4, <1>1 DEF Isolate, Moves, Closes, ControllerAt, AuditorRecords
  <2> QED
    BY <1>2, <1>4, <2>1, <2>2
<1>5. CASE ~audit[r].workspace /\ audit[r].snapshot = 0
  <2>0. audit' = [audit EXCEPT ![r] = [[audit[r] EXCEPT !.workspace = TRUE,
                                        !.snapshot = sourceFiles] EXCEPT !.kept = TRUE,
            !.remade = @ \/ ~audit[r].kept]]
    BY <1>5 DEF Isolate, Record
  <2>1. RunWritten(r) /\ StatusAt(r, audit[r].phase, audit[r].final, audit[r].lifecycle)
        /\ EvidenceIs(r, sourceFiles, audit[r].review, audit[r].locked, audit[r].compacted)
    BY <2>0, <1>1 DEF AuditRecords, RunWritten, StatusAt, EvidenceIs
  <2>2. ControllerAt(r, "gates", auditor[r].status, auditor[r].proved)
    BY <1>5, <1>1 DEF Isolate, Moves, Closes, ControllerAt, AuditorRecords
  <2> QED
    BY <1>2, <1>5, <2>1, <2>2
<1> QED
  BY <1>3, <1>4, <1>5

\* What Diagnose does to a run and its controller.
LEMMA DiagnoseDoes ==
    ASSUME RecordsTyped, NEW r \in Audits, Diagnose(r)
    PROVE  /\ auditor[r].pc = "gates" /\ ended' = ended
           /\ \/ /\ audit[r].snapshot = sourceFiles
                 /\ audit'[r] = audit[r]
                 /\ ControllerAt(r, "audit", auditor[r].status, auditor[r].proved)
              \/ /\ audit[r].snapshot # sourceFiles
                 /\ audit'[r] = audit[r]
                 /\ ControllerAt(r, "fail", auditor[r].status, auditor[r].proved)
<1>1. /\ audit \in [Audits -> AuditRecords] /\ auditor \in [Audits -> AuditorRecords]
      /\ audit[r] \in AuditRecords /\ auditor[r] \in AuditorRecords
  BY DEF RecordsTyped
<1>2. auditor[r].pc = "gates" /\ ended' = ended
  BY DEF Diagnose, AuditAt
<1>3. CASE audit[r].snapshot = sourceFiles
  <2>1. audit'[r] = audit[r]
    BY <1>3, <1>1 DEF Diagnose, Leaves, SourceUnchanged
  <2>2. ControllerAt(r, "audit", auditor[r].status, auditor[r].proved)
    BY <1>3, <1>1 DEF Diagnose, Moves, Closes, ControllerAt, AuditorRecords, SourceUnchanged
  <2> QED
    BY <1>2, <1>3, <2>1, <2>2
<1>4. CASE audit[r].snapshot # sourceFiles
  <2>1. audit'[r] = audit[r]
    BY <1>4, <1>1 DEF Diagnose, Leaves, SourceUnchanged
  <2>2. ControllerAt(r, "fail", auditor[r].status, auditor[r].proved)
    BY <1>4, <1>1 DEF Diagnose, Moves, Closes, ControllerAt, AuditorRecords, SourceUnchanged
  <2> QED
    BY <1>2, <1>4, <2>1, <2>2
<1> QED
  BY <1>3, <1>4

\* What Audit does to a run and its controller.
LEMMA AuditDoes ==
    ASSUME RecordsTyped, NEW r \in Audits, Audit(r)
    PROVE  /\ auditor[r].pc = "audit" /\ ended' = ended
           /\ \/ /\ audit[r].review # 0
                 /\ audit'[r] = audit[r]
                 /\ \E pc \in {"prove", "fail"} : ControllerAt(r, pc, auditor[r].status, auditor[r].proved)
              \/ /\ audit[r].review = 0
                 /\ RunWritten(r) /\ StatusAt(r, audit[r].phase, audit[r].final, audit[r].lifecycle)
                 /\ EvidenceIs(r, audit[r].snapshot, audit[r].snapshot, audit[r].locked, audit[r].compacted)
                 /\ \E pc \in {"prove", "fail"} : ControllerAt(r, pc, auditor[r].status, auditor[r].proved)
<1>1. /\ audit \in [Audits -> AuditRecords] /\ auditor \in [Audits -> AuditorRecords]
      /\ audit[r] \in AuditRecords /\ auditor[r] \in AuditorRecords
  BY DEF RecordsTyped
<1>2. auditor[r].pc = "audit" /\ ended' = ended
  BY DEF Audit, AuditAt
<1>3. CASE audit[r].review # 0
  <2>1. audit'[r] = audit[r]
    BY <1>3, <1>1 DEF Audit, Leaves
  <2>2. (\E pc \in {"prove", "fail"} : ControllerAt(r, pc, auditor[r].status, auditor[r].proved))
    BY <1>3, <1>1 DEF Audit, Moves, Closes, ControllerAt, AuditorRecords, SourceUnchanged
  <2> QED
    BY <1>2, <1>3, <2>1, <2>2
<1>4. CASE audit[r].review = 0
  <2>0. audit' = [audit EXCEPT ![r] = [[audit[r] EXCEPT !.review = audit[r].snapshot] EXCEPT !.kept = TRUE,
            !.remade = @ \/ ~audit[r].kept]]
    BY <1>4 DEF Audit, Record
  <2>1. RunWritten(r) /\ StatusAt(r, audit[r].phase, audit[r].final, audit[r].lifecycle)
        /\ EvidenceIs(r, audit[r].snapshot, audit[r].snapshot, audit[r].locked, audit[r].compacted)
    BY <2>0, <1>1 DEF AuditRecords, RunWritten, StatusAt, EvidenceIs
  <2>2. (\E pc \in {"prove", "fail"} : ControllerAt(r, pc, auditor[r].status, auditor[r].proved))
    BY <1>4, <1>1 DEF Audit, Moves, Closes, ControllerAt, AuditorRecords, SourceUnchanged
  <2> QED
    BY <1>2, <1>4, <2>1, <2>2
<1> QED
  BY <1>3, <1>4

\* What Prove does to a run and its controller.
LEMMA ProveDoes ==
    ASSUME RecordsTyped, NEW r \in Audits, Prove(r)
    PROVE  /\ auditor[r].pc = "prove" /\ ended' = ended
           /\ \/ /\ auditor[r].proved + 1 \in audit[r].locked
                 /\ audit'[r] = audit[r]
                 /\ ControllerAt(r, "fail", auditor[r].status, auditor[r].proved)
              \/ /\ auditor[r].proved + 1 \notin audit[r].locked /\ auditor[r].proved + 1 = 3
                 /\ RunWritten(r) /\ StatusAt(r, audit[r].phase, audit[r].final, audit[r].lifecycle)
                 /\ EvidenceIs(r, audit[r].snapshot, audit[r].review,
                               audit[r].locked \cup {auditor[r].proved + 1}, audit[r].compacted)
                 /\ ControllerAt(r, "deliver", auditor[r].status, auditor[r].proved + 1)
              \/ /\ auditor[r].proved + 1 \notin audit[r].locked /\ auditor[r].proved + 1 # 3
                 /\ RunWritten(r) /\ StatusAt(r, audit[r].phase, audit[r].final, audit[r].lifecycle)
                 /\ EvidenceIs(r, audit[r].snapshot, audit[r].review,
                               audit[r].locked \cup {auditor[r].proved + 1}, audit[r].compacted)
                 /\ ControllerAt(r, "prove", auditor[r].status, auditor[r].proved + 1)
<1>1. /\ audit \in [Audits -> AuditRecords] /\ auditor \in [Audits -> AuditorRecords]
      /\ audit[r] \in AuditRecords /\ auditor[r] \in AuditorRecords
  BY DEF RecordsTyped
<1>2. auditor[r].pc = "prove" /\ ended' = ended
  BY DEF Prove, AuditAt
<1>3. CASE auditor[r].proved + 1 \in audit[r].locked
  <2>1. audit'[r] = audit[r]
    BY <1>3, <1>1 DEF Prove, Leaves
  <2>2. ControllerAt(r, "fail", auditor[r].status, auditor[r].proved)
    BY <1>3, <1>1 DEF Prove, Moves, Closes, ControllerAt, AuditorRecords
  <2> QED
    BY <1>2, <1>3, <2>1, <2>2
<1>4. CASE auditor[r].proved + 1 \notin audit[r].locked /\ auditor[r].proved + 1 = 3
  <2>0. audit' = [audit EXCEPT ![r] =
                     [[audit[r] EXCEPT !.locked = @ \cup {auditor[r].proved + 1}]
                        EXCEPT !.kept = TRUE, !.remade = @ \/ ~audit[r].kept]]
    BY <1>4 DEF Prove, Record
  <2>1. RunWritten(r) /\ StatusAt(r, audit[r].phase, audit[r].final, audit[r].lifecycle)
        /\ EvidenceIs(r, audit[r].snapshot, audit[r].review,
                      audit[r].locked \cup {auditor[r].proved + 1}, audit[r].compacted)
    BY <2>0, <1>1 DEF AuditRecords, RunWritten, StatusAt, EvidenceIs
  <2>2. ControllerAt(r, "deliver", auditor[r].status, auditor[r].proved + 1)
    BY <1>4, <1>1 DEF Prove, Moves, Closes, ControllerAt, AuditorRecords
  <2> QED
    BY <1>2, <1>4, <2>1, <2>2
<1>5. CASE auditor[r].proved + 1 \notin audit[r].locked /\ auditor[r].proved + 1 # 3
  <2>0. audit' = [audit EXCEPT ![r] =
                     [[audit[r] EXCEPT !.locked = @ \cup {auditor[r].proved + 1}]
                        EXCEPT !.kept = TRUE, !.remade = @ \/ ~audit[r].kept]]
    BY <1>5 DEF Prove, Record
  <2>1. RunWritten(r) /\ StatusAt(r, audit[r].phase, audit[r].final, audit[r].lifecycle)
        /\ EvidenceIs(r, audit[r].snapshot, audit[r].review,
                      audit[r].locked \cup {auditor[r].proved + 1}, audit[r].compacted)
    BY <2>0, <1>1 DEF AuditRecords, RunWritten, StatusAt, EvidenceIs
  <2>3. auditor[r].pc = "prove"
    BY <1>2
  <2>4. auditor' = [auditor EXCEPT ![r].proved = auditor[r].proved + 1, ![r].pc = "prove"]
    BY <1>5, <1>1, <2>3 DEF Prove, AuditorRecords
  <2>2. ControllerAt(r, "prove", auditor[r].status, auditor[r].proved + 1)
    BY <2>4, <1>1 DEF ControllerAt, AuditorRecords
  <2> QED
    BY <1>2, <1>5, <2>1, <2>2
<1> QED
  BY <1>3, <1>4, <1>5

\* What DeliverAudit does to a run and its controller.
LEMMA DeliverAuditDoes ==
    ASSUME RecordsTyped, NEW r \in Audits, DeliverAudit(r)
    PROVE  /\ auditor[r].pc = "deliver" /\ ended' = ended
           /\ audit'[r] = audit[r]
           /\ \E pc \in {"finish", "fail"} : ControllerAt(r, pc, auditor[r].status, auditor[r].proved)
<1>1. /\ audit \in [Audits -> AuditRecords] /\ auditor \in [Audits -> AuditorRecords]
      /\ audit[r] \in AuditRecords /\ auditor[r] \in AuditorRecords
  BY DEF RecordsTyped
<1>2. auditor[r].pc = "deliver" /\ ended' = ended
  BY DEF DeliverAudit, AuditAt
<1>3. audit'[r] = audit[r]
  BY <1>1 DEF DeliverAudit, Leaves
<1>4. (\E pc \in {"finish", "fail"} : ControllerAt(r, pc, auditor[r].status, auditor[r].proved))
  BY <1>1 DEF DeliverAudit, Moves, Closes, ControllerAt, AuditorRecords, SourceUnchanged
<1> QED
  BY <1>2, <1>3, <1>4

\* What FinishAudit does to a run and its controller.
LEMMA FinishAuditDoes ==
    ASSUME RecordsTyped, NEW r \in Audits, FinishAudit(r)
    PROVE  /\ auditor[r].pc = "finish" /\ ended' = ended \cup {r}
           /\ RunWritten(r) /\ StatusAt(r, audit[r].phase, "COMPLETE", audit[r].lifecycle)
           /\ EvidenceIs(r, audit[r].snapshot, audit[r].review, audit[r].locked, audit[r].compacted)
           /\ ControllerAt(r, "complete", auditor[r].status, auditor[r].proved)
<1>1. /\ audit \in [Audits -> AuditRecords] /\ auditor \in [Audits -> AuditorRecords]
      /\ audit[r] \in AuditRecords /\ auditor[r] \in AuditorRecords
  BY DEF RecordsTyped
<1>2. auditor[r].pc = "finish" /\ ended' = ended \cup {r}
  BY DEF FinishAudit, AuditAt
<1>3. RunWritten(r) /\ StatusAt(r, audit[r].phase, "COMPLETE", audit[r].lifecycle)
      /\ EvidenceIs(r, audit[r].snapshot, audit[r].review, audit[r].locked, audit[r].compacted)
  BY <1>1 DEF FinishAudit, Record, AuditRecords, RunWritten, StatusAt, EvidenceIs
<1>4. ControllerAt(r, "complete", auditor[r].status, auditor[r].proved)
  BY <1>1 DEF FinishAudit, Moves, Closes, ControllerAt, AuditorRecords
<1> QED
  BY <1>2, <1>3, <1>4

\* What CompleteAudit does to a run and its controller.
LEMMA CompleteAuditDoes ==
    ASSUME RecordsTyped, NEW r \in Audits, CompleteAudit(r)
    PROVE  /\ auditor[r].pc = "complete" /\ ended' = ended
           /\ RunWritten(r) /\ StatusAt(r, "COMPLETE", audit[r].final, audit[r].lifecycle)
           /\ EvidenceIs(r, audit[r].snapshot, audit[r].review, audit[r].locked, audit[r].compacted)
           /\ ControllerAt(r, "close", "COMPLETE", auditor[r].proved)
<1>1. /\ audit \in [Audits -> AuditRecords] /\ auditor \in [Audits -> AuditorRecords]
      /\ audit[r] \in AuditRecords /\ auditor[r] \in AuditorRecords
  BY DEF RecordsTyped
<1>2. auditor[r].pc = "complete" /\ ended' = ended
  BY DEF CompleteAudit, AuditAt
<1>3. RunWritten(r) /\ StatusAt(r, "COMPLETE", audit[r].final, audit[r].lifecycle)
      /\ EvidenceIs(r, audit[r].snapshot, audit[r].review, audit[r].locked, audit[r].compacted)
  BY <1>1 DEF CompleteAudit, Record, AuditRecords, RunWritten, StatusAt, EvidenceIs
<1>4. ControllerAt(r, "close", "COMPLETE", auditor[r].proved)
  BY <1>1 DEF CompleteAudit, Moves, Closes, ControllerAt, AuditorRecords
<1> QED
  BY <1>2, <1>3, <1>4

\* What FailAudit does to a run and its controller.
LEMMA FailAuditDoes ==
    ASSUME RecordsTyped, NEW r \in Audits, FailAudit(r)
    PROVE  /\ auditor[r].pc = "fail" /\ ended' = ended \cup {r}
           /\ RunWritten(r) /\ StatusAt(r, "BLOCKED", "BLOCKED", audit[r].lifecycle)
           /\ EvidenceIs(r, audit[r].snapshot, audit[r].review, audit[r].locked, audit[r].compacted)
           /\ ControllerAt(r, "close", "BLOCKED", auditor[r].proved)
<1>1. /\ audit \in [Audits -> AuditRecords] /\ auditor \in [Audits -> AuditorRecords]
      /\ audit[r] \in AuditRecords /\ auditor[r] \in AuditorRecords
  BY DEF RecordsTyped
<1>2. auditor[r].pc = "fail" /\ ended' = ended \cup {r}
  BY DEF FailAudit, AuditAt
<1>3. RunWritten(r) /\ StatusAt(r, "BLOCKED", "BLOCKED", audit[r].lifecycle)
      /\ EvidenceIs(r, audit[r].snapshot, audit[r].review, audit[r].locked, audit[r].compacted)
  BY <1>1 DEF FailAudit, Record, AuditRecords, RunWritten, StatusAt, EvidenceIs
<1>4. ControllerAt(r, "close", "BLOCKED", auditor[r].proved)
  BY <1>1 DEF FailAudit, Moves, Closes, ControllerAt, AuditorRecords
<1> QED
  BY <1>2, <1>3, <1>4

\* What StepRaises does to a run and its controller.
LEMMA StepRaisesDoes ==
    ASSUME RecordsTyped, NEW r \in Audits, StepRaises(r)
    PROVE  /\ Working(r) /\ ended' = ended
           /\ audit'[r] = audit[r]
           /\ ControllerAt(r, "fail", auditor[r].status, auditor[r].proved)
<1>1. /\ audit \in [Audits -> AuditRecords] /\ auditor \in [Audits -> AuditorRecords]
      /\ audit[r] \in AuditRecords /\ auditor[r] \in AuditorRecords
  BY DEF RecordsTyped
<1>2. Working(r) /\ ended' = ended
  BY DEF StepRaises, AuditAt
<1>3. audit'[r] = audit[r]
  BY <1>1 DEF StepRaises, Leaves
<1>4. ControllerAt(r, "fail", auditor[r].status, auditor[r].proved)
  BY <1>1 DEF StepRaises, Moves, Closes, ControllerAt, AuditorRecords
<1> QED
  BY <1>2, <1>3, <1>4

\* What InterruptAudit does to a run and its controller.
LEMMA InterruptAuditDoes ==
    ASSUME RecordsTyped, NEW r \in Audits, InterruptAudit(r)
    PROVE  /\ Working(r) /\ ended' = ended
           /\ audit'[r] = audit[r]
           /\ ControllerAt(r, "close", "CANCELED", auditor[r].proved)
<1>1. /\ audit \in [Audits -> AuditRecords] /\ auditor \in [Audits -> AuditorRecords]
      /\ audit[r] \in AuditRecords /\ auditor[r] \in AuditorRecords
  BY DEF RecordsTyped
<1>2. Working(r) /\ ended' = ended
  BY DEF InterruptAudit, AuditAt
<1>3. audit'[r] = audit[r]
  BY <1>1 DEF InterruptAudit, Leaves
<1>4. ControllerAt(r, "close", "CANCELED", auditor[r].proved)
  BY <1>1 DEF InterruptAudit, Moves, Closes, ControllerAt, AuditorRecords
<1> QED
  BY <1>2, <1>3, <1>4

\* What KillAuditor does to a run and its controller.
LEMMA KillAuditorDoes ==
    ASSUME RecordsTyped, NEW r \in Audits, KillAuditor(r)
    PROVE  /\ Live(r) /\ ended' = ended
           /\ audit'[r] = audit[r]
           /\ ControllerAt(r, "idle", "CANCELED", 0)
<1>1. /\ audit \in [Audits -> AuditRecords] /\ auditor \in [Audits -> AuditorRecords]
      /\ audit[r] \in AuditRecords /\ auditor[r] \in AuditorRecords
  BY DEF RecordsTyped
<1>2. Live(r) /\ ended' = ended
  BY DEF KillAuditor, AuditAt
<1>3. audit'[r] = audit[r]
  BY <1>1 DEF KillAuditor, Leaves
<1>4. ControllerAt(r, "idle", "CANCELED", 0)
  BY <1>1 DEF KillAuditor, Moves, Closes, ControllerAt, NoAudit
<1> QED
  BY <1>2, <1>3, <1>4

\* What CleanUp does to a run and its controller.
LEMMA CleanUpDoes ==
    ASSUME RecordsTyped, NEW r \in Audits, CleanUp(r)
    PROVE  /\ auditor[r].pc = "close" /\ ended' = ended \cup {r}
           /\ RunWritten(r) /\ StatusAt(r, audit[r].phase, audit[r].final, auditor[r].status)
           /\ EvidenceIs(r, audit[r].snapshot, audit[r].review, audit[r].locked, audit[r].compacted)
           /\ ControllerAt(r, "retain", auditor[r].status, auditor[r].proved)
<1>1. /\ audit \in [Audits -> AuditRecords] /\ auditor \in [Audits -> AuditorRecords]
      /\ audit[r] \in AuditRecords /\ auditor[r] \in AuditorRecords
  BY DEF RecordsTyped
<1>2. PICK stays \in {FALSE} \cup {audit[r].workspace} :
         /\ Record(r, [audit[r] EXCEPT !.workspace = stays, !.lifecycle = auditor[r].status],
                   audit[r].workspace # stays)
         /\ auditor' = [auditor EXCEPT ![r].pc = "retain", ![r].failed = stays]
  BY DEF CleanUp
<1>3. RunWritten(r) /\ StatusAt(r, audit[r].phase, audit[r].final, auditor[r].status)
      /\ EvidenceIs(r, audit[r].snapshot, audit[r].review, audit[r].locked, audit[r].compacted)
  BY <1>1, <1>2 DEF Record, AuditRecords, RunWritten, StatusAt, EvidenceIs
<1>4. ControllerAt(r, "retain", auditor[r].status, auditor[r].proved) /\ auditor[r].pc = "close"
      /\ ended' = ended \cup {r}
  BY <1>1, <1>2 DEF CleanUp, AuditAt, ControllerAt, AuditorRecords
<1> QED
  BY <1>3, <1>4

\* What ChooseRemovals does to a run and its controller.
LEMMA ChooseRemovalsDoes ==
    ASSUME RecordsTyped, NEW r \in Audits, ChooseRemovals(r)
    PROVE  /\ auditor[r].pc = "retain" /\ ended' = ended
           /\ \/ /\ audit'[r] = audit[r]
                 /\ auditor'[r].pc = "remove" /\ auditor'[r].status = auditor[r].status
                    /\ auditor'[r].proved = auditor[r].proved
              \/ /\ audit[r].kept
                 /\ audit[r].final = "COMPLETE" \/ audit[r].final = "none"
                 /\ audit[r].final = "none"
                    => audit[r].lifecycle = "COMPLETE" \/ audit[r].phase = "COMPLETE"
                 /\ RunWritten(r) /\ StatusAt(r, audit[r].phase, audit[r].final, audit[r].lifecycle)
                 /\ EvidenceIs(r, audit[r].snapshot, audit[r].review, audit[r].locked, TRUE)
                 /\ auditor'[r].pc = "remove" /\ auditor'[r].status = auditor[r].status
                    /\ auditor'[r].proved = auditor[r].proved
<1>1. /\ audit \in [Audits -> AuditRecords] /\ auditor \in [Audits -> AuditorRecords]
      /\ audit[r] \in AuditRecords /\ auditor[r] \in AuditorRecords
  BY DEF RecordsTyped
<1>2. auditor[r].pc = "retain" /\ ended' = ended /\ (Leaves(r) \/ Compact(r))
  BY DEF ChooseRemovals, AuditAt
<1>3. auditor'[r].pc = "remove" /\ auditor'[r].status = auditor[r].status
      /\ auditor'[r].proved = auditor[r].proved
  <2>1. PICK n \in 0 .. Len(ages) :
           auditor' = [auditor EXCEPT ![r].pc = "remove",
                         ![r].victims = {<<i, ages[i]>> : i \in Removable(r) \cap (1 .. n)}]
    BY DEF ChooseRemovals
  <2> DEFINE gone == {<<i, ages[i]>> : i \in Removable(r) \cap (1 .. n)}
  <2>2. auditor' = [auditor EXCEPT ![r].pc = "remove", ![r].victims = gone]
    BY <2>1
  <2> HIDE DEF gone
  <2> QED
    BY <2>2, <1>1 DEF AuditorRecords
<1>4. CASE Leaves(r)
  BY <1>2, <1>3, <1>4 DEF Leaves
<1>5. CASE Compact(r)
  <2>1. /\ audit[r].kept /\ RunStatus(r) = "COMPLETE"
        /\ Record(r, [audit[r] EXCEPT !.compacted = TRUE], FALSE)
    BY <1>5 DEF Compact
  <2>2. audit' = [audit EXCEPT ![r] = [[audit[r] EXCEPT !.compacted = TRUE] EXCEPT !.kept = TRUE,
                                                                   !.remade = @ \/ ~audit[r].kept]]
    BY <2>1 DEF Record
  <2>3. RunWritten(r) /\ StatusAt(r, audit[r].phase, audit[r].final, audit[r].lifecycle)
        /\ EvidenceIs(r, audit[r].snapshot, audit[r].review, audit[r].locked, TRUE)
    BY <2>2, <1>1 DEF AuditRecords, RunWritten, StatusAt, EvidenceIs
  <2>4. /\ audit[r].final = "COMPLETE" \/ audit[r].final = "none"
        /\ audit[r].final = "none" => audit[r].lifecycle = "COMPLETE" \/ audit[r].phase = "COMPLETE"
    BY <2>1 DEF RunStatus
  <2> QED
    BY <1>2, <1>3, <2>1, <2>3, <2>4
<1> QED
  BY <1>2, <1>4, <1>5

\* What EndClose does to a run and its controller.
LEMMA EndCloseDoes ==
    ASSUME RecordsTyped, NEW r \in Audits, EndClose(r)
    PROVE  /\ auditor[r].pc = "remove" /\ ended' = ended
           /\ \/ /\ audit'[r] = audit[r]
                 /\ ControllerAt(r, "idle", "CANCELED", 0)
              \/ /\ auditor[r].status = "COMPLETE"
                 /\ RunWritten(r) /\ StatusAt(r, audit[r].phase, "BLOCKED", audit[r].lifecycle)
                 /\ EvidenceIs(r, audit[r].snapshot, audit[r].review, audit[r].locked, audit[r].compacted)
                 /\ ControllerAt(r, "idle", "CANCELED", 0)
<1>1. /\ audit \in [Audits -> AuditRecords] /\ auditor \in [Audits -> AuditorRecords]
      /\ audit[r] \in AuditRecords /\ auditor[r] \in AuditorRecords
  BY DEF RecordsTyped
<1>2. auditor[r].pc = "remove" /\ ended' = ended
  BY DEF EndClose, AuditAt
<1>3. CASE ~(auditor[r].status = "COMPLETE" /\ auditor[r].failed)
  <2>1. audit'[r] = audit[r]
    BY <1>3, <1>1 DEF EndClose, Leaves
  <2>2. ControllerAt(r, "idle", "CANCELED", 0)
    BY <1>3, <1>1 DEF EndClose, Moves, Closes, ControllerAt, NoAudit
  <2> QED
    BY <1>2, <1>3, <2>1, <2>2
<1>4. CASE auditor[r].status = "COMPLETE" /\ auditor[r].failed
  <2>0. audit' = [audit EXCEPT ![r] = [[audit[r] EXCEPT !.final = "BLOCKED"] EXCEPT !.kept = TRUE,
            !.remade = @ \/ ~audit[r].kept]]
    BY <1>4 DEF EndClose, Record
  <2>1. RunWritten(r) /\ StatusAt(r, audit[r].phase, "BLOCKED", audit[r].lifecycle)
        /\ EvidenceIs(r, audit[r].snapshot, audit[r].review, audit[r].locked, audit[r].compacted)
    BY <2>0, <1>1 DEF AuditRecords, RunWritten, StatusAt, EvidenceIs
  <2>2. ControllerAt(r, "idle", "CANCELED", 0)
    BY <1>4, <1>1 DEF EndClose, Moves, Closes, ControllerAt, NoAudit
  <2> QED
    BY <1>2, <1>4, <2>1, <2>2
<1> QED
  BY <1>3, <1>4

\* A step of one audit leaves the other runs alone, but for the one it removes.
LEMMA OthersKept ==
    ASSUME RecordsTyped, NEW r \in Audits, AuditStep(r)
    PROVE  /\ \A q \in Audits \ {r} : auditor'[q] = auditor[q]
           /\ RemoveRun(r) \/ \A q \in Audits \ {r} : audit'[q] = audit[q]
           /\ ended \subseteq ended'
<1>1. audit \in [Audits -> AuditRecords] /\ auditor \in [Audits -> AuditorRecords]
  BY DEF RecordsTyped
<1> USE <1>1 DEF Moves, Closes, Leaves, Record
<1>2. CASE OpenAudit(r)
  BY <1>2 DEF OpenAudit
<1>3. CASE Isolate(r)
  BY <1>3 DEF Isolate
<1>4. CASE Diagnose(r)
  BY <1>4 DEF Diagnose
<1>5. CASE Audit(r)
  BY <1>5 DEF Audit
<1>6. CASE Prove(r)
  BY <1>6 DEF Prove
<1>7. CASE DeliverAudit(r)
  BY <1>7 DEF DeliverAudit
<1>8. CASE FinishAudit(r)
  BY <1>8 DEF FinishAudit
<1>9. CASE CompleteAudit(r)
  BY <1>9 DEF CompleteAudit
<1>10. CASE FailAudit(r)
  BY <1>10 DEF FailAudit
<1>11. CASE StepRaises(r)
  BY <1>11 DEF StepRaises
<1>12. CASE InterruptAudit(r)
  BY <1>12 DEF InterruptAudit
<1>13. CASE KillAuditor(r)
  BY <1>13 DEF KillAuditor
<1>14. CASE CleanUp(r)
  BY <1>14 DEF CleanUp
<1>15. CASE ChooseRemovals(r)
  BY <1>15 DEF ChooseRemovals, Compact
<1>16. CASE RemoveRun(r)
  BY <1>16 DEF RemoveRun
<1>17. CASE EndClose(r)
  BY <1>17 DEF EndClose
<1> QED
  BY <1>2, <1>3, <1>4, <1>5, <1>6, <1>7, <1>8, <1>9, <1>10, <1>11, <1>12, <1>13, <1>14, <1>15,
     <1>16, <1>17 DEF AuditStep

\* The run that is removed had ended, and leaves nothing.
LEMMA RemovalKeeps ==
    ASSUME RecordsTyped, NEW r \in Audits, RemoveRun(r),
           \A q \in Audits : EndedAt(q) /\ ProvedAt(q) /\ EvidenceAt(q) /\ ResultAt(q) /\ GoneAt(q)
    PROVE  \A q \in Audits : EndedAt(q)' /\ ProvedAt(q)' /\ EvidenceAt(q)' /\ ResultAt(q)' /\ GoneAt(q)'
<1>1. PICK v \in auditor[r].victims :
         /\ audit' = [audit EXCEPT ![v[2]] = NoRecord] /\ UNCHANGED ended
         /\ auditor' = [auditor EXCEPT ![r].victims = IF audit[v[2]].kept THEN @ \ {v} ELSE {},
                                       ![r].failed = @ \/ ~audit[v[2]].kept]
  BY DEF RemoveRun
<1>2. /\ audit \in [Audits -> AuditRecords] /\ auditor \in [Audits -> AuditorRecords]
      /\ v[2] \in Audits /\ v[2] \in ended /\ auditor[r].pc = "remove"
  BY DEF RecordsTyped, AuditorRecords, EndedAt, RemoveRun, AuditAt
<1> TAKE q \in Audits
<1>3. /\ auditor'[q].pc = auditor[q].pc /\ auditor'[q].status = auditor[q].status
      /\ auditor'[q].proved = auditor[q].proved /\ auditor'[q].victims \subseteq auditor[q].victims
      /\ audit'[q] = IF q = v[2] THEN NoRecord ELSE audit[q]
  BY <1>1, <1>2 DEF AuditorRecords
<1>4. CASE q = v[2]
  BY <1>1, <1>2, <1>3, <1>4
     DEF EndedAt, ProvedAt, EvidenceAt, ResultAt, GoneAt, Whole, NoRecord, Live, AuditAt
<1>5. CASE q # v[2]
  BY <1>1, <1>2, <1>3, <1>5
     DEF EndedAt, ProvedAt, EvidenceAt, ResultAt, GoneAt, Whole, Outcome, Live, AuditAt
<1> QED
  BY <1>4, <1>5

\* The invariants of a run, after each step of its audit.
LEMMA AuditKeeps ==
    ASSUME RecordsTyped, AgesOK, NEW r \in Audits, AuditStep(r), ~RemoveRun(r),
           \A q \in Audits : EndedAt(q), ProvedAt(r), EvidenceAt(r), ResultAt(r), GoneAt(r)
    PROVE  EndedAt(r)' /\ ProvedAt(r)' /\ EvidenceAt(r)' /\ ResultAt(r)' /\ GoneAt(r)'
<1>a. /\ auditor[r].status \in {"none"} \cup Terminal /\ auditor[r].proved \in 0 .. 3
      /\ audit[r].final \in {"none", "BLOCKED", "COMPLETE"} /\ audit[r].lifecycle \in {"none"} \cup Terminal
      /\ audit[r].locked \subseteq Proofs
      /\ audit[r].snapshot \in Nat /\ audit[r].review \in Nat /\ sourceFiles \in Nat \ {0}
  BY ReadOnlyAssumption DEF RecordsTyped, AuditRecords, AuditorRecords
<1> USE DEF RunWritten, StatusAt, EvidenceIs, ControllerAt, Opened
<1>1. CASE OpenAudit(r)
  <2>1. EndedAt(r)'
    BY <1>a, <1>1, OpenAuditDoes
       DEF EndedAt, Outcome, Live, AuditAt, Terminal, GoneAt, NoRecord, Terminal
  <2>2. ProvedAt(r)'
    BY <1>a, <1>1, OpenAuditDoes DEF ProvedAt
  <2>3. EvidenceAt(r)'
    BY <1>a, <1>1, OpenAuditDoes
       DEF EvidenceAt, Whole, Audited, ProvedAt, Proofs, GoneAt, NoRecord, Terminal
  <2>4. ResultAt(r)'
    BY <1>a, <1>1, OpenAuditDoes DEF ResultAt, Whole, GoneAt, NoRecord, Terminal, Terminal
  <2>5. GoneAt(r)'
    BY <1>a, <1>1, OpenAuditDoes DEF GoneAt
  <2> QED
    BY <2>1, <2>2, <2>3, <2>4, <2>5
<1>2. CASE Isolate(r)
  <2>1. EndedAt(r)'
    BY <1>a, <1>2, IsolateDoes DEF EndedAt, Outcome, Live, AuditAt, Terminal
  <2>2. ProvedAt(r)'
    BY <1>a, <1>2, IsolateDoes DEF ProvedAt
  <2>3. EvidenceAt(r)'
    BY <1>a, <1>2, IsolateDoes DEF EvidenceAt, Whole, Audited, ProvedAt, Proofs
  <2>4. ResultAt(r)'
    BY <1>a, <1>2, IsolateDoes DEF ResultAt, Whole, Terminal
  <2>5. GoneAt(r)'
    BY <1>a, <1>2, IsolateDoes DEF GoneAt
  <2> QED
    BY <2>1, <2>2, <2>3, <2>4, <2>5
<1>3. CASE Diagnose(r)
  <2>1. EndedAt(r)'
    BY <1>a, <1>3, DiagnoseDoes DEF EndedAt, Outcome, Live, AuditAt, Terminal
  <2>2. ProvedAt(r)'
    BY <1>a, <1>3, DiagnoseDoes DEF ProvedAt
  <2>3. EvidenceAt(r)'
    BY <1>a, <1>3, DiagnoseDoes DEF EvidenceAt, Whole, Audited, ProvedAt, Proofs
  <2>4. ResultAt(r)'
    BY <1>a, <1>3, DiagnoseDoes DEF ResultAt, Whole, Terminal
  <2>5. GoneAt(r)'
    BY <1>a, <1>3, DiagnoseDoes DEF GoneAt
  <2> QED
    BY <2>1, <2>2, <2>3, <2>4, <2>5
<1>4. CASE Audit(r)
  <2>1. EndedAt(r)'
    BY <1>a, <1>4, AuditDoes DEF EndedAt, Outcome, Live, AuditAt, Terminal
  <2>2. ProvedAt(r)'
    BY <1>a, <1>4, AuditDoes DEF ProvedAt
  <2>3. EvidenceAt(r)'
    BY <1>a, <1>4, AuditDoes DEF EvidenceAt, Whole, Audited, ProvedAt, Proofs
  <2>4. ResultAt(r)'
    BY <1>a, <1>4, AuditDoes DEF ResultAt, Whole, Terminal
  <2>5. GoneAt(r)'
    BY <1>a, <1>4, AuditDoes DEF GoneAt
  <2> QED
    BY <2>1, <2>2, <2>3, <2>4, <2>5
<1>5. CASE Prove(r)
  <2>1. EndedAt(r)'
    BY <1>a, <1>5, ProveDoes DEF EndedAt, Outcome, Live, AuditAt, Terminal
  <2>2. ProvedAt(r)'
    BY <1>a, <1>5, ProveDoes DEF ProvedAt
  <2>3. EvidenceAt(r)'
    BY <1>a, <1>5, ProveDoes DEF EvidenceAt, Whole, Audited, ProvedAt, Proofs
  <2>4. ResultAt(r)'
    BY <1>a, <1>5, ProveDoes DEF ResultAt, Whole, Terminal
  <2>5. GoneAt(r)'
    BY <1>a, <1>5, ProveDoes DEF GoneAt
  <2> QED
    BY <2>1, <2>2, <2>3, <2>4, <2>5
<1>6. CASE DeliverAudit(r)
  <2>1. EndedAt(r)'
    BY <1>a, <1>6, DeliverAuditDoes DEF EndedAt, Outcome, Live, AuditAt, Terminal
  <2>2. ProvedAt(r)'
    BY <1>a, <1>6, DeliverAuditDoes DEF ProvedAt
  <2>3. EvidenceAt(r)'
    BY <1>a, <1>6, DeliverAuditDoes DEF EvidenceAt, Whole, Audited, ProvedAt, Proofs
  <2>4. ResultAt(r)'
    BY <1>a, <1>6, DeliverAuditDoes DEF ResultAt, Whole, Terminal
  <2>5. GoneAt(r)'
    BY <1>a, <1>6, DeliverAuditDoes DEF GoneAt
  <2> QED
    BY <2>1, <2>2, <2>3, <2>4, <2>5
<1>7. CASE FinishAudit(r)
  <2>1. EndedAt(r)'
    BY <1>a, <1>7, FinishAuditDoes DEF EndedAt, Outcome, Live, AuditAt, Terminal
  <2>2. ProvedAt(r)'
    BY <1>a, <1>7, FinishAuditDoes DEF ProvedAt
  <2>3. EvidenceAt(r)'
    BY <1>a, <1>7, FinishAuditDoes DEF EvidenceAt, Whole, Audited, ProvedAt, Proofs
  <2>4. ResultAt(r)'
    BY <1>a, <1>7, FinishAuditDoes DEF ResultAt, Whole, Terminal
  <2>5. GoneAt(r)'
    BY <1>a, <1>7, FinishAuditDoes DEF GoneAt
  <2> QED
    BY <2>1, <2>2, <2>3, <2>4, <2>5
<1>8. CASE CompleteAudit(r)
  <2>1. EndedAt(r)'
    BY <1>a, <1>8, CompleteAuditDoes DEF EndedAt, Outcome, Live, AuditAt, Terminal
  <2>2. ProvedAt(r)'
    BY <1>a, <1>8, CompleteAuditDoes DEF ProvedAt
  <2>3. EvidenceAt(r)'
    BY <1>a, <1>8, CompleteAuditDoes DEF EvidenceAt, Whole, Audited, ProvedAt, Proofs
  <2>4. ResultAt(r)'
    BY <1>a, <1>8, CompleteAuditDoes DEF ResultAt, Whole, Terminal
  <2>5. GoneAt(r)'
    BY <1>a, <1>8, CompleteAuditDoes DEF GoneAt
  <2> QED
    BY <2>1, <2>2, <2>3, <2>4, <2>5
<1>9. CASE FailAudit(r)
  <2>1. EndedAt(r)'
    BY <1>a, <1>9, FailAuditDoes DEF EndedAt, Outcome, Live, AuditAt, Terminal
  <2>2. ProvedAt(r)'
    BY <1>a, <1>9, FailAuditDoes DEF ProvedAt
  <2>3. EvidenceAt(r)'
    BY <1>a, <1>9, FailAuditDoes DEF EvidenceAt, Whole, Audited, ProvedAt, Proofs
  <2>4. ResultAt(r)'
    BY <1>a, <1>9, FailAuditDoes DEF ResultAt, Whole, Terminal
  <2>5. GoneAt(r)'
    BY <1>a, <1>9, FailAuditDoes DEF GoneAt
  <2> QED
    BY <2>1, <2>2, <2>3, <2>4, <2>5
<1>10. CASE StepRaises(r)
  <2>1. EndedAt(r)'
    BY <1>a, <1>10, StepRaisesDoes DEF EndedAt, Outcome, Live, AuditAt, Terminal, Working
  <2>2. ProvedAt(r)'
    BY <1>a, <1>10, StepRaisesDoes DEF ProvedAt, Working
  <2>3. EvidenceAt(r)'
    BY <1>a, <1>10, StepRaisesDoes DEF EvidenceAt, Whole, Audited, ProvedAt, Proofs, Working
  <2>4. ResultAt(r)'
    BY <1>a, <1>10, StepRaisesDoes DEF ResultAt, Whole, Terminal, Working
  <2>5. GoneAt(r)'
    BY <1>a, <1>10, StepRaisesDoes DEF GoneAt, Working
  <2> QED
    BY <2>1, <2>2, <2>3, <2>4, <2>5
<1>11. CASE InterruptAudit(r)
  <2>1. EndedAt(r)'
    BY <1>a, <1>11, InterruptAuditDoes DEF EndedAt, Outcome, Live, AuditAt, Terminal, Working
  <2>2. ProvedAt(r)'
    BY <1>a, <1>11, InterruptAuditDoes DEF ProvedAt, Working
  <2>3. EvidenceAt(r)'
    BY <1>a, <1>11, InterruptAuditDoes DEF EvidenceAt, Whole, Audited, ProvedAt, Proofs, Working
  <2>4. ResultAt(r)'
    BY <1>a, <1>11, InterruptAuditDoes DEF ResultAt, Whole, Terminal, Working
  <2>5. GoneAt(r)'
    BY <1>a, <1>11, InterruptAuditDoes DEF GoneAt, Working
  <2> QED
    BY <2>1, <2>2, <2>3, <2>4, <2>5
<1>12. CASE KillAuditor(r)
  <2>1. EndedAt(r)'
    BY <1>a, <1>12, KillAuditorDoes DEF EndedAt, Outcome, Live, AuditAt, Terminal
  <2>2. ProvedAt(r)'
    BY <1>a, <1>12, KillAuditorDoes DEF ProvedAt
  <2>3. EvidenceAt(r)'
    BY <1>a, <1>12, KillAuditorDoes DEF EvidenceAt, Whole, Audited, ProvedAt, Proofs
  <2>4. ResultAt(r)'
    BY <1>a, <1>12, KillAuditorDoes DEF ResultAt, Whole, Terminal
  <2>5. GoneAt(r)'
    BY <1>a, <1>12, KillAuditorDoes DEF GoneAt
  <2> QED
    BY <2>1, <2>2, <2>3, <2>4, <2>5
<1>13. CASE CleanUp(r)
  <2>1. EndedAt(r)'
    BY <1>a, <1>13, CleanUpDoes DEF EndedAt, Outcome, Live, AuditAt, Terminal
  <2>2. ProvedAt(r)'
    BY <1>a, <1>13, CleanUpDoes DEF ProvedAt
  <2>3. EvidenceAt(r)'
    BY <1>a, <1>13, CleanUpDoes DEF EvidenceAt, Whole, Audited, ProvedAt, Proofs
  <2>4. ResultAt(r)'
    BY <1>a, <1>13, CleanUpDoes DEF ResultAt, Whole, Terminal
  <2>5. GoneAt(r)'
    BY <1>a, <1>13, CleanUpDoes DEF GoneAt
  <2> QED
    BY <2>1, <2>2, <2>3, <2>4, <2>5
<1>14. CASE ChooseRemovals(r)
  <2>a. PICK n \in 0 .. Len(ages) :
           auditor' = [auditor EXCEPT ![r].pc = "remove",
                         ![r].victims = {<<i, ages[i]>> : i \in Removable(r) \cap (1 .. n)}]
    BY <1>14 DEF ChooseRemovals
  <2>b. \A v \in auditor'[r].victims : \E i \in DOMAIN ages : v[2] = ages[i]
        /\ RunStatus(ages[i]) \in Terminal
    BY <2>a DEF Removable, RecordsTyped, AuditorRecords
  <2>c. \A v \in auditor'[r].victims : v[2] \in ended
    <3>1. \A q \in Audits : RunStatus(q) \in Terminal => Outcome(q)
      BY DEF RunStatus, Outcome, Terminal
    <3>2. \A i \in DOMAIN ages : ages[i] \in Audits
      BY DEF AgesOK, Listed
    <3> QED
      BY <2>b, <3>1, <3>2 DEF EndedAt
  <2>d. r \in ended
    BY <1>14, ChooseRemovalsDoes DEF EndedAt, Outcome
  <2>1. EndedAt(r)'
    BY <1>14, <2>c, <2>d, ChooseRemovalsDoes DEF EndedAt
  <2>2. ProvedAt(r)'
    BY <1>a, <1>14, ChooseRemovalsDoes DEF ProvedAt
  <2>3. EvidenceAt(r)'
    BY <1>a, <1>14, ChooseRemovalsDoes DEF EvidenceAt, Whole, Audited, ProvedAt, Proofs
  <2>4. ResultAt(r)'
    BY <1>a, <1>14, ChooseRemovalsDoes DEF ResultAt, Whole, Terminal
  <2>5. GoneAt(r)'
    BY <1>a, <1>14, ChooseRemovalsDoes DEF GoneAt
  <2> QED
    BY <2>1, <2>2, <2>3, <2>4, <2>5
<1>15. CASE EndClose(r)
  <2>1. EndedAt(r)'
    BY <1>a, <1>15, EndCloseDoes DEF EndedAt, Outcome, Live, AuditAt, Terminal
  <2>2. ProvedAt(r)'
    BY <1>a, <1>15, EndCloseDoes DEF ProvedAt
  <2>3. EvidenceAt(r)'
    BY <1>a, <1>15, EndCloseDoes DEF EvidenceAt, Whole, Audited, ProvedAt, Proofs
  <2>4. ResultAt(r)'
    BY <1>a, <1>15, EndCloseDoes DEF ResultAt, Whole, Terminal
  <2>5. GoneAt(r)'
    BY <1>a, <1>15, EndCloseDoes DEF GoneAt
  <2> QED
    BY <2>1, <2>2, <2>3, <2>4, <2>5
<1> QED
  BY <1>1, <1>2, <1>3, <1>4, <1>5, <1>6, <1>7, <1>8, <1>9, <1>10, <1>11, <1>12, <1>13, <1>14,
     <1>15 DEF AuditStep

\* The initial states of the read-only runs.
LEMMA ReadOnlyStarts == ReadOnlyInit => ReadOnlyInv
<1> SUFFICES ASSUME ReadOnlyInit
             PROVE  ReadOnlyInv
  OBVIOUS
<1>1. NoRecord \in AuditRecords /\ NoAudit \in AuditorRecords
  BY ReadOnlyAssumption
     DEF NoRecord, NoAudit, AuditRecords, AuditorRecords, AuditSteps, Terminal, Proofs
<1>2. RecordsTyped
  BY <1>1, ReadOnlyAssumption DEF ReadOnlyInit, RecordsTyped
<1>3. AgesOK
  BY DEF ReadOnlyInit, AgesOK, Listed, NoRecord
<1>4. \A r \in Audits : EndedAt(r) /\ ProvedAt(r) /\ EvidenceAt(r) /\ ResultAt(r) /\ GoneAt(r)
  BY
     DEF ReadOnlyInit, EndedAt, ProvedAt, EvidenceAt, ResultAt, GoneAt, Whole, Outcome, Live,
         AuditAt, NoRecord,
         NoAudit, Terminal
<1> QED
  BY <1>2, <1>3, <1>4, AuditsByName DEF ReadOnlyInv

\* Every step keeps the invariant of the read-only runs.
LEMMA ReadOnlyStep == ReadOnlyInv /\ [ReadOnlyNext]_readOnlyVars => ReadOnlyInv'
<1> SUFFICES ASSUME ReadOnlyInv, [ReadOnlyNext]_readOnlyVars
             PROVE  ReadOnlyInv'
  OBVIOUS
<1>a. /\ RecordsTyped /\ AgesOK
      /\ \A r \in Audits : EndedAt(r) /\ ProvedAt(r) /\ EvidenceAt(r) /\ ResultAt(r) /\ GoneAt(r)
  BY AuditsByName DEF ReadOnlyInv
<1> SUFFICES /\ RecordsTyped' /\ AgesOK'
             /\ \A r \in Audits : EndedAt(r)' /\ ProvedAt(r)' /\ EvidenceAt(r)' /\ ResultAt(r)'
                /\ GoneAt(r)'
  BY DEF ReadOnlyInv, ReadOnlyTypeOK, RecordsTyped, AgesOK, Listed, AuditRecords, AuditorRecords
<1>1. CASE \E r \in Audits : AuditStep(r)
  <2>1. PICK r \in Audits : AuditStep(r)
    BY <1>1
  <2>2. RecordsTyped' /\ AgesOK'
    BY <2>1, <1>a, AuditTypes
  <2>3. CASE RemoveRun(r)
    BY <2>2, <2>3, <1>a, RemovalKeeps
  <2>4. CASE ~RemoveRun(r)
    <3>1. EndedAt(r)' /\ ProvedAt(r)' /\ EvidenceAt(r)' /\ ResultAt(r)' /\ GoneAt(r)'
      BY <2>1, <2>4, <1>a, AuditKeeps
    <3>2. /\ \A q \in Audits \ {r} : auditor'[q] = auditor[q] /\ audit'[q] = audit[q]
          /\ ended \subseteq ended'
      BY <2>1, <2>4, <1>a, OthersKept
    <3>3. ASSUME NEW q \in Audits \ {r}
          PROVE  EndedAt(q)' /\ ProvedAt(q)' /\ EvidenceAt(q)' /\ ResultAt(q)' /\ GoneAt(q)'
      BY <3>2, <1>a
         DEF EndedAt, ProvedAt, EvidenceAt, ResultAt, GoneAt, Whole, Outcome, Live, AuditAt
    <3> QED
      BY <2>2, <3>1, <3>3
  <2> QED
    BY <2>3, <2>4
<1>2. CASE OperatorEdits
  <2>1. /\ UNCHANGED <<audit, auditor, ages, ended, cuts>> /\ sourceFiles' \in 1 .. MaxEdits + 1
    BY <1>2, <1>a, ReadOnlyAssumption DEF OperatorEdits, RecordsTyped
  <2> QED
    BY <2>1, <1>a
       DEF RecordsTyped, AgesOK, Listed, EndedAt, ProvedAt, EvidenceAt, ResultAt, GoneAt, Whole,
           Outcome,
       Live, AuditAt
<1>3. CASE UNCHANGED readOnlyVars
  BY <1>3, <1>a
     DEF readOnlyVars, RecordsTyped, AgesOK, Listed, EndedAt, ProvedAt, EvidenceAt, ResultAt,
         GoneAt, Whole,
     Outcome, Live, AuditAt
<1> QED
  BY <1>1, <1>2, <1>3 DEF ReadOnlyNext

\* The inductive invariant of the read-only runs.
THEOREM ReadOnlyInvariant == ReadOnlySpec => []ReadOnlyInv
BY ReadOnlyStarts, ReadOnlyStep, PTL DEF ReadOnlySpec

\* Retention takes only runs that have ended, a result of COMPLETE rests on the
\* three proofs and a review of the snapshot, and only a run with a result is
\* compacted, however the closeouts of several runs take turns, and wherever
\* their controllers die or fail.
THEOREM EvidenceKept == ReadOnlySpec => []EvidenceStands
<1>1. ReadOnlyInv => EvidenceStands
  <2> SUFFICES ASSUME ReadOnlyInv, NEW r \in Audits
               PROVE  /\ (~audit[r].kept /\ auditor[r].status # "none") => r \in ended
                      /\ (audit[r].final = "COMPLETE" /\ ~audit[r].remade)
                            => audit[r].locked = Proofs /\ audit[r].review = audit[r].snapshot
                      /\ audit[r].compacted => audit[r].remade \/ audit[r].final # "none"
    BY DEF EvidenceStands
  <2> QED
    BY DEF ReadOnlyInv, EndedAt, EvidenceAt, ResultAt, GoneAt, Whole, NoRecord
<1> QED
  BY <1>1, ReadOnlyInvariant, PTL

-----------------------------------------------------------------------------
(* The release-ready command. *)

\* Between HoldHead and Settle the command holds the head it locked.
HeldSteps == Steps \ {"idle", "ref", "lock", "answered"}
\* The report names the run, the commit the gates passed on, the archive.
AfterProof == HeldSteps \ {"start", "proof"}
AfterGates == AfterProof \ {"digest", "gates"}
AfterPack  == {"rewrite", "before", "final", "status", "after", "settle"}

\* A commit is younger than its parent; the head the command holds is the
\* branch's, and the report speaks of no other commit.
HistoryInv == \A c \in 1 .. Len(history) : history[c].parent < c
HeldInv ==
    /\ check.pc = "lock" => check.ref = branch
    /\ check.pc \in HeldSteps => check.holds = {branch, "HEAD"} /\ HEAD = check.release
    /\ check.pc \in HeldSteps \ {"start"} => check.initial = check.release
ReportInv ==
    /\ check.pc \in AfterProof \cup {"answered"} => check.report.run.head = check.release
    /\ check.pc \in AfterGates \cup {"answered"} /\ check.report.ok =>
          check.report.gated = check.release
    /\ check.pc \in AfterPack \cup {"answered"} /\ check.report.ok => check.release \in archives
    /\ check.pc = "answered" => handoff = FinalHandoff
ReleaseInv == ReleaseTypeOK /\ HistoryInv /\ HeldInv /\ ReportInv

\* The records of the repository and of the command, by name.
CommitRecords  == [parent : Nat, tree : Trees]
LatestRecords  == [base : Commits, tree : Trees, complete : BOOLEAN]
HandoffRecords == [status : {"none", "READY", "NOT READY"}, archive : Commits]
CheckRecords   == [pc : Steps, release : Commits, ref : Branches \cup {NoBranch},
                   holds : SUBSET (Branches \cup {"HEAD"}), initial : Commits, report : Report]
RecordsOK ==
    /\ history \in Seq(CommitRecords) /\ tips \in [Branches -> Commits \ {0}] /\ branch \in Branches
    /\ worktree \in Trees /\ latest \in LatestRecords /\ archives \subseteq Commits
    /\ handoff \in HandoffRecords /\ check \in CheckRecords

\* The type of the records, by name.
LEMMA RecordsByName == ReleaseTypeOK <=> RecordsOK
BY DEF ReleaseTypeOK, RecordsOK, CommitRecords, LatestRecords, HandoffRecords, CheckRecords

\* A sequence and what is appended to it.
LEMMA Appended ==
    ASSUME NEW S, NEW s \in Seq(S)
    PROVE  /\ Len(s) \in Nat /\ \A i \in 1 .. Len(s) : s[i] \in S
           /\ \A e \in S : /\ Append(s, e) \in Seq(S) /\ Len(Append(s, e)) = Len(s) + 1
                           /\ \A i \in 1 .. Len(s) : Append(s, e)[i] = s[i]
                           /\ Append(s, e)[Len(s) + 1] = e
OBVIOUS

\* Where the head stands: a commit of the history, with a parent and a tree.
LEMMA HeadIsCommit ==
    ASSUME RecordsOK, HistoryInv
    PROVE  /\ Len(history) \in Nat /\ HEAD \in 1 .. Len(history)
           /\ history[HEAD].parent \in 0 .. HEAD - 1
           /\ \A b \in Branches : Tree(tips[b]) \in Trees /\ tips[b] \in 1 .. Len(history)
<1>1. Len(history) \in Nat /\ \A c \in 1 .. Len(history) : history[c] \in CommitRecords
  BY Appended DEF RecordsOK
<1>2. \A b \in Branches : tips[b] \in 1 .. Len(history)
  BY <1>1 DEF RecordsOK, Commits
<1>3. \A c \in 1 .. Len(history) : history[c].parent \in Nat /\ history[c].tree \in Trees
  BY <1>1 DEF CommitRecords
<1>4. HEAD \in 1 .. Len(history)
  BY <1>2 DEF HEAD, RecordsOK
<1> QED
  BY <1>1, <1>2, <1>3, <1>4 DEF HistoryInv, Tree

\* The initial states of the repository and the command.
LEMMA ReleaseStarts == ReleaseInit => ReleaseInv
<1> SUFFICES ASSUME ReleaseInit
             PROVE  ReleaseInv
  OBVIOUS
<1>1. /\ history = <<[parent |-> 0, tree |-> BaseTree]>> /\ Len(history) = 1
      /\ history[1].parent = 0
  BY DEF ReleaseInit
<1>2. check = Idle /\ check.pc = "idle" /\ Commits = 0 .. 1
  BY <1>1 DEF ReleaseInit, Idle, Commits
<1>3. [parent |-> 0, tree |-> BaseTree] \in CommitRecords
  BY ReleaseAssumption DEF CommitRecords
<1>4. history \in Seq(CommitRecords)
  BY <1>1, <1>3
<1>5. NoReport \in Report
  BY <1>2, ReleaseAssumption DEF NoReport, NoRun, Report
<1>6. check \in CheckRecords
  BY <1>2, <1>5 DEF Idle, CheckRecords, Steps
<1>7. latest.base = 1 /\ latest.tree \in Trees /\ latest \in LatestRecords
  <2>1. latest \in [base : {1}, tree : Trees, complete : {TRUE}]
    BY DEF ReleaseInit
  <2>2. 1 \in Commits
    BY <1>2
  <2> QED
    BY <2>1, <2>2 DEF LatestRecords
<1>8. RecordsOK
  BY <1>2, <1>4, <1>6, <1>7 DEF ReleaseInit, RecordsOK, HandoffRecords
<1> QED
  BY <1>1, <1>2, <1>8, RecordsByName
  DEF ReleaseInv, HistoryInv, HeldInv, ReportInv, HeldSteps, AfterProof, AfterGates, AfterPack

\* What the user does keeps the records whole.
LEMMA UserTypes == RecordsOK /\ HistoryInv /\ UserStep => RecordsOK' /\ HistoryInv'
<1> SUFFICES ASSUME RecordsOK, HistoryInv, UserStep
             PROVE  RecordsOK' /\ HistoryInv'
  OBVIOUS
<1>a. /\ Len(history) \in Nat /\ HEAD \in 1 .. Len(history)
      /\ history[HEAD].parent \in 0 .. HEAD - 1
      /\ \A b \in Branches : Tree(tips[b]) \in Trees /\ tips[b] \in 1 .. Len(history)
  BY HeadIsCommit
<1>b. UNCHANGED <<archives, handoff, check>>
  BY DEF UserStep
<1>c. ASSUME history' = history
      PROVE  /\ HistoryInv' /\ Commits' = Commits /\ LatestRecords' = LatestRecords
             /\ HandoffRecords' = HandoffRecords /\ CheckRecords' = CheckRecords
             /\ history' \in Seq(CommitRecords)
  BY <1>c DEF HistoryInv, Commits, LatestRecords, HandoffRecords, CheckRecords, Report, RecordsOK
<1>1. CASE \E t \in Trees : Edit(t)
  BY <1>1, <1>b, <1>c DEF Edit, RecordsOK
<1>2. CASE \E t \in Trees, c \in BOOLEAN : RunEnds(t, c)
  <2>1. PICK t \in Trees, c \in BOOLEAN : RunEnds(t, c)
    BY <1>2
  <2>2. [base |-> HEAD, tree |-> t, complete |-> c] \in LatestRecords
    BY <1>a DEF LatestRecords, Commits
  <2> QED
    BY <2>1, <2>2, <1>b, <1>c DEF RunEnds, RecordsOK
<1>3. CASE Commit
  <2> DEFINE made == [parent |-> HEAD, tree |-> worktree]
  <2>1. /\ history' = Append(history, made)
        /\ tips' = [tips EXCEPT ![branch] = Len(history')]
        /\ UNCHANGED <<branch, worktree, latest>>
    BY <1>3 DEF Commit
  <2>2. made \in CommitRecords /\ made.parent = HEAD
    BY <1>a DEF RecordsOK, CommitRecords
  <2> HIDE DEF made
  <2>3. /\ history' \in Seq(CommitRecords) /\ Len(history') = Len(history) + 1
        /\ \A c \in 1 .. Len(history) : history'[c] = history[c]
        /\ history'[Len(history) + 1].parent = HEAD
    BY <2>1, <2>2, Appended DEF RecordsOK
  <2>4. HistoryInv'
    BY <2>3, <1>a DEF HistoryInv
  <2>5. /\ Commits' = 0 .. Len(history) + 1 /\ Commits \subseteq Commits'
        /\ Len(history') \in Commits' \ {0}
    BY <2>3, <1>a DEF Commits
  <2>6. tips' \in [Branches -> Commits' \ {0}] /\ archives' \subseteq Commits'
    BY <2>1, <2>5, <1>b DEF RecordsOK
  <2>7. LatestRecords \subseteq LatestRecords' /\ HandoffRecords \subseteq HandoffRecords'
    BY <2>5 DEF LatestRecords, HandoffRecords
  <2>8. Report \subseteq Report'
    BY <2>5 DEF Report
  <2>9. CheckRecords \subseteq CheckRecords'
    BY <2>5, <2>8 DEF CheckRecords
  <2> QED
    BY <2>1, <2>3, <2>4, <2>6, <2>7, <2>9, <1>b DEF RecordsOK
<1>4. CASE Undo
  <2>1. /\ history[HEAD].parent \in Commits \ {0} /\ UNCHANGED <<history, branch, worktree, latest>>
        /\ tips' = [tips EXCEPT ![branch] = history[HEAD].parent]
    BY <1>4, <1>a DEF Undo, Commits
  <2> QED
    BY <2>1, <1>b, <1>c DEF RecordsOK
<1>5. CASE \E b \in Branches : Switch(b)
  BY <1>5, <1>a, <1>b, <1>c DEF Switch, RecordsOK
<1> QED
  BY <1>1, <1>2, <1>3, <1>4, <1>5 DEF UserStep

\* The command holds what the user could move from it.
LEMMA UserKeepsHead ==
    HeldInv /\ ReportInv /\ UserStep /\ "race" \notin UserActs => HeldInv' /\ ReportInv'
<1> SUFFICES ASSUME HeldInv, ReportInv, UserStep, "race" \notin UserActs
             PROVE  HeldInv' /\ ReportInv'
  OBVIOUS
<1>a. UNCHANGED <<archives, handoff, check>>
  BY DEF UserStep
<1>b. ReportInv'
  BY <1>a DEF ReportInv, FinalHandoff, Verdict
<1>c. check.pc \in HeldSteps => UNCHANGED <<branch, tips>>
  BY DEF UserStep, HeldInv, Edit, RunEnds, Commit, Undo, Switch, Free
<1>d. check.pc = "lock" => branch' = branch
  BY DEF UserStep, Edit, RunEnds, Commit, Undo, Switch
<1> QED
  BY <1>a, <1>b, <1>c, <1>d DEF HeldInv, HEAD

\* The command's own steps keep its record whole.
LEMMA CheckTypes ==
    RecordsOK /\ HistoryInv /\ HeldInv /\ CheckStep
        => RecordsOK' /\ HistoryInv' /\ UNCHANGED repoVars
<1> SUFFICES ASSUME RecordsOK, HistoryInv, HeldInv, CheckStep
             PROVE  RecordsOK' /\ HistoryInv' /\ UNCHANGED repoVars
  OBVIOUS
<1>a. /\ check \in CheckRecords /\ handoff \in HandoffRecords /\ archives \subseteq Commits
      /\ latest.base \in Commits /\ latest.tree \in Trees /\ branch \in Branches
      /\ HEAD \in Commits /\ 0 \in Commits
  <2>1. latest \in LatestRecords /\ HEAD \in Commits /\ 0 \in Commits
    BY HeadIsCommit DEF RecordsOK, Commits
  <2> QED
    BY <2>1 DEF RecordsOK, LatestRecords
<1>b. UNCHANGED repoVars
  BY
     DEF CheckStep, ReadHead, ReadRef, HoldHead, Start, LatestProof, ProofDigest, RunGates,
         SameHead,
         SourceDigest, CleanTree, WriteHandoff, CleanAfterWrite, BuildArtifact, RewriteHandoff,
         HeadBefore, FinalDigest, FinalStatus, HeadAfter, Settle, Killed, Local
<1>c. check' \in CheckRecords /\ handoff' \in HandoffRecords /\ archives' \subseteq Commits
  <2>0. /\ check.pc \in Steps /\ check.release \in Commits /\ check.report \in Report
        /\ check.ref \in Branches \cup {NoBranch} /\ check.initial \in Commits
        /\ check.holds \in SUBSET (Branches \cup {"HEAD"})
    BY <1>a DEF CheckRecords
  <2>t. /\ check.report.ok \in BOOLEAN /\ check.report.gated \in Commits
        /\ check.report.run \in [base : Commits, head : Commits, tree : Trees]
    BY <2>0 DEF Report
  <2>i. Idle \in CheckRecords
    <3>1. NoReport \in Report
      BY <1>a, ReleaseAssumption DEF NoReport, NoRun, Report
    <3> QED
      BY <3>1, <1>a DEF Idle, CheckRecords, Steps
  <2>e. \A step \in Steps : [check EXCEPT !.pc = step] \in CheckRecords
    BY <1>a DEF CheckRecords
  <2>r. \A step \in Steps,
            report \in Report : [check EXCEPT !.pc = step, !.report = report] \in CheckRecords
    BY <1>a DEF CheckRecords
  <2>o. \A ok \in BOOLEAN : [check.report EXCEPT !.ok = ok] \in Report
    BY <2>0 DEF Report
  <2>s. \A step \in Steps, ok \in BOOLEAN : [check EXCEPT !.pc = step, !.report.ok = ok] \in CheckRecords
    <3> TAKE step \in Steps, ok \in BOOLEAN
    <3>1. [check EXCEPT !.pc = step, !.report.ok = ok]
             = [check EXCEPT !.pc = step, !.report = [check.report EXCEPT !.ok = ok]]
      BY <1>a DEF CheckRecords
    <3> QED
      BY <3>1, <2>r, <2>o
  <2>f. [status |-> Verdict, archive |-> 0] \in HandoffRecords /\ FinalHandoff \in HandoffRecords
    BY <1>a, <2>0 DEF HandoffRecords, Verdict, FinalHandoff
  <2>1. CASE ReadHead
    <3>1. \A c \in Commits, step \in Steps : [Idle EXCEPT !.pc = step, !.release = c] \in CheckRecords
      BY <2>i DEF CheckRecords
    <3> QED
      BY <2>1, <3>1, <1>a DEF ReadHead, Local, Steps
  <2>2. CASE ReadRef
    BY <2>2, <1>a DEF ReadRef, At, Local, Steps, CheckRecords
  <2>3. CASE HoldHead
    <3>1. CASE tips[check.ref] = check.release
      <4> DEFINE holds == {check.ref} \cup IF branch = check.ref THEN {"HEAD"} ELSE {}
      <4>1. check' = [check EXCEPT !.pc = "start", !.holds = holds] /\ UNCHANGED <<archives, handoff>>
        BY <2>3, <3>1 DEF HoldHead, Local
      <4>2. holds \in SUBSET (Branches \cup {"HEAD"})
        BY <2>3, <1>a DEF HoldHead, At, HeldInv
      <4> HIDE DEF holds
      <4> QED
        BY <4>1, <4>2, <1>a DEF Steps, CheckRecords
    <3>2. CASE tips[check.ref] # check.release
      BY <2>3, <3>2, <2>i, <1>a DEF HoldHead, Local
    <3> QED
      BY <3>1, <3>2
  <2>4. CASE \E rest \in BOOLEAN : Start(rest)
    <3>0. PICK rest \in BOOLEAN : Start(rest)
      BY <2>4
    <3>1. check' = [[check EXCEPT !.pc = "proof",
                     !.report = [check.report EXCEPT !.ok = rest]] EXCEPT !.initial = HEAD]
      BY <3>0, <1>a DEF Start, CheckRecords
    <3>2. \A k \in CheckRecords, c \in Commits : [k EXCEPT !.initial = c] \in CheckRecords
      BY DEF CheckRecords
    <3> QED
      <4>1. [check EXCEPT !.pc = "proof", !.report = [check.report EXCEPT !.ok = rest]] \in CheckRecords
        BY <2>o, <2>r DEF Steps
      <4>2. check' \in CheckRecords
        BY <3>1, <3>2, <4>1, <1>a
      <4> QED
        BY <3>0, <4>2, <1>a DEF Start, Local
  <2>5. CASE LatestProof
    <3> DEFINE run == [base |-> latest.base, head |-> HEAD, tree |-> latest.tree]
               ok  == check.report.ok /\ ProvenHead(latest, HEAD)
    <3>1. check' = [check EXCEPT !.pc = "digest", !.report = [check.report EXCEPT !.run = run, !.ok = ok]]
      BY <2>5, <1>a DEF LatestProof, CheckRecords
    <3>2. [check.report EXCEPT !.run = run, !.ok = ok] \in Report
      BY <1>a, <2>0, <2>1 DEF Report
    <3> QED
      <4> DEFINE report == [check.report EXCEPT !.run = run, !.ok = ok]
      <4>1. check' = [check EXCEPT !.pc = "digest", !.report = report] /\ report \in Report
        BY <3>1, <3>2
      <4> HIDE DEF report
      <4>2. check' \in CheckRecords
        BY <4>1, <2>r DEF Steps
      <4> QED
        BY <2>5, <4>2, <1>a DEF LatestProof, Local
  <2>6. CASE ProofDigest
    BY <2>6, <1>a, <2>1, <2>s DEF ProofDigest, At, Item, Local, Steps
  <2>7. CASE \E outcome \in {"passed", "failed", "mutated"} : RunGates(outcome)
    <3>0. PICK outcome \in {"passed", "failed", "mutated"} : RunGates(outcome)
      BY <2>7
    <3> DEFINE passed == outcome = "passed" /\ CheckoutUnchanged(outcome)
               report == [check.report EXCEPT !.ok = check.report.ok /\ passed,
                                              !.gated = IF passed THEN GateCheckout ELSE 0]
    <3>1. check' = [check EXCEPT !.pc = "head", !.report = report]
      BY <3>0, <1>a DEF RunGates, CheckRecords
    <3>2. report \in Report
      BY <1>a, <2>0, <2>1 DEF Report, GateCheckout
    <3> QED
      <4> HIDE DEF report
      <4>1. check' \in CheckRecords
        BY <3>1, <3>2, <2>r DEF Steps
      <4> QED
        BY <3>0, <4>1, <1>a DEF RunGates, Local
  <2>8. CASE SameHead
    BY <2>8, <1>a, <2>1, <2>s DEF SameHead, At, Item, Local, Steps
  <2>9. CASE SourceDigest
    BY <2>9, <1>a, <2>1, <2>s DEF SourceDigest, At, Item, Local, Steps
  <2>10. CASE CleanTree
    BY <2>10, <1>a, <2>1, <2>s DEF CleanTree, At, Item, Local, Steps
  <2>11. CASE WriteHandoff
    BY <2>11, <1>a, <2>e, <2>f DEF WriteHandoff, At, Enter, Steps
  <2>12. CASE CleanAfterWrite
    BY <2>12, <1>a, <2>1, <2>s DEF CleanAfterWrite, At, Item, Local, Steps
  <2>13. CASE \E built \in BOOLEAN : BuildArtifact(built)
    BY <2>13, <1>a, <2>0, <2>e, <2>i DEF BuildArtifact, At, Enter, Steps
  <2>14. CASE RewriteHandoff
    BY <2>14, <1>a, <2>e, <2>f DEF RewriteHandoff, At, Enter, Steps
  <2>15. CASE HeadBefore
    BY <2>15, <1>a, <2>1, <2>s DEF HeadBefore, At, Item, Local, Steps
  <2>16. CASE FinalDigest
    BY <2>16, <1>a, <2>1, <2>s DEF FinalDigest, At, Item, Local, Steps
  <2>17. CASE FinalStatus
    BY <2>17, <1>a, <2>1, <2>s DEF FinalStatus, At, Item, Local, Steps
  <2>18. CASE HeadAfter
    BY <2>18, <1>a, <2>1, <2>s DEF HeadAfter, At, Item, Local, Steps
  <2>19. CASE Settle
    BY <2>19, <1>a, <2>f DEF Settle, At, Steps, CheckRecords
  <2>20. CASE Killed
    BY <2>20, <1>a, <2>i DEF Killed, Local
  <2> QED
    BY <2>1, <2>2, <2>3, <2>4, <2>5, <2>6, <2>7, <2>8, <2>9, <2>10, <2>11, <2>12, <2>13, <2>14,
       <2>15, <2>16, <2>17, <2>18, <2>19, <2>20 DEF CheckStep
<1>d. /\ Commits' = Commits /\ LatestRecords' = LatestRecords
      /\ HandoffRecords' = HandoffRecords /\ CheckRecords' = CheckRecords
  BY <1>b DEF Commits, Report, repoVars, LatestRecords, HandoffRecords, CheckRecords
<1> QED
  BY <1>b, <1>c, <1>d DEF RecordsOK, HistoryInv, repoVars

\* The command's own steps keep the head it holds, and its report of it.
LEMMA CheckKeepsHead ==
    RecordsOK /\ HistoryInv /\ HeldInv /\ ReportInv /\ CheckStep => HeldInv' /\ ReportInv'
<1> SUFFICES ASSUME RecordsOK, HistoryInv, HeldInv, ReportInv, CheckStep
             PROVE  HeldInv' /\ ReportInv'
  OBVIOUS
<1>a. UNCHANGED repoVars /\ check \in CheckRecords
  BY CheckTypes DEF RecordsOK
<1>b. HEAD' = HEAD /\ branch' = branch
  BY <1>a DEF repoVars, HEAD
<1> USE
        DEF HeldInv, ReportInv, HeldSteps, AfterProof, AfterGates, AfterPack, Steps, Report,
            CheckRecords
<1>1. CASE ReadHead
  BY <1>1, <1>a, <1>b DEF ReadHead, Local, Idle
<1>2. CASE ReadRef
  BY <1>2, <1>a, <1>b DEF ReadRef, At, Local
<1>3. CASE HoldHead
  BY <1>3, <1>a, <1>b DEF HoldHead, At, Idle, HEAD, Local
<1>4. CASE \E rest \in BOOLEAN : Start(rest)
  BY <1>4, <1>a, <1>b DEF Start, At, Local
<1>5. CASE LatestProof
  BY <1>5, <1>a, <1>b DEF LatestProof, At, Local
<1>6. CASE ProofDigest
  BY <1>6, <1>a, <1>b DEF ProofDigest, At, Item, Local
<1>7. CASE \E outcome \in {"passed", "failed", "mutated"} : RunGates(outcome)
  <2>1. PICK outcome \in {"passed", "failed", "mutated"} : RunGates(outcome)
    BY <1>7
  <2> DEFINE passed == outcome = "passed" /\ CheckoutUnchanged(outcome)
  <2>2. /\ check.pc = "gates" /\ check'.pc = "head" /\ UNCHANGED <<repoVars, archives, handoff>>
        /\ check' = [check EXCEPT !.pc = "head", !.report.ok = check.report.ok /\ passed,
                                  !.report.gated = IF passed THEN check.initial ELSE 0]
    BY <2>1, <1>a DEF RunGates, At, Local, GateCheckout
  <2> HIDE DEF passed
  <2>3. /\ check'.report.ok = (check.report.ok /\ passed)
        /\ check'.report.gated = IF passed THEN check.initial ELSE 0
        /\ check'.report.run = check.report.run /\ check'.holds = check.holds
        /\ check'.initial = check.initial /\ check'.release = check.release
    BY <2>2, <1>a
  <2> QED
    BY <2>2, <2>3, <1>a, <1>b
<1>8. CASE SameHead
  BY <1>8, <1>a, <1>b DEF SameHead, At, Item, Local
<1>9. CASE SourceDigest
  BY <1>9, <1>a, <1>b DEF SourceDigest, At, Item, Local
<1>10. CASE CleanTree
  BY <1>10, <1>a, <1>b DEF CleanTree, At, Item, Local
<1>11. CASE WriteHandoff
  BY <1>11, <1>a, <1>b DEF WriteHandoff, At, Enter
<1>12. CASE CleanAfterWrite
  BY <1>12, <1>a, <1>b DEF CleanAfterWrite, At, Item, Local
<1>13. CASE \E built \in BOOLEAN : BuildArtifact(built)
  BY <1>13, <1>a, <1>b DEF BuildArtifact, At, Enter, Idle
<1>14. CASE RewriteHandoff
  BY <1>14, <1>a, <1>b DEF RewriteHandoff, At, Enter
<1>15. CASE HeadBefore
  BY <1>15, <1>a, <1>b DEF HeadBefore, At, Item, Local
<1>16. CASE FinalDigest
  BY <1>16, <1>a, <1>b DEF FinalDigest, At, Item, Local
<1>17. CASE FinalStatus
  BY <1>17, <1>a, <1>b DEF FinalStatus, At, Item, Local
<1>18. CASE HeadAfter
  BY <1>18, <1>a, <1>b DEF HeadAfter, At, Item, Local
<1>19. CASE Settle
  BY <1>19, <1>a, <1>b DEF Settle, At, FinalHandoff, Verdict
<1>20. CASE Killed
  BY <1>20, <1>a, <1>b DEF Killed, Local, Idle
<1> QED
  BY <1>1, <1>2, <1>3, <1>4, <1>5, <1>6, <1>7, <1>8, <1>9, <1>10, <1>11, <1>12, <1>13, <1>14,
     <1>15, <1>16, <1>17, <1>18, <1>19, <1>20 DEF CheckStep

\* Every step keeps the invariant of the release-ready command.
LEMMA ReleaseStep ==
    ReleaseInv /\ "race" \notin UserActs /\ [ReleaseNext]_releaseVars => ReleaseInv'
<1> SUFFICES ASSUME ReleaseInv, "race" \notin UserActs, [ReleaseNext]_releaseVars
             PROVE  ReleaseInv'
  OBVIOUS
<1>a. RecordsOK /\ (RecordsOK' => ReleaseTypeOK')
  BY RecordsByName DEF ReleaseInv, ReleaseTypeOK, RecordsOK, CommitRecords, LatestRecords,
                       HandoffRecords, CheckRecords
<1>1. CASE UserStep
  BY <1>1, <1>a, UserTypes, UserKeepsHead DEF ReleaseInv
<1>2. CASE CheckStep
  BY <1>2, <1>a, CheckTypes, CheckKeepsHead DEF ReleaseInv
<1>3. CASE UNCHANGED releaseVars
  BY <1>3
     DEF releaseVars, repoVars, ReleaseInv, ReleaseTypeOK, HistoryInv, HeldInv, ReportInv,
         HEAD,
              FinalHandoff, Verdict, Commits, Report
<1> QED
  BY <1>1, <1>2, <1>3 DEF ReleaseNext

\* The inductive invariant of the release-ready command.
THEOREM ReleaseInvariant == ("race" \notin UserActs) /\ ReleaseSpec => []ReleaseInv
<1> SUFFICES ASSUME "race" \notin UserActs
             PROVE  ReleaseSpec => []ReleaseInv
  OBVIOUS
<1>1. ReleaseInv /\ [ReleaseNext]_releaseVars => ReleaseInv'
  BY ReleaseStep
<1> QED
  BY <1>1, ReleaseStarts, PTL DEF ReleaseSpec

\* What release-ready clears is one commit, proved against the run, passed by
\* the gates and packed in the archive, whatever the user commits, undoes,
\* switches or edits between its reads - unless a branch is switched in the
\* moment between reading the head and locking it.
THEOREM OneCommit == ("race" \notin UserActs) /\ ReleaseSpec => []OneReleasedCommit
<1>1. ReleaseInv => OneReleasedCommit
  BY DEF ReleaseInv, ReportInv, OneReleasedCommit, ReadyAnswer, At, FinalHandoff, Verdict
<1> QED
  BY <1>1, ReleaseInvariant, PTL

-----------------------------------------------------------------------------
(* The published release. *)

\* A packager that holds the publication lock, and one that has a candidate
\* which is in no drop yet.
Publishing   == {"aside", "asideSource", "place", "placeSource", "refresh", "swap", "undo",
                 "undoSource", "clean"}
Unpublished  == {"publish"} \cup (Publishing \ {"clean"})
BeforePlace  == {"idle", "stage", "copied", "build", "publish", "aside", "asideSource", "place"}

\* One packager publishes at a time; candidates are told apart by their
\* build, and each was packed from one version of the source.
TurnsInv ==
    \A p \in Packagers : packager[p].pc \in Publishing <=> pubLock = p
StagedInv ==
    \A p \in Packagers :
        /\ packager[p].build # None => packager[p].pc \in Unpublished \cup {"clean"}
        /\ packager[p].pc \in {"build"} \cup Unpublished \cup {"clean"} =>
              packager[p].snapshot = <<packager[p].fingerprint, packager[p].fingerprint>>
        /\ packager[p].pc # "idle" => packager[p].fingerprint # None
        /\ packager[p].pc \in Unpublished => packager[p].build # None
        /\ packager[p].pc \in BeforePlace => packager[p].placed = {}
BuildsInv ==
    /\ \A p \in Packagers : packager[p].build <= builds
    /\ drop.notes <= builds /\ oldDrop.notes <= builds
    /\ \A p, q \in Packagers : p # q /\ packager[p].build # None => packager[p].build # packager[q].build
    /\ \A p \in Packagers : packager[p].pc \in Unpublished
       => packager[p].build \notin {drop.notes, oldDrop.notes}

\* A drop that holds the release, under its own names or those set aside.
Holds(d) ==
    /\ d.notes = shipped.build
    /\ shipped.installer \in {d.installer, d.oldInstaller}
    /\ shipped.build \in {d.source, d.oldSource}

\* The drop that undoing p's publication starts from; what it would take back
\* is there, or was never touched.
Standing(p) == IF packager[p].pc = "swap" THEN oldDrop ELSE drop
InstallerSafe(p) ==
    \/ Standing(p).oldInstaller = shipped.installer
    \/ /\ Standing(p).oldInstaller = None /\ Standing(p).installer = shipped.installer
       /\ "installer" \notin packager[p].placed
SourceSafe(p) ==
    \/ Standing(p).oldSource = shipped.build
    \/ /\ Standing(p).oldSource = None /\ Standing(p).source = shipped.build
       /\ "source" \notin packager[p].placed

\* Where the packager that publishes stands.
StageInv ==
    \A p \in Packagers :
        /\ packager[p].pc \in Publishing \ {"swap", "clean"} => oldDrop = NoDrop
        /\ packager[p].pc = "swap" => drop = NoDrop
        /\ packager[p].pc = "aside" => drop.oldInstaller = None
        /\ packager[p].pc \in {"aside", "asideSource"} => drop.oldSource = None
        /\ packager[p].pc \in {"asideSource", "place"} => drop.installer = None
        /\ packager[p].pc \in {"place", "placeSource"} => drop.source = None
        /\ packager[p].pc \in {"placeSource", "refresh"} => drop.installer = Candidate(p).installer
        /\ packager[p].pc = "refresh" => drop.source = Candidate(p).build
        /\ packager[p].pc = "swap" =>
              oldDrop.installer = Candidate(p).installer /\ oldDrop.source = Candidate(p).build
        /\ packager[p].pc = "clean" =>
              drop.installer = shipped.installer /\ drop.source = shipped.build
              /\ drop.notes = shipped.build
\* What undoing would leave of the release.
ShippedInv ==
    shipped.build # None =>
        /\ shipped.installer # None
        /\ Holds(drop) \/ Holds(oldDrop)
        /\ \A p \in Packagers :
              /\ packager[p].pc \in Publishing \ {"undoSource", "clean"} => InstallerSafe(p)
              /\ packager[p].pc \in Publishing \ {"clean"} => SourceSafe(p)
PublicationInv ==
    PublicationTypeOK /\ TurnsInv /\ StagedInv /\ BuildsInv /\ StageInv /\ ShippedInv
PackagerRecords ==
    [pc : PackagerSteps, fingerprint : Versions \cup {None},
     snapshot : (Versions \cup {None}) \X (Versions \cup {None}),
     build : Builds, placed : SUBSET {"installer", "source"}]

\* A step of one packager.
PackagerActs(p) ==
    \/ Fingerprint(p)
    \/ CopyFile(p)
    \/ StageRelease(p)
    \/ \E validated \in BOOLEAN : BuildRelease(p, validated)
    \/ Reconcile(p)
    \/ SetAsideInstaller(p)
    \/ SetAsideSource(p)
    \/ PlaceInstaller(p)
    \/ PlaceSource(p)
    \/ SetAsideDrop(p)
    \/ PlaceDrop(p)
    \/ PublishFails(p)
    \/ UndoInstaller(p)
    \/ UndoSource(p)
    \/ CleanBackups(p)
    \/ KillPackager(p)

\* The initial states of a publication.
LEMMA PublicationStarts == PublicationInit => PublicationInv
<1> SUFFICES ASSUME PublicationInit
             PROVE  PublicationInv
  OBVIOUS
<1>1. /\ \A p \in Packagers : packager[p] = IdlePackager
      /\ IdlePackager \in PackagerRecords /\ NoDrop \in Drops /\ 0 \in Builds
  BY PublicationAssumption
     DEF PublicationInit, IdlePackager, PackagerRecords, PackagerSteps, NoDrop, Drops, Builds,
         None
<1>2. PublicationTypeOK
  BY <1>1, PublicationAssumption DEF PublicationInit, PublicationTypeOK, PackagerRecords, None
<1>3. TurnsInv /\ StagedInv /\ StageInv
  BY <1>1, PublicationAssumption
     DEF PublicationInit, TurnsInv, StagedInv, StageInv, IdlePackager, Publishing,
     Unpublished, BeforePlace, None, NoDrop
<1>4. BuildsInv /\ ShippedInv
  BY <1>1, PublicationAssumption
     DEF PublicationInit, BuildsInv, ShippedInv, IdlePackager, Publishing,
     Unpublished, None, NoDrop
<1> QED
  BY <1>2, <1>3, <1>4 DEF PublicationInv

\* A packager's step changes its own record only, and keeps the records whole.
LEMMA PackagerTypes ==
    ASSUME PublicationTypeOK, NEW p \in Packagers, PackagerActs(p)
    PROVE  PublicationTypeOK' /\ packager' = [packager EXCEPT ![p] = packager'[p]] /\ source' = source
<1> DEFINE me == packager[p]
<1>a. /\ packager \in [Packagers -> PackagerRecords] /\ me \in PackagerRecords
      /\ IdlePackager \in PackagerRecords /\ NoDrop \in Drops /\ drop \in Drops /\ oldDrop \in Drops
      /\ source \in Versions /\ pubLock \in Packagers \cup {NoPackager}
      /\ builds \in Builds /\ troubles \in 0 .. MaxTroubles
      /\ shipped \in [installer : Versions \cup {None}, build : Builds]
  BY PublicationAssumption
     DEF PublicationTypeOK, IdlePackager, PackagerRecords, PackagerSteps, NoDrop, Drops,
     Builds, None
<1>b. /\ me.fingerprint \in Versions \cup {None} /\ me.build \in Builds
      /\ me.snapshot \in (Versions \cup {None}) \X (Versions \cup {None})
      /\ me.placed \in SUBSET {"installer", "source"}
      /\ Candidate(p) \in [installer : Versions \cup {None}, build : Builds]
  BY <1>a DEF PackagerRecords, Candidate
<1>c. \A step \in PackagerSteps : [packager EXCEPT ![p].pc = step]
          = [packager EXCEPT ![p] = [me EXCEPT !.pc = step]]
                                  /\ [me EXCEPT !.pc = step] \in PackagerRecords
  BY <1>a DEF PackagerRecords
<1>d. /\ drop.installer \in Versions \cup {None} /\ drop.oldInstaller \in Versions \cup {None}
      /\ drop.source \in Builds /\ drop.oldSource \in Builds /\ drop.notes \in Builds
  BY <1>a DEF Drops
<1>e. \A d \in Drops, b \in Builds, v \in Versions \cup {None} :
         /\ [d EXCEPT !.notes = b] \in Drops /\ [d EXCEPT !.source = b] \in Drops
         /\ [d EXCEPT !.oldSource = b] \in Drops /\ [d EXCEPT !.installer = v] \in Drops
         /\ [d EXCEPT !.oldInstaller = v] \in Drops
  BY DEF Drops
<1>f. 0 \in Builds /\ MaxTroubles \in Nat /\ MaxBuilds \in Nat
      /\ (troubles' = troubles + 1 /\ troubles < MaxTroubles => troubles' \in 0 .. MaxTroubles)
  BY <1>a, PublicationAssumption DEF Builds
<1> SUFFICES /\ \E rec \in PackagerRecords : packager' = [packager EXCEPT ![p] = rec]
             /\ source' = source /\ pubLock' \in Packagers \cup {NoPackager}
             /\ drop' \in Drops /\ oldDrop' \in Drops
             /\ shipped' \in [installer : Versions \cup {None}, build : Builds]
             /\ builds' \in Builds /\ troubles' \in 0 .. MaxTroubles
  BY <1>a DEF PublicationTypeOK, PackagerRecords
<1> HIDE DEF me
<1> USE DEF Doing, Proceed, Trouble, Calm, Abandon, Pair
<1>1. CASE Fingerprint(p)
  <2>1. packager' = [packager EXCEPT ![p] = [me EXCEPT !.pc = "stage", !.fingerprint = source]]
    BY <1>1, <1>a DEF Fingerprint, me, PackagerRecords
  <2>2. [me EXCEPT !.pc = "stage", !.fingerprint = source] \in PackagerRecords
    BY <1>a DEF PackagerRecords, PackagerSteps
  <2> QED
    BY <1>1, <2>1, <2>2, <1>a DEF Fingerprint
<1>2. CASE CopyFile(p)
  <2>1. PICK i \in {1, 2} :
           packager' = [packager EXCEPT ![p].snapshot[i] = source, ![p].pc = IF i = 2 THEN "copied" ELSE @]
    BY <1>2 DEF CopyFile
  <2>2. packager' = [packager EXCEPT ![p] = [me EXCEPT !.snapshot = [me.snapshot EXCEPT ![i] = source],
                                                       !.pc = IF i = 2 THEN "copied" ELSE @]]
    BY <2>1, <1>a DEF me, PackagerRecords
  <2>3. [me.snapshot EXCEPT ![i] = source] \in (Versions \cup {None}) \X (Versions \cup {None})
    BY <1>a, <1>b
  <2>4. [me EXCEPT !.snapshot = [me.snapshot EXCEPT ![i] = source], !.pc = IF i = 2 THEN "copied" ELSE @]
          \in PackagerRecords
    BY <2>3, <1>a DEF PackagerRecords, PackagerSteps
  <2> QED
    BY <1>2, <2>2, <2>4, <1>a DEF CopyFile
<1>3. CASE StageRelease(p)
  BY <1>3, <1>a, <1>c DEF StageRelease, PackagerSteps, me
<1>4. CASE \E validated \in BOOLEAN : BuildRelease(p, validated)
  <2>1. PICK validated \in BOOLEAN : BuildRelease(p, validated)
    BY <1>4
  <2>2. builds' = builds + 1 /\ builds' \in Builds
    BY <2>1, <1>a, <1>f DEF BuildRelease, Builds
  <2>3. [me EXCEPT !.pc = "publish", !.build = builds'] \in PackagerRecords
    BY <2>2, <1>a DEF PackagerRecords, PackagerSteps
  <2> QED
    BY <2>1, <2>2, <2>3, <1>a DEF BuildRelease, me
<1>5. CASE Reconcile(p)
  <2>1. [drop EXCEPT !.oldInstaller = None, !.oldSource = None] \in Drops
    BY <1>a, <1>f DEF Drops, None
  <2> QED
    BY <1>5, <2>1, <1>a, <1>c, <1>f DEF Reconcile, PackagerSteps
<1>6. CASE SetAsideInstaller(p)
  <2>1. [drop EXCEPT !.oldInstaller = drop.installer, !.installer = None] \in Drops
    BY <1>a, <1>d, <1>f DEF Drops, None
  <2> QED
    BY <1>6, <2>1, <1>a, <1>c DEF SetAsideInstaller, PackagerSteps
<1>7. CASE SetAsideSource(p)
  <2>1. [drop EXCEPT !.oldSource = drop.source, !.source = None] \in Drops
    BY <1>a, <1>d, <1>f DEF Drops, None
  <2> QED
    BY <1>7, <2>1, <1>a, <1>c DEF SetAsideSource, PackagerSteps
<1>8. CASE PlaceInstaller(p)
  <2>1. packager' = [packager EXCEPT ![p] = [me EXCEPT !.pc = "placeSource",
                                             !.placed = @ \cup {"installer"}]]
    BY <1>8, <1>a DEF PlaceInstaller, Place, me, PackagerRecords
  <2>2. [me EXCEPT !.pc = "placeSource", !.placed = @ \cup {"installer"}] \in PackagerRecords
    BY <1>a, <1>b DEF PackagerRecords, PackagerSteps
  <2>3. drop' = [drop EXCEPT !.installer = Candidate(p).installer] /\ drop' \in Drops
    BY <1>8, <1>a, <1>b, <1>e DEF PlaceInstaller, Place
  <2> QED
    BY <1>8, <2>1, <2>2, <2>3, <1>a DEF PlaceInstaller, Place
<1>9. CASE PlaceSource(p)
  <2>1. packager' = [packager EXCEPT ![p] = [me EXCEPT !.pc = "refresh", !.placed = @ \cup {"source"}]]
    BY <1>9, <1>a DEF PlaceSource, Place, me, PackagerRecords
  <2>2. [me EXCEPT !.pc = "refresh", !.placed = @ \cup {"source"}] \in PackagerRecords
    BY <1>a, <1>b DEF PackagerRecords, PackagerSteps
  <2>3. drop' = [drop EXCEPT !.source = Candidate(p).build] /\ drop' \in Drops
    BY <1>9, <1>a, <1>b, <1>e DEF PlaceSource, Place
  <2> QED
    BY <1>9, <2>1, <2>2, <2>3, <1>a DEF PlaceSource, Place
<1>10. CASE SetAsideDrop(p)
  BY <1>10, <1>a, <1>c, <1>f DEF SetAsideDrop, PackagerSteps
<1>11. CASE PlaceDrop(p)
  <2>1. [oldDrop EXCEPT !.notes = Candidate(p).build] \in Drops
    BY <1>a, <1>b, <1>e
  <2> QED
    BY <1>11, <2>1, <1>a, <1>b, <1>c DEF PlaceDrop, PackagerSteps
<1>12. CASE PublishFails(p)
  BY <1>12, <1>a, <1>c, <1>f DEF PublishFails, PackagerSteps
<1>13. CASE UndoInstaller(p)
  <2>1. Returned(p, "installer", "oldInstaller") \in Drops /\ Gone(p, "installer") \in Drops
    BY <1>a, <1>d, <1>f, PublicationAssumption DEF Returned, Gone, Drops, None
  <2> QED
    BY <1>13, <2>1, <1>a, <1>c, <1>f DEF UndoInstaller, PackagerSteps
<1>14. CASE UndoSource(p)
  <2>1. Returned(p, "source", "oldSource") \in Drops /\ Gone(p, "source") \in Drops
    BY <1>a, <1>d, <1>f, PublicationAssumption DEF Returned, Gone, Drops, None
  <2> QED
    BY <1>14, <2>1, <1>a, <1>c, <1>f DEF UndoSource, PackagerSteps
<1>15. CASE CleanBackups(p)
  <2>1. [drop EXCEPT !.oldInstaller = None, !.oldSource = None] \in Drops
    BY <1>a, <1>f DEF Drops, None
  <2> QED
    BY <1>15, <2>1, <1>a, <1>c, <1>f DEF CleanBackups, PackagerSteps
<1>16. CASE KillPackager(p)
  BY <1>16, <1>a, <1>c, <1>f DEF KillPackager, PackagerSteps
<1> QED
  BY <1>1, <1>2, <1>3, <1>4, <1>5, <1>6, <1>7, <1>8, <1>9, <1>10, <1>11, <1>12, <1>13, <1>14,
     <1>15, <1>16 DEF PackagerActs

\* The lock is held by the packager that publishes, from its first step to its last.
LEMMA TurnsStep ==
    ASSUME PublicationTypeOK, TurnsInv, NEW p \in Packagers, PackagerActs(p)
    PROVE  TurnsInv'
<1>t. /\ packager \in [Packagers -> PackagerRecords] /\ packager[p] \in PackagerRecords
      /\ packager' = [packager EXCEPT ![p] = packager'[p]]
      /\ \A q \in Packagers \ {p} : packager'[q] = packager[q]
  BY PackagerTypes DEF PublicationTypeOK, PackagerRecords
<1> USE DEF Doing, Proceed, Trouble, Calm, Abandon, Pair, PackagerRecords
<1> USE DEF TurnsInv, Publishing, IdlePackager
<1>1. CASE Fingerprint(p)
  BY <1>1, <1>t, PublicationAssumption DEF Fingerprint
<1>2. CASE CopyFile(p)
  BY <1>2, <1>t, PublicationAssumption DEF CopyFile
<1>3. CASE StageRelease(p)
  BY <1>3, <1>t, PublicationAssumption DEF StageRelease, Staged
<1>4. CASE \E validated \in BOOLEAN : BuildRelease(p, validated)
  BY <1>4, <1>t, PublicationAssumption DEF BuildRelease
<1>5. CASE Reconcile(p)
  BY <1>5, <1>t, PublicationAssumption DEF Reconcile
<1>6. CASE SetAsideInstaller(p)
  BY <1>6, <1>t, PublicationAssumption DEF SetAsideInstaller
<1>7. CASE SetAsideSource(p)
  BY <1>7, <1>t, PublicationAssumption DEF SetAsideSource
<1>8. CASE PlaceInstaller(p)
  BY <1>8, <1>t, PublicationAssumption DEF PlaceInstaller, Place
<1>9. CASE PlaceSource(p)
  BY <1>9, <1>t, PublicationAssumption DEF PlaceSource, Place
<1>10. CASE SetAsideDrop(p)
  BY <1>10, <1>t, PublicationAssumption DEF SetAsideDrop
<1>11. CASE PlaceDrop(p)
  BY <1>11, <1>t, PublicationAssumption DEF PlaceDrop
<1>12. CASE PublishFails(p)
  BY <1>12, <1>t, PublicationAssumption DEF PublishFails
<1>13. CASE UndoInstaller(p)
  BY <1>13, <1>t, PublicationAssumption DEF UndoInstaller, Returned, Gone
<1>14. CASE UndoSource(p)
  BY <1>14, <1>t, PublicationAssumption DEF UndoSource, Returned, Gone
<1>15. CASE CleanBackups(p)
  BY <1>15, <1>t, PublicationAssumption DEF CleanBackups
<1>16. CASE KillPackager(p)
  BY <1>16, <1>t, PublicationAssumption DEF KillPackager
<1> QED
  BY <1>1, <1>2, <1>3, <1>4, <1>5, <1>6, <1>7, <1>8, <1>9, <1>10, <1>11, <1>12, <1>13, <1>14,
     <1>15, <1>16 DEF PackagerActs

\* What is built was staged whole, what is placed was built.
LEMMA StagedStep ==
    ASSUME PublicationTypeOK, StagedInv, NEW p \in Packagers, PackagerActs(p)
    PROVE  StagedInv'
<1>t. /\ packager \in [Packagers -> PackagerRecords] /\ packager[p] \in PackagerRecords
      /\ packager' = [packager EXCEPT ![p] = packager'[p]]
      /\ \A q \in Packagers \ {p} : packager'[q] = packager[q]
  BY PackagerTypes DEF PublicationTypeOK, PackagerRecords
<1> USE DEF Doing, Proceed, Trouble, Calm, Abandon, Pair, PackagerRecords
<1>s. source \in Versions /\ source # None /\ builds \in Nat
  BY PublicationAssumption DEF PublicationTypeOK, None, Builds
<1> SUFFICES /\ packager'[p].build # None => packager'[p].pc \in Unpublished \cup {"clean"}
             /\ packager'[p].pc \in {"build"} \cup Unpublished \cup {"clean"} =>
                   packager'[p].snapshot = <<packager'[p].fingerprint, packager'[p].fingerprint>>
             /\ packager'[p].pc # "idle" => packager'[p].fingerprint # None
             /\ packager'[p].pc \in Unpublished => packager'[p].build # None
             /\ packager'[p].pc \in BeforePlace => packager'[p].placed = {}
  BY <1>t DEF StagedInv
<1> USE DEF StagedInv, Publishing, Unpublished, BeforePlace, IdlePackager, None
<1>1. CASE Fingerprint(p)
  BY <1>1, <1>t, <1>s, PublicationAssumption DEF Fingerprint
<1>2. CASE CopyFile(p)
  BY <1>2, <1>t, <1>s, PublicationAssumption DEF CopyFile
<1>3. CASE StageRelease(p)
  BY <1>3, <1>t, <1>s, PublicationAssumption DEF StageRelease, Staged
<1>4. CASE \E validated \in BOOLEAN : BuildRelease(p, validated)
  BY <1>4, <1>t, <1>s, PublicationAssumption DEF BuildRelease
<1>5. CASE Reconcile(p)
  BY <1>5, <1>t, <1>s, PublicationAssumption DEF Reconcile
<1>6. CASE SetAsideInstaller(p)
  BY <1>6, <1>t, <1>s, PublicationAssumption DEF SetAsideInstaller
<1>7. CASE SetAsideSource(p)
  BY <1>7, <1>t, <1>s, PublicationAssumption DEF SetAsideSource
<1>8. CASE PlaceInstaller(p)
  BY <1>8, <1>t, <1>s, PublicationAssumption DEF PlaceInstaller, Place
<1>9. CASE PlaceSource(p)
  BY <1>9, <1>t, <1>s, PublicationAssumption DEF PlaceSource, Place
<1>10. CASE SetAsideDrop(p)
  BY <1>10, <1>t, <1>s, PublicationAssumption DEF SetAsideDrop
<1>11. CASE PlaceDrop(p)
  BY <1>11, <1>t, <1>s, PublicationAssumption DEF PlaceDrop
<1>12. CASE PublishFails(p)
  BY <1>12, <1>t, <1>s, PublicationAssumption DEF PublishFails
<1>13. CASE UndoInstaller(p)
  BY <1>13, <1>t, <1>s, PublicationAssumption DEF UndoInstaller, Returned, Gone
<1>14. CASE UndoSource(p)
  BY <1>14, <1>t, <1>s, PublicationAssumption DEF UndoSource, Returned, Gone
<1>15. CASE CleanBackups(p)
  BY <1>15, <1>t, <1>s, PublicationAssumption DEF CleanBackups
<1>16. CASE KillPackager(p)
  BY <1>16, <1>t, <1>s, PublicationAssumption DEF KillPackager
<1> QED
  BY <1>1, <1>2, <1>3, <1>4, <1>5, <1>6, <1>7, <1>8, <1>9, <1>10, <1>11, <1>12, <1>13, <1>14,
     <1>15, <1>16 DEF PackagerActs

\* A candidate that waits to be published is in no drop, so only a release
\* without leftovers is published over, and as it stands.
LEMMA NothingDiscarded ==
    ASSUME PublicationTypeOK, StagedInv, BuildsInv, NEW p \in Packagers, Reconcile(p)
    PROVE  /\ packager[p].pc = "publish" /\ drop' = drop /\ oldDrop' = oldDrop
           /\ UNCHANGED <<source, shipped, builds, troubles>>
           /\ \/ Abandon(p)
              \/ /\ pubLock = NoPackager /\ pubLock' = p /\ Proceed(p, "aside")
                 /\ oldDrop = NoDrop /\ drop.oldInstaller = None /\ drop.oldSource = None
<1>1. packager[p].pc = "publish" /\ ~Discardable(p) /\ drop \in Drops
  BY
     DEF Reconcile, Doing, BuildsInv, Unpublished, Discardable, Published, Candidate,
         PublicationTypeOK
<1>2. CASE Interrupted
  BY <1>1, <1>2 DEF Reconcile, Calm
<1>3. CASE ~Interrupted
  <2>1. drop.oldInstaller = None /\ drop.oldSource = None /\ oldDrop = NoDrop
    BY <1>3 DEF Interrupted
  <2>2. [drop EXCEPT !.oldInstaller = None, !.oldSource = None] = drop
    BY <1>1, <2>1 DEF Drops
  <2> QED
    BY <1>1, <1>3, <2>1, <2>2 DEF Reconcile, Calm
<1> QED
  BY <1>2, <1>3

\* Candidates stay apart, and none is published twice.
LEMMA BuildsStep ==
    ASSUME PublicationTypeOK, TurnsInv, StagedInv, BuildsInv, NEW p \in Packagers, PackagerActs(p)
    PROVE  BuildsInv'
<1>t. /\ packager \in [Packagers -> PackagerRecords] /\ packager[p] \in PackagerRecords
      /\ packager' = [packager EXCEPT ![p] = packager'[p]]
      /\ \A q \in Packagers \ {p} : packager'[q] = packager[q]
  BY PackagerTypes DEF PublicationTypeOK, PackagerRecords
<1> USE DEF Doing, Proceed, Trouble, Calm, Abandon, Pair, PackagerRecords
<1>s. /\ builds \in Nat /\ drop.notes \in Nat /\ oldDrop.notes \in Nat /\ NoDrop.notes = 0
      /\ \A q \in Packagers : packager[q].build \in Nat
      /\ drop \in Drops /\ oldDrop \in Drops
  BY PublicationAssumption DEF PublicationTypeOK, Builds, Drops, NoDrop, None, PackagerRecords
<1> USE
        DEF TurnsInv, BuildsInv, StagedInv, Publishing, Unpublished, IdlePackager, None,
            Candidate, Drops
<1>1. CASE Fingerprint(p)
  BY <1>1, <1>t, <1>s, PublicationAssumption DEF Fingerprint
<1>2. CASE CopyFile(p)
  BY <1>2, <1>t, <1>s, PublicationAssumption DEF CopyFile
<1>3. CASE StageRelease(p)
  BY <1>3, <1>t, <1>s, PublicationAssumption DEF StageRelease, Staged
<1>4. CASE \E validated \in BOOLEAN : BuildRelease(p, validated)
  BY <1>4, <1>t, <1>s, PublicationAssumption DEF BuildRelease
<1>5. CASE Reconcile(p)
  BY <1>5, <1>t, <1>s, PublicationAssumption, NothingDiscarded
<1>6. CASE SetAsideInstaller(p)
  BY <1>6, <1>t, <1>s, PublicationAssumption DEF SetAsideInstaller
<1>7. CASE SetAsideSource(p)
  BY <1>7, <1>t, <1>s, PublicationAssumption DEF SetAsideSource
<1>8. CASE PlaceInstaller(p)
  BY <1>8, <1>t, <1>s, PublicationAssumption DEF PlaceInstaller, Place
<1>9. CASE PlaceSource(p)
  BY <1>9, <1>t, <1>s, PublicationAssumption DEF PlaceSource, Place
<1>10. CASE SetAsideDrop(p)
  BY <1>10, <1>t, <1>s, PublicationAssumption DEF SetAsideDrop
<1>11. CASE PlaceDrop(p)
  BY <1>11, <1>t, <1>s, PublicationAssumption DEF PlaceDrop
<1>12. CASE PublishFails(p)
  BY <1>12, <1>t, <1>s, PublicationAssumption DEF PublishFails
<1>13. CASE UndoInstaller(p)
  BY <1>13, <1>t, <1>s, PublicationAssumption DEF UndoInstaller, Returned, Gone
<1>14. CASE UndoSource(p)
  <2>1. drop'.notes = drop.notes /\ oldDrop' = oldDrop /\ builds' = builds
    BY <1>14, <1>s DEF UndoSource, Returned, Gone
  <2>2. packager' = [packager EXCEPT ![p] = IdlePackager]
    BY <1>14 DEF UndoSource
  <2> QED
    BY <2>1, <2>2, <1>t, <1>s
<1>15. CASE CleanBackups(p)
  BY <1>15, <1>t, <1>s, PublicationAssumption DEF CleanBackups
<1>16. CASE KillPackager(p)
  BY <1>16, <1>t, <1>s, PublicationAssumption DEF KillPackager
<1> QED
  BY <1>1, <1>2, <1>3, <1>4, <1>5, <1>6, <1>7, <1>8, <1>9, <1>10, <1>11, <1>12, <1>13, <1>14,
     <1>15, <1>16 DEF PackagerActs

\* The publication's steps are where their order leaves them.
LEMMA StageStep ==
    ASSUME PublicationTypeOK, TurnsInv, StagedInv, BuildsInv, StageInv, NEW p \in Packagers, PackagerActs(p)
    PROVE  StageInv'
<1>t. /\ packager \in [Packagers -> PackagerRecords] /\ packager[p] \in PackagerRecords
      /\ packager' = [packager EXCEPT ![p] = packager'[p]]
      /\ \A q \in Packagers \ {p} : packager'[q] = packager[q]
  BY PackagerTypes DEF PublicationTypeOK, PackagerRecords
<1> USE DEF Doing, Proceed, Trouble, Calm, Abandon, Pair, PackagerRecords
<1>s. drop \in Drops /\ oldDrop \in Drops /\ NoDrop \in Drops
  BY PublicationAssumption DEF PublicationTypeOK, Drops, NoDrop, None, Builds
<1>o. \A q \in Packagers \ {p} : packager[p].pc \in Publishing => packager[q].pc \notin Publishing
  BY PublicationAssumption DEF TurnsInv
<1> USE DEF TurnsInv, StageInv, Publishing, IdlePackager, None, Candidate, Drops, NoDrop
<1>1. CASE Fingerprint(p)
  BY <1>1, <1>t, <1>s, <1>o, PublicationAssumption DEF Fingerprint
<1>2. CASE CopyFile(p)
  BY <1>2, <1>t, <1>s, <1>o, PublicationAssumption DEF CopyFile
<1>3. CASE StageRelease(p)
  BY <1>3, <1>t, <1>s, <1>o, PublicationAssumption DEF StageRelease, Staged
<1>4. CASE \E validated \in BOOLEAN : BuildRelease(p, validated)
  BY <1>4, <1>t, <1>s, <1>o, PublicationAssumption DEF BuildRelease
<1>5. CASE Reconcile(p)
  BY <1>5, <1>t, <1>s, <1>o, PublicationAssumption, NothingDiscarded
<1>6. CASE SetAsideInstaller(p)
  BY <1>6, <1>t, <1>s, <1>o, PublicationAssumption DEF SetAsideInstaller
<1>7. CASE SetAsideSource(p)
  BY <1>7, <1>t, <1>s, <1>o, PublicationAssumption DEF SetAsideSource
<1>8. CASE PlaceInstaller(p)
  BY <1>8, <1>t, <1>s, <1>o, PublicationAssumption DEF PlaceInstaller, Place
<1>9. CASE PlaceSource(p)
  BY <1>9, <1>t, <1>s, <1>o, PublicationAssumption DEF PlaceSource, Place
<1>10. CASE SetAsideDrop(p)
  BY <1>10, <1>t, <1>s, <1>o, PublicationAssumption DEF SetAsideDrop
<1>11. CASE PlaceDrop(p)
  BY <1>11, <1>t, <1>s, <1>o, PublicationAssumption DEF PlaceDrop
<1>12. CASE PublishFails(p)
  BY <1>12, <1>t, <1>s, <1>o, PublicationAssumption DEF PublishFails
<1>13. CASE UndoInstaller(p)
  BY <1>13, <1>t, <1>s, <1>o, PublicationAssumption DEF UndoInstaller, Returned, Gone
<1>14. CASE UndoSource(p)
  BY <1>14, <1>t, <1>s, <1>o, PublicationAssumption DEF UndoSource, Returned, Gone
<1>15. CASE CleanBackups(p)
  BY <1>15, <1>t, <1>s, <1>o, PublicationAssumption DEF CleanBackups
<1>16. CASE KillPackager(p)
  BY <1>16, <1>t, <1>s, <1>o, PublicationAssumption DEF KillPackager
<1> QED
  BY <1>1, <1>2, <1>3, <1>4, <1>5, <1>6, <1>7, <1>8, <1>9, <1>10, <1>11, <1>12, <1>13, <1>14,
     <1>15, <1>16 DEF PackagerActs

\* No step of a publication, no failure and no kill loses the shipped release.
LEMMA ShippedStep ==
    ASSUME PublicationTypeOK, TurnsInv, StagedInv, BuildsInv, StageInv, ShippedInv, NEW p \in Packagers,
        PackagerActs(p)
    PROVE  ShippedInv'
<1>t. /\ packager \in [Packagers -> PackagerRecords] /\ packager[p] \in PackagerRecords
      /\ packager' = [packager EXCEPT ![p] = packager'[p]]
      /\ \A q \in Packagers \ {p} : packager'[q] = packager[q]
  BY PackagerTypes DEF PublicationTypeOK, PackagerRecords
<1> USE DEF Doing, Proceed, Trouble, Calm, Abandon, Pair, PackagerRecords
<1>s. /\ drop \in Drops /\ oldDrop \in Drops /\ NoDrop \in Drops
      /\ shipped \in [installer : Versions \cup {None}, build : Builds]
  BY PublicationAssumption DEF PublicationTypeOK, Drops, NoDrop, None, Builds
<1>o. \A q \in Packagers \ {p} : packager[p].pc \in Publishing => packager[q].pc \notin Publishing
  BY PublicationAssumption DEF TurnsInv
<1> USE
        DEF ShippedInv, Holds, InstallerSafe, SourceSafe, Standing, TurnsInv, StageInv,
            StagedInv, BuildsInv,
            Publishing, Unpublished, BeforePlace, IdlePackager, None, Candidate, Drops, NoDrop, Builds
<1>1. CASE Fingerprint(p)
  BY <1>1, <1>t, <1>s, <1>o, PublicationAssumption DEF Fingerprint
<1>2. CASE CopyFile(p)
  BY <1>2, <1>t, <1>s, <1>o, PublicationAssumption DEF CopyFile
<1>3. CASE StageRelease(p)
  BY <1>3, <1>t, <1>s, <1>o, PublicationAssumption DEF StageRelease, Staged
<1>4. CASE \E validated \in BOOLEAN : BuildRelease(p, validated)
  BY <1>4, <1>t, <1>s, <1>o, PublicationAssumption DEF BuildRelease
<1>5. CASE Reconcile(p)
  BY <1>5, <1>t, <1>s, <1>o, PublicationAssumption, NothingDiscarded
<1>6. CASE SetAsideInstaller(p)
  BY <1>6, <1>t, <1>s, <1>o, PublicationAssumption DEF SetAsideInstaller
<1>7. CASE SetAsideSource(p)
  BY <1>7, <1>t, <1>s, <1>o, PublicationAssumption DEF SetAsideSource
<1>8. CASE PlaceInstaller(p)
  BY <1>8, <1>t, <1>s, <1>o, PublicationAssumption DEF PlaceInstaller, Place
<1>9. CASE PlaceSource(p)
  BY <1>9, <1>t, <1>s, <1>o, PublicationAssumption DEF PlaceSource, Place
<1>10. CASE SetAsideDrop(p)
  BY <1>10, <1>t, <1>s, <1>o, PublicationAssumption DEF SetAsideDrop
<1>11. CASE PlaceDrop(p)
  BY <1>11, <1>t, <1>s, <1>o, PublicationAssumption DEF PlaceDrop
<1>12. CASE PublishFails(p)
  BY <1>12, <1>t, <1>s, <1>o, PublicationAssumption DEF PublishFails
<1>13. CASE UndoInstaller(p)
  BY <1>13, <1>t, <1>s, <1>o, PublicationAssumption DEF UndoInstaller, Returned, Gone
<1>14. CASE UndoSource(p)
  BY <1>14, <1>t, <1>s, <1>o, PublicationAssumption DEF UndoSource, Returned, Gone
<1>15. CASE CleanBackups(p)
  BY <1>15, <1>t, <1>s, <1>o, PublicationAssumption DEF CleanBackups
<1>16. CASE KillPackager(p)
  BY <1>16, <1>t, <1>s, <1>o, PublicationAssumption DEF KillPackager
<1> QED
  BY <1>1, <1>2, <1>3, <1>4, <1>5, <1>6, <1>7, <1>8, <1>9, <1>10, <1>11, <1>12, <1>13, <1>14,
     <1>15, <1>16 DEF PackagerActs

\* The developer's edits leave the publication alone.
LEMMA EditKeeps == PublicationInv /\ (\E v \in Versions : EditSource(v)) => PublicationInv'
BY PublicationAssumption
   DEF EditSource, Trouble, PublicationInv, PublicationTypeOK, TurnsInv, StagedInv, BuildsInv,
       StageInv, ShippedInv,
   Holds, InstallerSafe, SourceSafe, Standing, Candidate

\* Every step keeps the invariant of a publication.
LEMMA PublicationStep == PublicationInv /\ [PublicationNext]_publicationVars => PublicationInv'
<1> SUFFICES ASSUME PublicationInv, [PublicationNext]_publicationVars
             PROVE  PublicationInv'
  OBVIOUS
<1>1. CASE \E p \in Packagers : PackagerActs(p)
  BY <1>1, PackagerTypes, TurnsStep, StagedStep, BuildsStep, StageStep, ShippedStep
     DEF PublicationInv
<1>2. CASE UNCHANGED publicationVars
  BY <1>2
     DEF publicationVars, PublicationInv, PublicationTypeOK, TurnsInv, StagedInv, BuildsInv,
         StageInv, ShippedInv,
     Holds, InstallerSafe, SourceSafe, Standing, Candidate
<1> QED
  BY <1>1, <1>2, EditKeeps DEF PublicationNext, PackagerActs

\* The inductive invariant of a publication.
THEOREM PublicationInvariant == PublicationSpec => []PublicationInv
BY PublicationStarts, PublicationStep, PTL DEF PublicationSpec

\* The last release that was put in place can be had from the disk, whichever
\* step of a later publication fails, however its undoing goes on from there,
\* and wherever a packager is killed; and the two archives of a packager are of
\* one version of the source.
THEOREM ReleaseKept == PublicationSpec => []ReleaseRecoverable
<1>1. PublicationInv => ReleaseRecoverable
  BY DEF PublicationInv, ShippedInv, StagedInv, Holds, ReleaseRecoverable
<1> QED
  BY <1>1, PublicationInvariant, PTL

-----------------------------------------------------------------------------
(* The four parts together. *)

\* Each part takes its own steps, and stands still while another moves.
LEMMA PartsStepAlone ==
    ReportsSpec => ContinuitySpec /\ ReadOnlySpec /\ ReleaseSpec /\ PublicationSpec
<1>1. ReportsInit => ContinuityInit /\ ReadOnlyInit /\ ReleaseInit /\ PublicationInit
  BY DEF ReportsInit
<1>2. [ReportsStep /\ UNCHANGED part]_<<part, continuityVars, readOnlyVars, releaseVars, publicationVars>>
         => /\ [ContinuityNext]_continuityVars /\ [ReadOnlyNext]_readOnlyVars
            /\ [ReleaseNext]_releaseVars /\ [PublicationNext]_publicationVars
  <2> SUFFICES ASSUME [ReportsStep /\ UNCHANGED part]_<<part, continuityVars, readOnlyVars, releaseVars,
                                                        publicationVars>>
               PROVE  /\ [ContinuityNext]_continuityVars /\ [ReadOnlyNext]_readOnlyVars
                      /\ [ReleaseNext]_releaseVars /\ [PublicationNext]_publicationVars
    OBVIOUS
  <2>1. CASE ReportsStep
    BY <2>1 DEF ReportsStep
  <2>2. CASE UNCHANGED <<part, continuityVars, readOnlyVars, releaseVars, publicationVars>>
    BY <2>2
  <2> QED
    BY <2>1, <2>2
<1> QED
  BY <1>1, <1>2, PTL DEF ReportsSpec, ContinuitySpec, ReadOnlySpec, ReleaseSpec, PublicationSpec

\* The records of all four parts keep the shape their readers rely on, for any
\* number of hooks, runs, audits, commits and packagers.
THEOREM ReportsTypesHold == ("race" \notin UserActs) /\ ReportsSpec => []ReportsTypesOK
<1> SUFFICES ASSUME "race" \notin UserActs
             PROVE  ReportsSpec => []ReportsTypesOK
  OBVIOUS
<1>1. /\ ContinuityInv => ContinuityTypeOK
      /\ ReadOnlyInv => ReadOnlyTypeOK
      /\ ReleaseInv => ReleaseTypeOK
      /\ PublicationInv => PublicationTypeOK
  BY DEF ContinuityInv, ReadOnlyInv, ReleaseInv, PublicationInv
<1>2. ContinuityInv /\ ReadOnlyInv /\ ReleaseInv /\ PublicationInv => ReportsTypesOK
  BY <1>1 DEF ReportsTypesOK
<1>3. ReleaseSpec => []ReleaseInv
  BY ReleaseInvariant
<1> QED
  BY <1>2, <1>3, PartsStepAlone, ContinuityInvariant, ReadOnlyInvariant, PublicationInvariant, PTL
=============================================================================
