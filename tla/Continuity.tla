----------------------------- MODULE Continuity -----------------------------
(***************************************************************************)
(* One coding session of a host and the managed requests made in it.  The  *)
(* host's hooks are processes of their own: the prompt hook captures the   *)
(* request under the session's lock; the tool and stop hooks read the      *)
(* session and the request's files without it, and take it only to write   *)
(* back all of the state they read.  A managed run binds its completion    *)
(* receipt to the session meanwhile.                                       *)
(***************************************************************************)
EXTENDS Naturals, Sequences

CONSTANTS
    Repos,        \* repositories of the host
    NoRepo,
    Hooks,        \* tool and stop hooks under way at a time
    Runs,         \* managed runs, 1 .. n
    MaxPrompts,   \* bound: prompts of the session
    MaxGeneration,\* bound: generations of its request
    MaxBreaks     \* bound: processes killed, sessions reset

ASSUME ContinuityAssumption ==
    /\ NoRepo \notin Repos /\ MaxPrompts \in Nat \ {0} /\ MaxBreaks \in Nat
    /\ MaxGeneration \in Nat \ {0} /\ Runs \subseteq Nat \ {0}

VARIABLES
    session,      \* the signed state file of the session
    requests,     \* [generation -> the request file and its metadata]
    capture,      \* the prompt hook between its writes; it holds the session's lock
    hooks,        \* [Hooks -> where the hook is and the state it read]
    runs,         \* [Runs -> where the run is, its request, its receipt]
    prompts, breaks   \* bounded counters

continuityVars == <<session, requests, capture, hooks, runs, prompts, breaks>>

Generation == 0 .. MaxGeneration
Texts == Seq(1 .. MaxPrompts)
Request == [text : Texts, repo : Repos \cup {NoRepo}]
NoRequest == [text |-> <<>>, repo |-> NoRepo]
\* `request` says whether the state names its generation's request file,
\* `metadata` the generation whose metadata it names, 0 for none.
Sessions == [status : {"none", "active", "paused", "cancelled", "complete"}, text : Texts,
             generation : Generation, required : BOOLEAN, repo : Repos \cup {NoRepo},
             request : BOOLEAN, metadata : Generation, receipt : Runs \cup {0}]
NoSession == [status |-> "none", text |-> <<>>, generation |-> 0, required |-> FALSE,
              repo |-> NoRepo, request |-> FALSE, metadata |-> 0, receipt |-> 0]
Receipt == [generation : Generation, text : Texts, repo : Repos \cup {NoRepo}]
NoReceipt == [generation |-> 0, text |-> <<>>, repo |-> NoRepo]

ContinuityTypeOK ==
    /\ session \in Sessions
    /\ requests \in [Generation \ {0} -> Request]
    /\ capture \in [pc : {"none", "blank", "bind", "kept"}, next : Sessions]
    /\ hooks \in [Hooks -> [pc : {"none", "tool", "allowed", "rebound", "launch", "stop", "proven"},
                            copy : Sessions]]
    /\ runs \in [Runs -> [pc : {"none", "working", "complete", "receipt", "done"},
                          of : Receipt, receipt : Receipt]]
    /\ prompts \in 0 .. MaxPrompts /\ breaks \in 0 .. MaxBreaks

ContinuityInit ==
    /\ session = NoSession /\ requests = [g \in Generation \ {0} |-> NoRequest]
    /\ capture = [pc |-> "none", next |-> NoSession]
    /\ hooks = [h \in Hooks |-> [pc |-> "none", copy |-> NoSession]]
    /\ runs = [n \in Runs |-> [pc |-> "none", of |-> NoReceipt, receipt |-> NoReceipt]]
    /\ prompts = 0 /\ breaks = 0

Unlocked == capture.pc = "none"
Identity(s) == [generation |-> s.generation, text |-> s.text, repo |-> s.repo]
Break == breaks < MaxBreaks /\ breaks' = breaks + 1

-----------------------------------------------------------------------------
(* Requests. *)

\* The wrapper of _persist_managed_request: a generation whose file holds
\* another text is left alone, and the next one is used.
Advanced(s) ==
    IF requests[s.generation] # NoRequest /\ requests[s.generation].text # s.text
    THEN [s EXCEPT !.generation = @ + 1, !.receipt = 0] ELSE s
Persisted(s) == LET t == Advanced(s) IN [t EXCEPT !.request = TRUE, !.metadata = t.generation]
Finalizes(s) == s.status = "active" /\ s.required
Finalized(s) == IF Finalizes(s) THEN Persisted(s) ELSE s

\* The request's file and metadata, written for a state that was persisted.
RequestWritten(s) ==
    IF Finalizes(s) THEN [requests EXCEPT ![s.generation] = [text |-> s.text, repo |-> s.repo]]
    ELSE requests

\* The one repository a path or a project's name in a prompt stands for; a
\* prompt can also be ambiguous or quote a path as evidence.
NamedRepos == Repos \cup {NoRepo}

\* Paths and names in a prompt outrank the session's repository, and that the
\* current directory.  An explicit other repository is a conflict.
Binding(named, previous) ==
    IF named # NoRepo THEN {named} ELSE IF previous # NoRepo THEN {previous} ELSE Repos \cup {NoRepo}
Conflict(s, named) == named # NoRepo /\ s.repo # NoRepo /\ named # s.repo

Started(s, turn, required) ==
    [NoSession EXCEPT !.status = "active", !.text = <<turn>>, !.generation = s.generation + 1,
                      !.required = required]

\* What capture makes of a prompt: the state before the repository is bound.
PauseRequest(s) ==
    [s EXCEPT !.status = "paused", !.repo = NoRepo, !.request = FALSE, !.metadata = 0,
              !.receipt = 0]
ResumeRequest(s) == IF s.status = "paused" THEN [s EXCEPT !.status = "active"] ELSE s
CancelRequest(s) ==
    [s EXCEPT !.status = "cancelled", !.required = FALSE, !.receipt = 0,
              !.generation = IF @ = 0 THEN 1 ELSE @]
AddRequest(s, turn, required) ==
    IF s.status \in {"none", "complete"} \/ (s.status \in {"paused", "cancelled"} /\ required)
    THEN Started(s, turn, required)
    ELSE IF s.status = "paused" THEN s
    ELSE [s EXCEPT !.status = "active", !.text = Append(@, turn), !.required = @ \/ required,
                   !.repo = NoRepo, !.request = FALSE, !.metadata = 0, !.receipt = 0]

\* Where the objective stays, the repository, the metadata and the completion
\* fields of before are put back, those the persisting cleared included.
Restored(s, before) ==
    [s EXCEPT !.repo = before.repo, !.receipt = before.receipt,
              !.metadata = IF before.metadata = 0 THEN @ ELSE before.metadata]

\* A prompt that leaves the objective as it is: a remark or a cancellation is
\* one write of the state, a pause or a resumption two.
KeepObjective ==
    /\ Unlocked /\ prompts < MaxPrompts /\ prompts' = prompts + 1 /\ session # NoSession
    /\ \/ session' \in {session, CancelRequest(session)} /\ UNCHANGED <<requests, capture>>
       \/ \E next \in {PauseRequest(session), ResumeRequest(session)} :
             LET s == Finalized(next)
             IN  /\ next # session /\ s.generation \in Generation
                 /\ session' = s /\ requests' = RequestWritten(s)
                 /\ capture' = [pc |-> "kept", next |-> Restored(s, session)]
    /\ UNCHANGED <<hooks, runs, breaks>>

SaveKept ==
    /\ capture.pc = "kept"
    /\ session' = capture.next /\ capture' = [pc |-> "none", next |-> NoSession]
    /\ UNCHANGED <<requests, hooks, runs, prompts, breaks>>

\* A prompt that names another repository without replacing the request is
\* recorded as rejected; the request stays.
RejectPrompt ==
    /\ Unlocked /\ prompts < MaxPrompts /\ prompts' = prompts + 1
    /\ session.status \in {"active", "paused"} /\ \E named \in Repos : Conflict(session, named)
    /\ UNCHANGED <<session, requests, capture, hooks, runs, breaks>>

\* A new, added or replacing request: the request file and unbound metadata
\* first, the lock is kept.
CapturePrompt ==
    /\ Unlocked /\ prompts < MaxPrompts /\ prompts' = prompts + 1
    /\ \E named \in NamedRepos, replaces, required \in BOOLEAN :
          LET added == IF replaces THEN Started(session, prompts', required)
                       ELSE AddRequest(session, prompts', required)
              s == Finalized(added)
          IN  /\ added.generation \in Generation /\ s.generation \in Generation
              /\ replaces \/ session.status \notin {"active", "paused"} \/ ~Conflict(session, named)
              /\ added.text # session.text
              /\ \E repo \in Binding(named, IF replaces \/ session.status = "cancelled" THEN NoRepo
                                           ELSE session.repo) :
                    capture' = [pc |-> "blank", next |-> [s EXCEPT !.repo = repo]]
              /\ requests' = RequestWritten(s)
    /\ UNCHANGED <<session, hooks, runs, breaks>>

\* The state is saved before its repository is known ...
SaveBlank ==
    /\ capture.pc = "blank"
    /\ session' = [capture.next EXCEPT !.repo = NoRepo]
    /\ capture' = [capture EXCEPT !.pc = "bind"]
    /\ UNCHANGED <<requests, hooks, runs, prompts, breaks>>

\* ... and again, with the request and its metadata, when it is.
SaveBound ==
    /\ capture.pc = "bind"
    /\ LET s == Finalized(capture.next)
       IN  s.generation \in Generation /\ session' = s /\ requests' = RequestWritten(s)
    /\ capture' = [pc |-> "none", next |-> NoSession]
    /\ UNCHANGED <<hooks, runs, prompts, breaks>>

KillCapture ==
    /\ ~Unlocked /\ Break
    /\ capture' = [pc |-> "none", next |-> NoSession]
    /\ UNCHANGED <<session, requests, hooks, runs, prompts>>

\* continuity-reset moves the session's files away.
ResetSession ==
    /\ Unlocked /\ session # NoSession /\ Break
    /\ session' = NoSession /\ requests' = [g \in Generation \ {0} |-> NoRequest]
    /\ UNCHANGED <<capture, hooks, runs, prompts>>

-----------------------------------------------------------------------------
(* Hooks that read the session without its lock. *)

HookAt(h, pc, copy) == hooks' = [hooks EXCEPT ![h] = [pc |-> pc, copy |-> copy]]
HookEnds(h) == HookAt(h, "none", NoSession)

ReadForHook(h) ==
    /\ hooks[h].pc = "none" /\ session.status \in {"active", "complete"} /\ session.required
    /\ \E pc \in {"tool", "stop"} :
          /\ pc = "tool" => session.status = "active"
          /\ HookAt(h, pc, session)
    /\ UNCHANGED <<session, requests, capture, runs, prompts, breaks>>

\* The request file and its metadata are those of the state.
RequestStands(s) ==
    s.request /\ requests[s.generation] = [text |-> s.text, repo |-> s.repo]

\* An invalid record lets the tool pass without a managed run; freehand work
\* is denied.
PassOrDeny(h) ==
    /\ hooks[h].pc = "tool" /\ HookEnds(h)
    /\ UNCHANGED <<session, requests, capture, runs, prompts, breaks>>

\* The record is the request's: a managed run may start.
AllowRun(h) ==
    /\ hooks[h].pc = "tool" /\ RequestStands(hooks[h].copy)
    /\ hooks[h].copy.metadata = hooks[h].copy.generation
    /\ HookAt(h, "allowed", hooks[h].copy)
    /\ UNCHANGED <<session, requests, capture, runs, prompts, breaks>>

\* `manageroo run --repo other`: the request moves to that repository, without
\* the lock ...
RebindRepo(h) ==
    /\ hooks[h].pc = "allowed"
    /\ \E repo \in Repos \ {hooks[h].copy.repo} :
          LET s == Persisted([hooks[h].copy EXCEPT !.repo = repo, !.receipt = 0])
          IN  /\ s.generation \in Generation /\ requests' = RequestWritten(s)
              /\ HookAt(h, "rebound", s)
    /\ UNCHANGED <<session, capture, runs, prompts, breaks>>

\* ... and the session, under it.
SaveRebound(h) ==
    /\ hooks[h].pc = "rebound" /\ Unlocked
    /\ session' = hooks[h].copy /\ HookAt(h, "launch", hooks[h].copy)
    /\ UNCHANGED <<requests, capture, runs, prompts, breaks>>

\* The command becomes a run of the bound repository and request; the state
\* that was read is written back.
LaunchRun(h) ==
    /\ hooks[h].pc \in {"allowed", "launch"} /\ Unlocked /\ hooks[h].copy.repo # NoRepo
    /\ session' = hooks[h].copy /\ HookEnds(h)
    /\ \E n \in Runs :
          /\ runs[n].pc = "none" /\ \A m \in Runs : m < n => runs[m].pc # "none"
          /\ runs' = [runs EXCEPT ![n].pc = "working",
                                  ![n].of = [NoReceipt EXCEPT !.generation = hooks[h].copy.generation,
                                                              !.repo = hooks[h].copy.repo]]
    /\ UNCHANGED <<requests, capture, prompts, breaks>>

\* _verify_completion_receipt: the receipt is that of the state's request, in
\* its repository, and the request's metadata say so too.
ReceiptProves(s) ==
    /\ s.receipt # 0 /\ runs[s.receipt].receipt = Identity(s) /\ RequestStands(s)

\* Without proof the host is told to go on.  The tree may have moved since.
StopSession(h) ==
    /\ hooks[h].pc = "stop"
    /\ \/ /\ ReceiptProves(hooks[h].copy)
          /\ HookAt(h, "proven", [hooks[h].copy EXCEPT !.status = "complete"])
       \/ HookEnds(h)
    /\ UNCHANGED <<session, requests, capture, runs, prompts, breaks>>

\* The state that was read, saved as complete.
SaveStopped(h) ==
    /\ hooks[h].pc = "proven" /\ Unlocked
    /\ session' = hooks[h].copy /\ HookEnds(h)
    /\ UNCHANGED <<requests, capture, runs, prompts, breaks>>

KillHook(h) ==
    /\ hooks[h].pc # "none" /\ Break /\ HookEnds(h)
    /\ UNCHANGED <<session, requests, capture, runs, prompts>>

-----------------------------------------------------------------------------
(* Managed runs. *)

\* The brief is loaded with its metadata and bound to the run.
LoadBrief(n) ==
    /\ runs[n].pc = "working"
    /\ LET request == requests[runs[n].of.generation]
       IN  runs' = [runs EXCEPT ![n] =
              IF request = NoRequest \/ request.repo # runs[n].of.repo THEN [@ EXCEPT !.pc = "done"]
              ELSE [@ EXCEPT !.pc = "complete", !.of.text = request.text]]
    /\ UNCHANGED <<session, requests, capture, hooks, prompts, breaks>>

\* The run ends COMPLETE and writes its signed receipt, or it does not.
WriteReceipt(n) ==
    /\ runs[n].pc = "complete"
    /\ runs' \in {[runs EXCEPT ![n].pc = "receipt", ![n].receipt = runs[n].of],
                  [runs EXCEPT ![n].pc = "done"]}
    /\ UNCHANGED <<session, requests, capture, hooks, prompts, breaks>>

\* Mutant: the receipt is bound to whatever the session now asks for.
BindReceipt_Any(n) ==
    /\ runs[n].pc = "receipt" /\ Unlocked
    /\ session' = IF session.status = "none" THEN session ELSE [session EXCEPT !.receipt = n]
    /\ runs' = [runs EXCEPT ![n].pc = "done"]
    /\ UNCHANGED <<requests, capture, hooks, prompts, breaks>>

\* Under the lock, and only when the session still has this request.
BindReceipt(n) ==
    /\ runs[n].pc = "receipt" /\ Unlocked
    /\ session' = IF Identity(session) = runs[n].of /\ session.request
                  THEN [session EXCEPT !.receipt = n] ELSE session
    /\ runs' = [runs EXCEPT ![n].pc = "done"]
    /\ UNCHANGED <<requests, capture, hooks, prompts, breaks>>

ContinuityNext ==
    \/ KeepObjective \/ SaveKept \/ RejectPrompt \/ CapturePrompt \/ SaveBlank \/ SaveBound
    \/ KillCapture \/ ResetSession
    \/ \E h \in Hooks : \/ ReadForHook(h) \/ PassOrDeny(h) \/ AllowRun(h) \/ RebindRepo(h)
                        \/ SaveRebound(h) \/ LaunchRun(h) \/ StopSession(h) \/ SaveStopped(h)
                        \/ KillHook(h)
    \/ \E n \in Runs : LoadBrief(n) \/ WriteReceipt(n) \/ BindReceipt(n)

ContinuitySpec == ContinuityInit /\ [][ContinuityNext]_continuityVars

-----------------------------------------------------------------------------
(* What the session may claim. *)

\* A receipt the session holds is of its text and repository, in its generation
\* or, put back by a resumption, an earlier one; and a session is complete only
\* with one of its very generation, however prompts, hooks and runs interleave
\* and wherever they die.
OfRequest(s, receipt) ==
    receipt.text = s.text /\ receipt.repo = s.repo /\ receipt.generation <= s.generation
CompletionBound ==
    /\ session.receipt # 0 => OfRequest(session, runs[session.receipt].receipt)
    /\ session.status = "complete" =>
          session.receipt # 0 /\ runs[session.receipt].receipt = Identity(session)

\* Not so: a request the prompt hook has captured is only dropped by another
\* prompt or a reset, never by a hook that wrote back what it had read.
CapturedPromptKept ==
    [][\A h \in Hooks : hooks'[h] # hooks[h]
          => Len(session'.text) >= Len(session.text)]_continuityVars
=============================================================================
