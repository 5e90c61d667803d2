-------------------------- MODULE AtomicArtifacts --------------------------
(***************************************************************************)
(* What the artifact store promises: an artifact and its ledger record     *)
(* change together, in one step of the call that asked for it, never once  *)
(* the record is locked; a call that is answered "ok" has had its effect.  *)
(***************************************************************************)
EXTENDS Naturals

CONSTANTS Procs, Paths, Contents, None

VARIABLES
    content,   \* per path: the bytes readers find
    records,   \* per path: the ledger record
    edits,     \* how often others have edited an artifact
    request,   \* per process: the call it is in, or None
    answer     \* per process: what that call is about to answer

vars == <<content, records, edits, request, answer>>
stored == <<content, records, edits>>

Unlocked(path) == records[path] = None \/ ~records[path].locked
Verified ==
    \A path \in Paths : Unlocked(path) \/ content[path] = records[path].sha256

Init ==
    /\ content = [path \in Paths |-> None]
    /\ records = [path \in Paths |-> None]
    /\ edits = 0
    /\ request = [p \in Procs |-> None]
    /\ answer = [p \in Procs |-> None]

Call(p) ==
    /\ request[p] = None
    /\ \/ \E op \in {"open", "verify"} : request' = [request EXCEPT ![p] = [op |-> op]]
       \/ \E path \in Paths, c \in Contents, l \in BOOLEAN :
             request' = [request EXCEPT ![p] = [op |-> "write", path |-> path, content |-> c, lock |-> l]]
    /\ UNCHANGED <<stored, answer>>

\* A write that raises after its last step has taken effect all the same.
Write(p) ==
    /\ request[p] # None /\ request[p].op = "write"
    /\ answer[p] = None
    /\ LET r == request[p]
       IN  /\ Unlocked(r.path)
           /\ content' = [content EXCEPT ![r.path] = r.content]
           /\ records' = [records EXCEPT ![r.path] = [sha256 |-> r.content, locked |-> r.lock]]
    /\ \E a \in {"ok", "error"} : answer' = [answer EXCEPT ![p] = a]
    /\ UNCHANGED <<edits, request>>

Read(p) ==
    /\ request[p] # None /\ request[p].op # "write"
    /\ answer[p] = None
    /\ request[p].op = "verify" => Verified
    /\ answer' = [answer EXCEPT ![p] = "ok"]
    /\ UNCHANGED <<stored, request>>

Fail(p) ==
    /\ request[p] # None
    /\ answer' = [answer EXCEPT ![p] = "error"]
    /\ UNCHANGED <<stored, request>>

\* The call ends, or its process does.
Return(p) ==
    /\ request' = [request EXCEPT ![p] = None]
    /\ answer' = [answer EXCEPT ![p] = None]
    /\ UNCHANGED stored

\* Somebody edits an artifact without the store.
Edit(path) ==
    /\ \E c \in Contents \cup {None} : content' = [content EXCEPT ![path] = c]
    /\ edits' = edits + 1
    /\ UNCHANGED <<records, request, answer>>

Next ==
    \/ \E p \in Procs : Call(p) \/ Write(p) \/ Read(p) \/ Fail(p) \/ Return(p)
    \/ \E path \in Paths : Edit(path)

Spec == Init /\ [][Next]_vars
=============================================================================
