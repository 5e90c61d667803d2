----------------------------- MODULE Capability -----------------------------
(***************************************************************************)
(* The skills a worker is given (capability_router.py, and its callers in  *)
(* orchestrator.py).  Every call routes its task over a catalog of the     *)
(* skill directories, puts the text of the chosen ones into the prompt,    *)
(* and, just before the worker starts, checks their trees, routes again    *)
(* and checks once more.  Calls share one index, which reuses its catalog  *)
(* while the stamps of the files and the host's policy look the same.  The *)
(* user edits, adds, removes and disables skills meanwhile.                *)
(*                                                                         *)
(* A skill is a directory, by its place in the order of paths; its tree is *)
(* a number, which is also how long its text is; every change of a         *)
(* directory gives it a new stamp (size, mtime, ctime).                    *)
(***************************************************************************)
EXTENDS Naturals, Sequences, FiniteSets
LOCAL INSTANCE Folds

CONSTANTS
    SkillCount,     \* directories SKILL.md may be found in
    NameOf,         \* [1 .. SkillCount -> name of the skill there]
    SkillTrees,     \* contents of a skill, by length
    Unsuitable,     \* trees whose text the role or the sandbox rules out
    Relevant,       \* names the task matches without naming them
    Reserved,       \* names of controller policies and saved preferences
    Requests,       \* names a task asks for and refuses: [asked, denied]
    Calls, NoCall,  \* worker calls; nobody holds the index
    MaxSelected, MaxChars,
    MaxChanges      \* bound: changes by the user

ASSUME CapabilityAssumption ==
    /\ SkillCount \in Nat /\ NameOf \in [1 .. SkillCount -> STRING]
    /\ SkillTrees \subseteq Nat \ {0} /\ NoCall \notin Calls
    /\ Requests \subseteq [asked : SUBSET STRING, denied : SUBSET STRING]
    /\ MaxSelected \in Nat /\ MaxChars \in Nat /\ MaxChanges \in Nat

VARIABLES
    disk,       \* [skill -> [tree, stamp]]
    hostConfig, \* Codex's config.toml: [off, readable]
    index,      \* CapabilityIndex: its lock, what is cached and its signature, and
                \* whether the policy could be read when it was read last
    call,       \* [Calls -> a worker call]
    changes

capabilityVars == <<disk, hostConfig, index, call, changes>>

SkillDirs == 1 .. SkillCount
Absent  == 0
Symlink == 1000     \* a symbolic link where a skill should be
Kinds   == SkillTrees \cup {Absent, Symlink}
Files   == [tree : Kinds, stamp : 0 .. MaxChanges]
Entries == [skill : SkillDirs, tree : SkillTrees]
Reasons == {"disabled", "conflict", "symlink", "changed"}
Ignored == [skill : SkillDirs, reason : Reasons]
Catalogs == [entries : SUBSET Entries, ignored : SUBSET Ignored]
NoCatalog == [entries |-> {}, ignored |-> {}]

\* pass: 1 before the prompt is written, 2 just before the launch.
CallSteps == {"idle", "load", "scan", "read", "route", "check", "launched"}
Configs == [off : SUBSET SkillDirs, readable : BOOLEAN]
NoConfig == [off |-> {}, readable |-> TRUE]

\* scanned, trees: what the load under way has seen; catalog: what it returned.
\* current, allowed, blind (history): trees on disk, and skills the host allowed,
\* at some moment since the check before the launch began; whether the host's
\* policy could not be read at some such moment.
WorkerCalls ==
    [pc : CallSteps, pass : {1, 2}, asked : SUBSET STRING, denied : SUBSET STRING,
     config : Configs, scanned : Seq(Files), trees : Seq(Kinds), catalog : Catalogs,
     route : SUBSET Entries, unchecked : SUBSET Entries, current : SUBSET Entries,
     allowed : SUBSET SkillDirs, blind : BOOLEAN]

CapabilityTypeOK ==
    /\ disk \in [SkillDirs -> Files]
    /\ hostConfig \in Configs
    /\ index \in [lock : Calls \cup {NoCall}, signature : {index.signature},
                  catalog : Catalogs, readable : BOOLEAN]
    /\ call \in [Calls -> WorkerCalls]
    /\ changes \in 0 .. MaxChanges

IdleCall == [pc |-> "idle", pass |-> 1, asked |-> {}, denied |-> {}, config |-> NoConfig,
             scanned |-> <<>>, trees |-> <<>>, catalog |-> NoCatalog, route |-> {},
             unchecked |-> {}, current |-> {}, allowed |-> {}, blind |-> FALSE]

CapabilityInit ==
    /\ disk \in [SkillDirs -> [tree : SkillTrees, stamp : {0}]]
    /\ hostConfig = NoConfig
    /\ index = [lock |-> NoCall, signature |-> <<>>, catalog |-> NoCatalog, readable |-> TRUE]
    /\ call = [c \in Calls |-> IdleCall]
    /\ changes = 0

In(c, pc) == call[c].pc = pc
OnDisk  == {e \in Entries : e.tree = disk[e.skill].tree}
AllowedSkills == IF hostConfig.readable THEN SkillDirs \ hostConfig.off ELSE {}
\* The call raises.
Refuse(c) == call' = [call EXCEPT ![c] = IdleCall]

-----------------------------------------------------------------------------
\* The user

\* A change is something every launch check under way may have seen.
Witnessed == call' = [c \in Calls |-> IF call[c].pass = 2
                                      THEN [call[c] EXCEPT !.current = @ \cup OnDisk',
                                                !.allowed = @ \cup AllowedSkills',
                                                !.blind = @ \/ ~hostConfig'.readable] ELSE call[c]]
Change == changes < MaxChanges /\ changes' = changes + 1

ChangeSkill(s, tree) ==
    /\ Change /\ tree # disk[s].tree
    /\ disk' = [disk EXCEPT ![s] = [tree |-> tree, stamp |-> changes']]
    /\ UNCHANGED <<hostConfig, index>> /\ Witnessed

ChangeConfig(off, readable) ==
    /\ Change
    /\ hostConfig' = [off |-> IF readable THEN off ELSE {}, readable |-> readable]
    /\ hostConfig' # hostConfig
    /\ UNCHANGED <<disk, index>> /\ Witnessed

-----------------------------------------------------------------------------
\* The index

StartCall(c, request) ==
    /\ In(c, "idle")
    /\ call' = [call EXCEPT ![c].pc = "load", ![c].denied = request.denied,
                            ![c].asked = request.asked \ request.denied]
    /\ UNCHANGED <<disk, hostConfig, index, changes>>

\* Under the index's lock the host's policy is read first; a file that cannot be
\* read disables nothing.
BeginLoad(c) ==
    /\ In(c, "load") /\ index.lock = NoCall
    /\ index' = [index EXCEPT !.lock = c, !.readable = hostConfig.readable]
    /\ call' = [call EXCEPT ![c].pc = "scan", ![c].config = hostConfig, ![c].scanned = <<>>,
                            ![c].trees = <<>>]
    /\ UNCHANGED <<disk, hostConfig, changes>>

\* One directory after the other, in the order of their paths.
ScanSkill(c) ==
    LET s == Len(call[c].scanned) + 1
    IN  /\ In(c, "scan") /\ s \in SkillDirs
        /\ call' = [call EXCEPT ![c].scanned = Append(@, disk[s])]
        /\ UNCHANGED <<disk, hostConfig, index, changes>>

\* Mutant: the host's policy is no part of the signature.
Signature_FilesOnly(c) == <<[s \in DOMAIN call[c].scanned |-> call[c].scanned[s].stamp]>>

\* A link and an absent skill look different to lstat, a tree only by stamp.
Signature(c) == <<[s \in DOMAIN call[c].scanned |->
                    <<call[c].scanned[s].stamp, call[c].scanned[s].tree \in {Absent, Symlink}>>],
                  call[c].config>>

\* The lock is given back with the catalog in hand.
Return(c, catalog) ==
    call' = [call EXCEPT ![c].pc = "route", ![c].catalog = catalog,
                         ![c].scanned = <<>>, ![c].trees = <<>>]

EndScan(c) ==
    /\ In(c, "scan") /\ Len(call[c].scanned) = SkillCount
    /\ IF Signature(c) = index.signature
       THEN Return(c, index.catalog) /\ index' = [index EXCEPT !.lock = NoCall]
       ELSE call' = [call EXCEPT ![c].pc = "read"] /\ UNCHANGED index
    /\ UNCHANGED <<disk, hostConfig, changes>>

\* The whole tree of a skill is read between two looks at its stamps; a
\* change in between leaves the skill out.
ReadSkill(c) ==
    LET s == Len(call[c].trees) + 1
        found == call[c].scanned[s].tree
    IN  /\ In(c, "read") /\ s \in SkillDirs
        /\ \E tree \in IF found \notin SkillTrees THEN {Absent}
                       ELSE IF disk[s].tree \in SkillTrees THEN {disk[s].tree, Absent} ELSE {Absent} :
              /\ tree = Absent /\ found \in SkillTrees => disk[s] # call[c].scanned[s]
              /\ call' = [call EXCEPT ![c].trees = Append(@, tree)]
        /\ UNCHANGED <<disk, hostConfig, index, changes>>

\* The catalog: skills disabled by the host, unreadable or in conflict with
\* another copy of their name are ignored, and so are copies after the first.
Catalog(c) ==
    LET me == call[c]
        read == {s \in SkillDirs : me.trees[s] \in SkillTrees /\ s \notin me.config.off}
        Copies(s) == {t \in read : NameOf[t] = NameOf[s]}
        conflict == {s \in read : \E t \in Copies(s) : me.trees[t] # me.trees[s]}
        Because(why, S) == {[skill |-> s, reason |-> why] : s \in S}
        found == {s \in SkillDirs : me.scanned[s].tree \in SkillTrees}
    IN  [entries |-> {[skill |-> s, tree |-> me.trees[s]] :
                         s \in {s \in read \ conflict : \A t \in Copies(s) : s <= t}},
         ignored |-> Because("conflict", conflict)
                     \cup Because("disabled", found \cap me.config.off)
                     \cup Because("changed", {s \in found \ me.config.off : me.trees[s] = Absent})
                     \cup Because("symlink", {s \in SkillDirs : me.scanned[s].tree = Symlink})]

EndLoad(c) ==
    /\ In(c, "read") /\ Len(call[c].trees) = SkillCount
    /\ index' = [index EXCEPT !.lock = NoCall, !.signature = Signature(c), !.catalog = Catalog(c)]
    /\ Return(c, Catalog(c))
    /\ UNCHANGED <<disk, hostConfig, changes>>

-----------------------------------------------------------------------------
\* Routing, with the catalog the load returned

Explicit(c, entry) == NameOf[entry.skill] \in call[c].asked

\* Interactive, writing or acting outside: not for this role and sandbox.
Compatible(entry) == entry.tree \notin Unsuitable

Candidates(c) ==
    {e \in call[c].catalog.entries :
        /\ NameOf[e.skill] \notin call[c].denied \cup Reserved /\ Compatible(e)
        /\ Explicit(c, e) \/ NameOf[e.skill] \in Relevant}

\* Named capabilities score above all others, and names are in path order.
Rank(c, entry) == IF Explicit(c, entry) THEN entry.skill ELSE SkillCount + entry.skill

Chars(entries) ==
    MapThenFoldSet(+, 0, LAMBDA e : e.tree, LAMBDA S : CHOOSE e \in S : TRUE, entries)

Fits(entries) == Cardinality(entries) <= MaxSelected /\ Chars(entries) <= MaxChars

\* In the order of the ranks, each candidate that fits with those chosen before it.
IsChoice(c, chosen) ==
    \A e \in Candidates(c) :
        e \in chosen <=> Fits({d \in chosen : Rank(c, d) < Rank(c, e)} \cup {e})

\* What stops the call: an unreadable policy, a link among the skills, and a
\* named skill that is ignored, unsuitable, unknown, or does not fit.  Whether the
\* policy could be read is asked of the index, which has no lock any more: the
\* answer is that of the last load to begin, this call's or another's.
RouteBlocked(c, chosen) ==
    \/ ~index.readable
    \/ \E i \in call[c].catalog.ignored : i.reason = "symlink" \/ NameOf[i.skill] \in call[c].asked
    \/ \E name \in call[c].asked \ Reserved : \A e \in chosen : NameOf[e.skill] # name

\* The second route must choose the very trees the prompt was written from.
SameRoute(c, chosen) == call[c].pass = 1 \/ chosen = call[c].route

Route(c) ==
    /\ In(c, "route")
    /\ \E chosen \in SUBSET Candidates(c) :
          /\ IsChoice(c, chosen)
          /\ IF RouteBlocked(c, chosen) \/ ~SameRoute(c, chosen) THEN Refuse(c)
             ELSE call' = [call EXCEPT ![c].pc = "check", ![c].route = chosen, ![c].unchecked = chosen,
                                       ![c].config = NoConfig, ![c].catalog = NoCatalog]
    /\ UNCHANGED <<disk, hostConfig, index, changes>>

\* One selected tree after the other.
CheckFresh(c) ==
    /\ In(c, "check")
    /\ \E e \in call[c].unchecked :
          IF disk[e.skill].tree = e.tree THEN call' = [call EXCEPT ![c].unchecked = @ \ {e}]
          ELSE Refuse(c)
    /\ UNCHANGED <<disk, hostConfig, index, changes>>

\* The check before the launch routes again; the second one launches.
PreLaunch(c) ==
    /\ In(c, "check") /\ call[c].unchecked = {}
    /\ call' = [call EXCEPT ![c].pc = IF call[c].pass = 1 THEN "load" ELSE "launched",
                            ![c].pass = 2,
                            ![c].current = IF call[c].pass = 1 THEN OnDisk ELSE @,
                            ![c].allowed = IF call[c].pass = 1 THEN AllowedSkills ELSE @,
                            ![c].blind = IF call[c].pass = 1 THEN ~hostConfig.readable ELSE @]
    /\ UNCHANGED <<disk, hostConfig, index, changes>>

EndCall(c) ==
    /\ In(c, "launched")
    /\ call' = [call EXCEPT ![c] = IdleCall]
    /\ UNCHANGED <<disk, hostConfig, index, changes>>

CapabilityNext ==
    \/ \E s \in SkillDirs, tree \in Kinds : ChangeSkill(s, tree)
    \/ \E off \in SUBSET SkillDirs, readable \in BOOLEAN : ChangeConfig(off, readable)
    \/ \E c \in Calls :
          \/ \E request \in Requests : StartCall(c, request)
          \/ BeginLoad(c) \/ ScanSkill(c) \/ EndScan(c) \/ ReadSkill(c) \/ EndLoad(c)
          \/ Route(c) \/ CheckFresh(c) \/ PreLaunch(c) \/ EndCall(c)

CapabilitySpec == CapabilityInit /\ [][CapabilityNext]_capabilityVars

-----------------------------------------------------------------------------
\* A worker starts with skills whose trees were on disk as its prompt has them,
\* and which the host allowed, each at some moment since the check before the
\* launch began, whatever the index had cached and whatever changed while it
\* was loaded; every skill the task named is among them, none that it refused,
\* that is the controller's own, or that the role rules out, and their text fits.
\* What the host allowed is only claimed while its policy could be read.
LaunchedRouteCurrent ==
    \A c \in Calls : In(c, "launched") =>
        /\ call[c].route \subseteq call[c].current
        /\ \A e \in call[c].route : e.skill \in call[c].allowed \/ call[c].blind
        /\ call[c].asked \ Reserved \subseteq {NameOf[e.skill] : e \in call[c].route}
        /\ \A e \in call[c].route : /\ NameOf[e.skill] \notin call[c].denied \cup Reserved
                                    /\ Compatible(e)
        /\ call[c].route = {} \/ Fits(call[c].route)

\* docs/HOST_SKILL_ECOSYSTEM.md: "Explicit requests fail closed when a skill is
\* disabled"; tests/test_capability_router.py: a configuration that cannot be read
\* blocks the routing.  A skill that a task named and a worker starts with was
\* allowed at some moment since the check before the launch began.
DisabledFailsClosed ==
    \A c \in Calls : In(c, "launched") =>
        \A e \in call[c].route : NameOf[e.skill] \in call[c].asked => e.skill \in call[c].allowed
=============================================================================
