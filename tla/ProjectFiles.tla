---------------------------- MODULE ProjectFiles -----------------------------
(***************************************************************************)
(* The project files under .manageroo that commands read, change and write *)
(* back: config.toml, PROJECT-MEMORY.md, a learning card and the intent    *)
(* lock with its rendering.  Each file has a lock file of its own in a     *)
(* cache directory beside it (config_lock.py).  Several commands run at a  *)
(* time; the user edits the files and clears the caches, without any lock. *)
(*                                                                         *)
(* A lock file is the number of its inode.  config.toml is its three       *)
(* sections, the memory a set of notes, an intent lock its generation.     *)
(***************************************************************************)
EXTENDS Integers, FiniteSets

CONSTANTS
    Commands,      \* processes that run one command at a time
    NoCommand,
    Presets,       \* agents a repository may be set to
    GateIds,       \* names of verification gates
    Notes,         \* lines of the project memory; the card proposes one
    MaxStarts,     \* bound: commands started
    MaxTouches     \* bound: what the user does to files and caches

ASSUME ProjectFilesAssumption ==
    /\ IsFiniteSet(Commands) /\ NoCommand \notin Commands \cup Presets
    /\ Presets # {} /\ Notes # {} /\ {MaxStarts, MaxTouches} \subseteq Nat

VARIABLES
    project,    \* config.toml, the project memory and the learning card
    reported,   \* the same, as the completed writes alone would have made them
    intent,     \* INTENT-LOCK.json and the generation INTENT-LOCK.md is of
    captured,   \* generations of the intent whose capture took effect
    answered,   \* generations a reader was given
    lockFile,   \* [Targets -> inode in the cache directory, 0: none]
    holder,     \* [Targets -> [inode -> command that locks it]]
    command,    \* [Commands -> what it does]
    raced,      \* the user worked on a file, or its cache, under a command
    starts, touches

projectVars == <<project, reported, intent, captured, answered, lockFile, holder, command, raced,
                 starts, touches>>

-----------------------------------------------------------------------------
(* Files and commands. *)

Targets == {"config", "memory", "card", "intent"}
Inodes == 1 .. Cardinality(Commands) + 1
Generations == 0 .. MaxStarts

Template(a) == [agent |-> a, integrations |-> "none", gates |-> {}]
NoConfig == Template(NoCommand)
Configs == [agent : Presets, integrations : {"none", "tools", "edited"}, gates : SUBSET GateIds]
NoCard == [status |-> "none", count |-> 0]
ProposedNote == CHOOSE n \in Notes : TRUE
Projects == [config : Configs \cup {NoConfig}, memory : SUBSET Notes,
             card : [status : {"none", "pending", "applied"}, count : Nat]]
Blank == [config |-> NoConfig, memory |-> {}, card |-> NoCard]

ArgumentsOf == [init |-> Presets, agent |-> Presets, check |-> GateIds, integrate |-> {"installed"},
                note |-> Notes, save |-> {"run"}, apply |-> {"approve"},
                capture |-> {"new", "force"}, read |-> {"intent"}]
TargetOf == [init |-> "config", agent |-> "config", check |-> "config", integrate |-> "config",
             note |-> "memory", save |-> "card", apply |-> "card",
             capture |-> "intent", read |-> "intent"]

IdleCommand == [pc |-> "idle", kind |-> "init", arg |-> NoCommand, at |-> "config",
                fd |-> [f \in Targets |-> 0], seen |-> Blank, gen |-> 0, before |-> 0]
Inside == {"read", "reread", "write", "json", "markdown", "undo"}

ProjectTypeOK ==
    /\ project \in Projects /\ reported \in Projects
    /\ intent \in [json : Generations, markdown : Generations]
    /\ captured \cup answered \subseteq Generations
    /\ lockFile \in [Targets -> Inodes \cup {0}]
    /\ holder \in [Targets -> [Inodes -> Commands \cup {NoCommand}]]
    /\ \A c \in Commands : LET r == command[c] IN
          /\ r.pc \in {"idle", "look", "compare", "open", "wait"} \cup Inside
          /\ r.pc # "idle" => r.arg \in ArgumentsOf[r.kind]
          /\ r.pc \in Inside => holder[r.at][r.fd[r.at]] = c
          /\ r.seen \in Projects /\ r.gen \in Generations /\ r.before \in Generations
    /\ raced \in BOOLEAN /\ starts \in Nat /\ touches \in Nat

\* The project has been set up already, or not.
ProjectInit ==
    /\ \E config \in {NoConfig} \cup {Template(a) : a \in Presets} :
          project = [Blank EXCEPT !.config = config]
    /\ reported = project
    /\ intent = [json |-> 0, markdown |-> 0] /\ captured = {} /\ answered = {}
    /\ lockFile = [f \in Targets |-> 0]
    /\ holder = [f \in Targets |-> [i \in Inodes |-> NoCommand]]
    /\ command = [c \in Commands |-> IdleCommand]
    /\ raced = FALSE /\ starts = 0 /\ touches = 0

CommandAt(c, pc) == command[c].pc = pc
Goes(c, pc) == command' = [command EXCEPT ![c].pc = pc]
UnderLock(f) == \E i \in Inodes : holder[f][i] # NoCommand

StartCommand(c) ==
    /\ CommandAt(c, "idle") /\ starts < MaxStarts /\ starts' = starts + 1
    /\ \E kind \in DOMAIN ArgumentsOf : \E arg \in ArgumentsOf[kind] :
          command' = [command EXCEPT ![c] = [IdleCommand EXCEPT
                         !.pc = IF kind \in {"apply", "read"} THEN "look" ELSE "open",
                         !.kind = kind, !.arg = arg, !.at = TargetOf[kind],
                         !.gen = IF kind = "capture" THEN starts + 1 ELSE 0]]
    /\ UNCHANGED <<project, reported, intent, captured, answered, lockFile, holder, raced, touches>>

-----------------------------------------------------------------------------
(* config_mutation_lock *)

Opened(f) == {command[c].fd[f] : c \in Commands}

\* The lock file is created exclusively, or the one that is there is opened.
OpenLock(c) ==
    /\ CommandAt(c, "open")
    /\ LET f == command[c].at
           inode == IF lockFile[f] # 0 THEN lockFile[f]
                    ELSE CHOOSE i \in Inodes : i \notin Opened(f)
       IN  /\ lockFile' = [lockFile EXCEPT ![f] = inode]
           /\ command' = [command EXCEPT ![c].pc = "wait", ![c].fd[f] = inode]
    /\ UNCHANGED <<project, reported, intent, captured, answered, holder, raced, starts, touches>>

FreeOf(c, fs) ==
    [f \in Targets |-> IF f \in fs THEN [i \in Inodes |-> IF holder[f][i] = c THEN NoCommand
                                                          ELSE holder[f][i]]
                       ELSE holder[f]]

\* The command returns or raises; every lock it has is released.
Leaves(c) ==
    /\ command' = [command EXCEPT ![c] = IdleCommand]
    /\ holder' = FreeOf(c, Targets)

\* Mutant: no validation of the lock file after flock.
StillThere_Assumed(c) == c \in Commands

\* After flock the directories and the lock file must still be the ones opened.
StillThere(c) == lockFile[command[c].at] = command[c].fd[command[c].at]

TakeLock(c) ==
    /\ CommandAt(c, "wait")
    /\ LET f == command[c].at
           inode == command[c].fd[f]
       IN  /\ holder[f][inode] = NoCommand
           /\ IF StillThere(c)
              THEN holder' = [holder EXCEPT ![f][inode] = c] /\ Goes(c, "read")
              ELSE Leaves(c)
    /\ UNCHANGED <<project, reported, intent, captured, answered, lockFile, raced, starts, touches>>

\* The poll ends after timeout_seconds.
WaitTimesOut(c) ==
    /\ CommandAt(c, "wait") /\ holder[command[c].at][command[c].fd[command[c].at]] # NoCommand
    /\ Leaves(c)
    /\ UNCHANGED <<project, reported, intent, captured, answered, lockFile, raced, starts, touches>>

-----------------------------------------------------------------------------
(* config.toml, the memory and the card: read, change, replace. *)

Unset(config) == config = NoConfig
HasGate(config, g) == g \in config.gates
Configured(config) == config.integrations # "none"

SetAgent(config, a) == [config EXCEPT !.agent = a]
AddGate(config, g) == [config EXCEPT !.gates = @ \cup {g}]
SetIntegrations(config) == [config EXCEPT !.integrations = "tools"]
AddNote(memory, n) == memory \cup {n}
SeenAgain(card) == [status |-> "pending", count |-> card.count + 1]

\* Refused or needless: the command leaves the file as it is.
Declined(r) ==
    CASE r.kind = "init"      -> ~Unset(project.config)
      [] r.kind = "agent"     -> Unset(project.config)
      [] r.kind = "check"     -> Unset(project.config) \/ HasGate(project.config, r.arg)
      [] r.kind = "integrate" -> Unset(project.config) \/ Configured(project.config)
      [] r.kind = "note"      -> r.arg \in project.memory
      [] r.kind = "save"      -> project.card.status = "applied"
      [] r.kind = "apply"     -> project.card.status # "pending"

\* What the command makes of what it read.
Changed(r, base) ==
    CASE r.kind = "init"      -> [base EXCEPT !.config = Template(r.arg)]
      [] r.kind = "agent"     -> [base EXCEPT !.config = SetAgent(@, r.arg)]
      [] r.kind = "check"     -> [base EXCEPT !.config = AddGate(@, r.arg)]
      [] r.kind = "integrate" -> [base EXCEPT !.config = SetIntegrations(@)]
      [] r.kind = "note"      -> [base EXCEPT !.memory = AddNote(@, r.arg)]
      [] r.kind = "save"      -> [base EXCEPT !.card = SeenAgain(@)]
      [] r.kind = "apply" /\ r.at = "memory" -> [base EXCEPT !.memory = AddNote(@, ProposedNote)]
      [] r.kind = "apply" /\ r.at = "card"   -> [base EXCEPT !.card.status = "applied"]

\* A card that is not pending is refused before the lock is asked for.
LookUpCard(c) ==
    /\ CommandAt(c, "look") /\ command[c].kind = "apply"
    /\ command' = [command EXCEPT ![c] = IF Declined(@) THEN IdleCommand ELSE [@ EXCEPT !.pc = "open"]]
    /\ UNCHANGED <<project, reported, intent, captured, answered, lockFile, holder, raced, starts,
                   touches>>

Reads(c, pc) ==
    command' = [command EXCEPT ![c].pc = pc, ![c].seen[command[c].at] = project[command[c].at]]

\* load_config, or the text itself; two commands load the configuration first
\* and read the text they change afterwards.
ReadProject(c) ==
    /\ CommandAt(c, "read") /\ command[c].kind \notin {"apply", "capture", "read"}
    /\ IF Declined(command[c]) THEN Leaves(c)
       ELSE /\ Reads(c, IF command[c].kind \in {"check", "integrate"} THEN "reread" ELSE "write")
            /\ UNCHANGED holder
    /\ UNCHANGED <<project, reported, intent, captured, answered, lockFile, raced, starts, touches>>

RereadConfig(c) ==
    /\ CommandAt(c, "reread") /\ Reads(c, "write")
    /\ UNCHANGED <<project, reported, intent, captured, answered, lockFile, holder, raced, starts,
                   touches>>

\* apply_learning_card checks the card again, then takes the memory's lock too;
\* a note the memory has already is not added again.
ReadForApply(c) ==
    /\ CommandAt(c, "read") /\ command[c].kind = "apply"
    /\ LET r == command[c] IN
       IF r.at = "card"
       THEN IF Declined(r) THEN Leaves(c)
            ELSE /\ command' = [command EXCEPT ![c].pc = "open", ![c].at = "memory",
                                               ![c].seen.card = project.card]
                 /\ UNCHANGED holder
       ELSE IF ProposedNote \in project.memory
            THEN /\ command' = [command EXCEPT ![c].pc = "write", ![c].at = "card", ![c].fd.memory = 0]
                 /\ holder' = FreeOf(c, {"memory"})
            ELSE Reads(c, "write") /\ UNCHANGED holder
    /\ UNCHANGED <<project, reported, intent, captured, answered, lockFile, raced, starts, touches>>

\* One atomic replacement of the whole file.
WriteProject(c) ==
    /\ CommandAt(c, "write")
    /\ LET r == command[c] IN
          /\ project' = [project EXCEPT ![r.at] = Changed(r, r.seen)[r.at]]
          /\ reported' = Changed(r, reported)
          /\ IF r.kind = "apply" /\ r.at = "memory"
             THEN /\ command' = [command EXCEPT ![c].at = "card", ![c].fd.memory = 0]
                  /\ holder' = FreeOf(c, {"memory"})
             ELSE Leaves(c)
    /\ UNCHANGED <<intent, captured, answered, lockFile, raced, starts, touches>>

-----------------------------------------------------------------------------
(* The intent lock: INTENT-LOCK.json and its rendering, which names it. *)

\* capture_intent_lock: refused without --force where there is one; staging
\* prepares both files and copies those that are there.
StageIntent(c) ==
    /\ CommandAt(c, "read") /\ command[c].kind = "capture"
    /\ IF intent.json # 0 /\ command[c].arg # "force" THEN Leaves(c)
       ELSE /\ command' = [command EXCEPT ![c].pc = "json", ![c].before = intent.json]
            /\ UNCHANGED holder
    /\ UNCHANGED <<project, reported, intent, captured, answered, lockFile, raced, starts, touches>>

PlaceJson(c) ==
    /\ CommandAt(c, "json") /\ Goes(c, "markdown")
    /\ intent' = [intent EXCEPT !.json = command[c].gen]
    /\ UNCHANGED <<project, reported, captured, answered, lockFile, holder, raced, starts, touches>>

PlaceMarkdown(c) ==
    /\ CommandAt(c, "markdown")
    /\ \/ /\ intent' = [intent EXCEPT !.markdown = command[c].gen]
          /\ captured' = captured \cup {command[c].gen}
          /\ Leaves(c)
       \/ Goes(c, "undo") /\ UNCHANGED <<intent, captured, holder>>
    /\ UNCHANGED <<project, reported, answered, lockFile, raced, starts, touches>>

\* The rollback puts the copy back, or cannot and says so.
UndoIntent(c) ==
    /\ CommandAt(c, "undo") /\ Leaves(c)
    /\ \/ intent' = [intent EXCEPT !.json = command[c].before] /\ UNCHANGED captured
       \/ captured' = captured \cup {command[c].gen} /\ UNCHANGED intent
    /\ UNCHANGED <<project, reported, answered, lockFile, raced, starts, touches>>

\* read_intent_lock reads the pair without the lock first ...
ReadIntent(c) ==
    /\ CommandAt(c, "look") /\ command[c].kind = "read"
    /\ command' = [command EXCEPT ![c] = IF intent.json = 0 THEN IdleCommand
                                         ELSE [@ EXCEPT !.pc = "compare", !.gen = intent.json]]
    /\ UNCHANGED <<project, reported, intent, captured, answered, lockFile, holder, raced, starts,
                   touches>>

ComparePair(c) ==
    /\ CommandAt(c, "compare")
    /\ IF intent.markdown = command[c].gen
       THEN /\ answered' = answered \cup {command[c].gen}
            /\ command' = [command EXCEPT ![c] = IdleCommand]
       ELSE Goes(c, "open") /\ UNCHANGED answered
    /\ UNCHANGED <<project, reported, intent, captured, lockFile, holder, raced, starts, touches>>

\* ... and under it, when the two do not match: the rendering is made again.
RegenerateMarkdown(c) ==
    /\ CommandAt(c, "read") /\ command[c].kind = "read" /\ Leaves(c)
    /\ intent' = [intent EXCEPT !.markdown = intent.json]
    /\ answered' = IF intent.json = 0 THEN answered ELSE answered \cup {intent.json}
    /\ UNCHANGED <<project, reported, captured, lockFile, raced, starts, touches>>

-----------------------------------------------------------------------------
(* Killed, or a read or write raises; and the user. *)

StopCommand(c) ==
    /\ ~CommandAt(c, "idle") /\ Leaves(c)
    /\ captured' = IF command[c].pc \in {"markdown", "undo"} THEN captured \cup {command[c].gen}
                   ELSE captured
    /\ UNCHANGED <<project, reported, intent, answered, lockFile, raced, starts, touches>>

UserTouch(fs) ==
    /\ touches < MaxTouches /\ touches' = touches + 1
    /\ raced' = (raced \/ \E f \in fs : UnderLock(f))
    /\ UNCHANGED <<captured, answered, holder, command, starts>>

EditConfig ==
    /\ UserTouch({"config"}) /\ project.config # NoConfig
    /\ \E new \in {[project.config EXCEPT !.integrations = "edited"]}
                  \cup {[project.config EXCEPT !.gates = gs] : gs \in SUBSET GateIds} :
          /\ new # project.config
          /\ project' = [project EXCEPT !.config = new]
          /\ reported' = [reported EXCEPT !.config = new]
    /\ UNCHANGED <<intent, lockFile>>

EditMemory ==
    /\ UserTouch({"memory"})
    /\ \E notes \in (SUBSET Notes) \ {project.memory} :
          /\ project' = [project EXCEPT !.memory = notes]
          /\ reported' = [reported EXCEPT !.memory = notes]
    /\ UNCHANGED <<intent, lockFile>>

EditMarkdown ==
    /\ UserTouch({}) /\ intent' = [intent EXCEPT !.markdown = 0]
    /\ UNCHANGED <<project, reported, lockFile>>

\* .manageroo/cache holds the learning cards as well.
ClearCache ==
    /\ UserTouch({"config", "memory", "card"})
    /\ project' = [project EXCEPT !.card = NoCard]
    /\ reported' = [reported EXCEPT !.card = NoCard]
    /\ lockFile' = [f \in Targets |-> IF f = "intent" THEN lockFile[f] ELSE 0]
    /\ UNCHANGED intent

ClearIntentCache ==
    /\ UserTouch({"intent"}) /\ lockFile' = [lockFile EXCEPT !["intent"] = 0]
    /\ UNCHANGED <<project, reported, intent>>

ProjectNext ==
    \/ \E c \in Commands :
          \/ StartCommand(c) \/ OpenLock(c) \/ TakeLock(c) \/ WaitTimesOut(c)
          \/ LookUpCard(c) \/ ReadProject(c) \/ RereadConfig(c) \/ ReadForApply(c) \/ WriteProject(c)
          \/ StageIntent(c) \/ PlaceJson(c) \/ PlaceMarkdown(c) \/ UndoIntent(c)
          \/ ReadIntent(c) \/ ComparePair(c) \/ RegenerateMarkdown(c)
          \/ StopCommand(c)
    \/ EditConfig \/ EditMemory \/ EditMarkdown \/ ClearCache \/ ClearIntentCache

ProjectSpec == ProjectInit /\ [][ProjectNext]_projectVars

-----------------------------------------------------------------------------
\* Commands that run at the same time do not lose each other's work: while the
\* user kept away from files and caches under a command, config.toml, the memory
\* and the card hold what the completed writes make of each other, one after the
\* other, and a reader of the intent was only given captures that took effect,
\* never one that was taken back (config_lock.py; docs/ENFORCEMENT_MATRIX.md:65,
\* :72).
CompletedWritesStand == ~raced => project = reported /\ answered \subseteq captured

\* Not so: an edit of the user's survives the commands that run meanwhile.
UserEditsStand == project = reported
=============================================================================
