---------------------------- MODULE ProjectFiles ----------------------------
(* The files of registered projects and of patched binaries, as the commands   *)
(* of several processes write them: registry.rs create and import with their   *)
(* clean-up, projects.rs relocate, patch.rs project_add and emit. There is no  *)
(* lock; a process can be killed between two steps, and a write can fail.      *)
EXTENDS Naturals, FiniteSets

CONSTANTS
    Users,       \* processes, each running one command at a time
    Patchers,    \* those that may patch the binary
    Names,       \* names of projects
    Tasks,       \* tasks of the project that is imported; {} for a new one
    Inodes,      \* file bodies for the binary and the patching file; a bound too
    MaxCommands, \* bound: commands of one run
    MaxFaults,   \* bound: kills and failing writes of one run
    NoDir, NoFile, NoBody, NoUser, \* what is not there
    Half,        \* a file, or a body, that is being written; a manifest cut to nothing
    Garbled      \* a manifest that nobody wrote: parts of texts, which parse or do not

ASSUME UsersAssumption == Patchers \subseteq Users /\ Inodes # {}
ASSUME BoundsAssumption == MaxCommands \in Nat /\ MaxFaults \in Nat

VARIABLES
    dir,        \* of each name: NoDir, or what the directory holds
    binary,     \* the body the binary's name refers to
    patching,   \* the body of the file beside it, or NoBody
    body,       \* of each body: Half, or the edits in it
    proc,       \* of each user: [at, name, read, fd]
    commands, faults,
    owner,      \* history: of each name, the user whose create succeeded, or NoUser
    stuck,      \* history: names left by a process killed while it made them
    clashed,    \* history: names whose manifest two adds had open, or one left half way
    foreign     \* history: files put into a directory by hand

files == <<dir, binary, patching, body>>
vars == <<files, proc, commands, faults, owner, stuck, clashed, foreign>>

(* A manifest: who made the project, which file it opens, what was attached.   *)
(* Of tasks, only whether the file is there; "other" is somebody else's file.  *)
Manifests == [by : Users, binary : {"first", "moved"}, patches : SUBSET Users]
Dirs == [manifest : Manifests \cup {NoFile, Half, Garbled}, tmp : Manifests \cup {NoFile, Half},
         work : SUBSET Tasks, other : BOOLEAN]
ASSUME NothingAssumption ==
    /\ NoUser \notin Users /\ NoBody \notin Inodes
    /\ NoFile # Half /\ NoFile # Garbled /\ Half # Garbled
    /\ \A f \in {NoFile, Half, Garbled} : f \notin Manifests /\ \A edits \in SUBSET Users : f # edits
    /\ NoDir \notin Dirs
Idle == [at |-> "idle", name |-> NoFile, read |-> NoFile, fd |-> NoBody]
Making == {"tasks", "tmp", "text", "rename"}
Cleaning == {"unwork", "untmp", "undir"}
Stages == {"idle", "mkdir", "move", "attach", "cut", "astray", "image", "write", "swap"}
          \cup Making \cup Cleaning
(* A process that writes the binary has read an image, any other a manifest.   *)
Patching == [at : {"write", "swap"}, name : Names, read : SUBSET Users, fd : Inodes \cup {NoBody}]
Working == [at : Stages \ {"write", "swap"}, name : Names \cup {NoFile},
            read : Manifests \cup {NoFile, Garbled}, fd : {NoBody}]

-----------------------------------------------------------------------------
Init ==
    /\ dir = [n \in Names |-> NoDir]
    /\ binary = (CHOOSE i \in Inodes : TRUE) /\ patching = NoBody /\ body = [i \in Inodes |-> {}]
    /\ proc = [u \in Users |-> Idle]
    /\ commands = 0 /\ faults = 0
    /\ owner = [n \in Names |-> NoUser] /\ stuck = {} /\ clashed = {} /\ foreign = {}

Goes(u, at) == proc' = [proc EXCEPT ![u].at = at]
Returns(u) == proc' = [proc EXCEPT ![u] = Idle]

(* A user starts a command: create or import, relocate, add, or patch apply.   *)
Start(u, n, at) ==
    /\ proc[u] = Idle /\ commands < MaxCommands /\ commands' = commands + 1
    /\ at = "image" => u \in Patchers
    /\ proc' = [proc EXCEPT ![u] = [at |-> at, name |-> n, read |-> NoFile, fd |-> NoBody]]
    /\ UNCHANGED <<files, faults, owner, stuck, clashed, foreign>>

(* create_dir: the name is taken by making its directory, or it is refused.    *)
NewDir == [manifest |-> NoFile, tmp |-> NoFile, work |-> {}, other |-> FALSE]
TakeName(u) ==
    LET n == proc[u].name IN
    /\ proc[u].at = "mkdir"
    /\ IF dir[n] = NoDir
       THEN dir' = [dir EXCEPT ![n] = NewDir] /\ Goes(u, "tasks")
       ELSE UNCHANGED dir /\ Returns(u)
    /\ UNCHANGED <<binary, patching, body, commands, faults, owner, stuck, clashed, foreign>>

(* The tasks one by one, the manifest beside its place, and the rename. *)
WriteTask(u) ==
    LET n == proc[u].name IN
    /\ proc[u].at = "tasks"
    /\ IF dir[n].work = Tasks THEN Goes(u, "tmp") /\ UNCHANGED dir
       ELSE /\ \E t \in Tasks \ dir[n].work : dir' = [dir EXCEPT ![n].work = @ \cup {t}]
            /\ UNCHANGED proc
    /\ UNCHANGED <<binary, patching, body, commands, faults, owner, stuck, clashed, foreign>>

WriteManifest(u) ==
    LET n == proc[u].name IN
    /\ proc[u].at \in {"tmp", "text"}
    /\ dir' = [dir EXCEPT ![n].tmp =
           IF proc[u].at = "tmp" THEN Half ELSE [by |-> u, binary |-> "first", patches |-> {}]]
    /\ Goes(u, IF proc[u].at = "tmp" THEN "text" ELSE "rename")
    /\ UNCHANGED <<binary, patching, body, commands, faults, owner, stuck, clashed, foreign>>

Publish(u) ==
    LET n == proc[u].name IN
    /\ proc[u].at = "rename"
    /\ dir' = [dir EXCEPT ![n].manifest = dir[n].tmp, ![n].tmp = NoFile]
    /\ owner' = [owner EXCEPT ![n] = u]
    /\ Returns(u)
    /\ UNCHANGED <<binary, patching, body, commands, faults, stuck, clashed, foreign>>

-----------------------------------------------------------------------------
(* A step of create fails: only what it wrote is removed, and the directories  *)
(* only if nothing else is in them.                                            *)
Fail(u) ==
    /\ faults < MaxFaults /\ faults' = faults + 1
    /\ proc[u].at \in Making
    /\ Goes(u, "unwork")
    /\ UNCHANGED <<files, commands, owner, stuck, clashed, foreign>>

RemoveWork(u) ==
    /\ proc[u].at = "unwork" /\ Goes(u, "untmp")
    /\ dir' = [dir EXCEPT ![proc[u].name].work = {}]
    /\ UNCHANGED <<binary, patching, body, commands, faults, owner, stuck, clashed, foreign>>

RemoveTmp(u) ==
    /\ proc[u].at = "untmp" /\ Goes(u, "undir")
    /\ dir' = [dir EXCEPT ![proc[u].name].tmp = NoFile]
    /\ UNCHANGED <<binary, patching, body, commands, faults, owner, stuck, clashed, foreign>>

(* Mutant of RemoveDir: not at all. *)
RemoveNoDir(u) ==
    /\ proc[u].at = "undir" /\ Returns(u)
    /\ UNCHANGED <<files, commands, faults, owner, stuck, clashed, foreign>>
RemoveDir(u) ==
    LET n == proc[u].name IN
    /\ proc[u].at = "undir" /\ Returns(u)
    /\ dir' = [dir EXCEPT ![n] =
           IF @.manifest = NoFile /\ @.tmp = NoFile /\ @.work = {} /\ ~@.other
           THEN NoDir ELSE @]
    /\ UNCHANGED <<binary, patching, body, commands, faults, owner, stuck, clashed, foreign>>

-----------------------------------------------------------------------------
(* relocate and project add read a manifest first; none, or one that does not  *)
(* parse, ends the command. The text is a list of lines that ends anywhere, so *)
(* a garbled one may well parse; what is made of it is no better.              *)
Manifest(n) == IF dir[n] = NoDir THEN NoFile ELSE dir[n].manifest

ReadManifest(u, at, next) ==
    LET m == Manifest(proc[u].name) IN
    /\ proc[u].at = at /\ proc[u].read = NoFile
    /\ \/ m \in {NoFile, Half, Garbled} /\ Returns(u)
       \/ m \notin {NoFile, Half} /\ proc' = [proc EXCEPT ![u].read = m, ![u].at = next]
    /\ UNCHANGED <<files, commands, faults, owner, stuck, clashed, foreign>>

Moved(m) == IF m = Garbled THEN Garbled ELSE [m EXCEPT !.binary = "moved"]
Extended(m, u) == IF m = Garbled THEN Garbled ELSE [m EXCEPT !.patches = @ \cup {u}]

(* Those that have the manifest open to write it.                              *)
Writers(n) == {u \in Users : proc[u].at = "cut" /\ proc[u].name = n}

(* Mutant of Relocate: in place, like project add.                             *)
RelocateInPlace(u) ==
    /\ proc[u].at = "move" /\ proc[u].read # NoFile
    /\ dir' = [dir EXCEPT ![proc[u].name].manifest = Moved(proc[u].read)]
    /\ Returns(u)
    /\ UNCHANGED <<binary, patching, body, commands, faults, owner, stuck, clashed, foreign>>
(* relocate, on the right bytes elsewhere: a file of its own, and a rename.    *)
(* Who has the old file open goes on writing into it, and it has no name now.  *)
Relocate(u) ==
    LET n == proc[u].name IN
    /\ proc[u].at = "move" /\ proc[u].read # NoFile
    /\ dir' = [dir EXCEPT ![n].manifest = Moved(proc[u].read)]
    /\ proc' = [w \in Users |-> IF w = u THEN Idle
                               ELSE IF w \in Writers(n) THEN [proc[w] EXCEPT !.at = "astray"]
                               ELSE proc[w]]
    /\ UNCHANGED <<binary, patching, body, commands, faults, owner, stuck, clashed, foreign>>

(* project add: the manifest itself is opened and cut to nothing, then written *)
(* from its beginning.                                                         *)
Cut(u) ==
    LET n == proc[u].name IN
    /\ proc[u].at = "attach" /\ proc[u].read # NoFile
    /\ dir' = [dir EXCEPT ![n].manifest = Half]
    /\ Goes(u, "cut")
    /\ clashed' = IF Writers(n) = {} THEN clashed ELSE clashed \cup {n}
    /\ UNCHANGED <<binary, patching, body, commands, faults, owner, stuck, foreign>>

(* Over what another add has written since, a shorter text leaves the rest of  *)
(* the longer one behind it.                                                   *)
Attach(u) ==
    LET n == proc[u].name
        mine == Extended(proc[u].read, u)
    IN
    /\ proc[u].at = "cut"
    /\ \E m \in IF dir[n].manifest = Half THEN {mine} ELSE {mine, Garbled} :
         dir' = [dir EXCEPT ![n].manifest = m]
    /\ Returns(u)
    /\ UNCHANGED <<binary, patching, body, commands, faults, owner, stuck, clashed, foreign>>

AttachAstray(u) ==
    /\ proc[u].at = "astray" /\ Returns(u)
    /\ UNCHANGED <<files, commands, faults, owner, stuck, clashed, foreign>>

-----------------------------------------------------------------------------
(* patch apply: the file is read, the patched image written beside it under a  *)
(* name that all processes share, and renamed over it.                         *)
ReadImage(u) ==
    /\ proc[u].at = "image"
    /\ IF body[binary] = Half THEN Returns(u)
       ELSE proc' = [proc EXCEPT ![u].read = body[binary], ![u].at = "write"]
    /\ UNCHANGED <<files, commands, faults, owner, stuck, clashed, foreign>>

Unused == Inodes \ ({binary, patching} \cup {proc[u].fd : u \in Users})

(* Mutant of OpenImage: the binary itself is opened for writing. *)
OpenBinary(u) ==
    /\ proc[u].at = "write" /\ proc[u].fd = NoBody
    /\ patching' = binary /\ body' = [body EXCEPT ![binary] = Half]
    /\ proc' = [proc EXCEPT ![u].fd = binary]
    /\ UNCHANGED <<dir, binary, commands, faults, owner, stuck, clashed, foreign>>
OpenImage(u) ==
    LET i == IF patching = NoBody THEN CHOOSE b \in Unused : TRUE ELSE patching IN
    /\ proc[u].at = "write" /\ proc[u].fd = NoBody /\ (patching # NoBody \/ Unused # {})
    /\ patching' = i /\ body' = [body EXCEPT ![i] = Half]
    /\ proc' = [proc EXCEPT ![u].fd = i]
    /\ UNCHANGED <<dir, binary, commands, faults, owner, stuck, clashed, foreign>>

WriteImage(u) ==
    /\ proc[u].at = "write" /\ proc[u].fd # NoBody
    /\ body' = [body EXCEPT ![proc[u].fd] = proc[u].read \cup {u}]
    /\ proc' = [proc EXCEPT ![u].at = "swap", ![u].fd = NoBody]
    /\ UNCHANGED <<dir, binary, patching, commands, faults, owner, stuck, clashed, foreign>>

Swap(u) ==
    /\ proc[u].at = "swap"
    /\ IF patching = NoBody THEN UNCHANGED <<binary, patching>>
       ELSE binary' = patching /\ patching' = NoBody
    /\ Returns(u)
    /\ UNCHANGED <<dir, body, commands, faults, owner, stuck, clashed, foreign>>

-----------------------------------------------------------------------------
(* A process is killed wherever it is, or its write fails: of a manifest that  *)
(* was open, a part may have been written.                                     *)
Kill(u) ==
    LET n == proc[u].name IN
    /\ faults < MaxFaults /\ faults' = faults + 1
    /\ proc[u].at # "idle" /\ Returns(u)
    /\ stuck' = IF proc[u].at \in Making \cup Cleaning THEN stuck \cup {n} ELSE stuck
    /\ IF proc[u].at = "cut"
       THEN /\ clashed' = clashed \cup {n}
            /\ \E m \in {dir[n].manifest, Garbled} : dir' = [dir EXCEPT ![n].manifest = m]
       ELSE UNCHANGED <<dir, clashed>>
    /\ UNCHANGED <<binary, patching, body, commands, owner, foreign>>

(* Somebody puts a file of his own into a directory that is being made.        *)
PutFile(n) ==
    /\ dir[n] # NoDir /\ foreign = {}
    /\ dir' = [dir EXCEPT ![n].other = TRUE] /\ foreign' = foreign \cup {n}
    /\ UNCHANGED <<binary, patching, body, proc, commands, faults, owner, stuck, clashed>>

Make(u) == TakeName(u) \/ WriteTask(u) \/ WriteManifest(u) \/ Publish(u)
           \/ RemoveWork(u) \/ RemoveTmp(u) \/ RemoveDir(u)
Change(u) == ReadManifest(u, "move", "move") \/ ReadManifest(u, "attach", "attach")
             \/ Relocate(u) \/ Cut(u) \/ Attach(u) \/ AttachAstray(u)
Patch(u) == ReadImage(u) \/ OpenImage(u) \/ WriteImage(u) \/ Swap(u)

Next ==
    \/ \E u \in Users : Make(u) \/ Change(u) \/ Patch(u) \/ Fail(u) \/ Kill(u)
    \/ \E u \in Users, n \in Names, at \in {"mkdir", "move", "attach", "image"} : Start(u, n, at)
    \/ \E n \in Names : PutFile(n)
Spec == Init /\ [][Next]_vars

-----------------------------------------------------------------------------
(* TypeOK: directories, bodies and processes have the form the code gives them *)
(* (registry.rs:196-280, patch.rs:147-169).                                    *)
TypeOK ==
    /\ dir \in [Names -> Dirs \cup {NoDir}]
    /\ binary \in Inodes /\ patching \in Inodes \cup {NoBody}
    /\ body \in [Inodes -> {Half} \cup SUBSET Users]
    /\ proc \in [Users -> Patching \cup Working]
    /\ owner \in [Names -> Users \cup {NoUser}] /\ commands \in Nat /\ faults \in Nat
    /\ stuck \subseteq Names /\ clashed \subseteq Names /\ foreign \subseteq Names

(* CreatedStays: a name is given to one create. From its success on the        *)
(* directory holds all its tasks and a manifest, whatever other commands for   *)
(* the name run, fail and clean up. The manifest is the owner's and whole,     *)
(* beside any number of commands that read and relocate, except while an add   *)
(* writes it; two adds that have it open at once, or one that stops half way,  *)
(* are all that can spoil it (registry.rs:229-278, cli/patch.rs:480,           *)
(* projects.rs:97-99).                                                         *)
CreatedStays ==
    \A n \in Names : owner[n] # NoUser =>
        /\ dir[n] # NoDir /\ dir[n].work = Tasks /\ dir[n].manifest # NoFile
        /\ n \notin clashed =>
             \/ dir[n].manifest \in Manifests /\ dir[n].manifest.by = owner[n]
             \/ dir[n].manifest = Half /\ Writers(n) # {}

(* NamesAreFreed: a create that fails leaves its name to the next one: a       *)
(* directory without a manifest is being made, holds another's file, or was    *)
(* left by a process that was killed; and the clean-up leaves what it did not  *)
(* write: "Never recursively remove a directory somebody else may have changed *)
(* in the meantime" (registry.rs:261-278).                                     *)
NamesAreFreed ==
    /\ \A n \in Names : dir[n] # NoDir /\ dir[n].manifest = NoFile =>
         \/ n \in stuck \/ n \in foreign
         \/ \E u \in Users : proc[u].name = n /\ proc[u].at \in Making \cup Cleaning
    /\ \A n \in foreign : dir[n] # NoDir /\ dir[n].other

(* BinaryIsWhole: "an interrupted write cannot leave a half-patched binary     *)
(* behind" (patch.rs:160-161), as long as one process patches at a time.       *)
BinaryIsWhole == body[binary] # Half
=============================================================================
