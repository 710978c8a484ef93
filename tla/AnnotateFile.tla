---------------------------- MODULE AnnotateFile ----------------------------
(***************************************************************************)
(* The annotate commands on one log file, crates/e5r-cli/src/annotate.rs:  *)
(* each process reads the file, changes the log in memory, writes it to a  *)
(* temporary file whose name all processes share, and renames it.  There   *)
(* is no lock.  Processes can be killed and writes can fail.               *)
(***************************************************************************)
EXTENDS AnnotationRecords

CONSTANTS
    Inodes,       \* file bodies on disk
    Absent,       \* no directory entry
    Empty,        \* a body just truncated: it has no header line
    Garbled,      \* a body cut inside a line, or written over by two processes
    MaxFaults     \* bound: how many processes are killed or fail to write

\* There is room for one more body than the log and the open files take up: a
\* full disk is a failure of Write.
ASSUME InodesAssumption ==
    /\ Inodes \subseteq Nat
    /\ Absent \notin Inodes
    /\ \A used \in [Branches -> Inodes \cup {Absent}] : Inodes \ Range(used) # {}

ASSUME FaultsAssumption == MaxFaults \in Nat

\* A file cut short is no list of records.
ASSUME ContentsAssumption == Empty \notin Seq(Assertion) /\ Garbled \notin Seq(Assertion)

VARIABLES
    body,         \* what each body holds: lines, or Empty or Garbled
    file,         \* the body that the log's name refers to
    temporary,    \* the body that the temporary file's name refers to
    pc,           \* what each process does next
    command,      \* the command each process runs
    memory,       \* the log each process has in memory
    fd,           \* the body each process has open
    faults,       \* how many faults happened
    overlapped    \* history: two commands have run at the same time

commandVars == <<body, file, temporary, pc, command, memory, fd, faults, overlapped>>

Processes == Branches

Commands(p) ==
    [op : {"annotate"}, key : Keys, value : Writes[p]] \cup [op : {"undo", "redo"}]

Free == Inodes \ ({file, temporary} \cup {fd[p] : p \in Processes})

Readable(b) == body[b] \notin {Empty, Garbled}

\* What a command makes of the log it read: nothing when there is no record to
\* move. Logs past the bounds are left out.
Outcomes(p) ==
    LET changed ==
            CASE command[p].op = "annotate" ->
                    {Asserted(memory[p], NewRecord(memory[p], command[p].key, command[p].value, p))}
              [] command[p].op = "undo" ->
                    IF memory[p].records = <<>> THEN {} ELSE {Undone(memory[p])}
              [] command[p].op = "redo" ->
                    IF memory[p].redo = <<>> THEN {} ELSE {Redone(memory[p])}
    IN  {l \in changed : l.next_seq <= MaxSeq + 1 /\ Len(l.records) <= MaxLines}

-----------------------------------------------------------------------------
CommandsInit ==
    /\ body = [b \in Inodes |-> Empty]
    /\ file = Absent
    /\ temporary = Absent
    /\ pc = [p \in Processes |-> "idle"]
    /\ command = [p \in Processes |-> [op |-> "undo"]]
    /\ memory = [p \in Processes |-> EmptyLog]
    /\ fd = [p \in Processes |-> Absent]
    /\ faults = 0
    /\ overlapped = FALSE

Goto(p, l) == pc' = [pc EXCEPT ![p] = l]

\* The end of a process takes its memory and its open file with it.
Exit(p) ==
    /\ Goto(p, "idle")
    /\ memory' = [memory EXCEPT ![p] = EmptyLog]
    /\ command' = [command EXCEPT ![p] = [op |-> "undo"]]
    /\ fd' = [fd EXCEPT ![p] = Absent]

Begin(p) ==
    /\ pc[p] = "idle"
    /\ \E c \in Commands(p) : command' = [command EXCEPT ![p] = c]
    /\ overlapped' = (overlapped \/ \E q \in Processes : pc[q] # "idle")
    /\ Goto(p, "load")
    /\ UNCHANGED <<body, file, temporary, memory, fd, faults>>

\* A missing file is an empty log.
LoadFile(p) ==
    /\ pc[p] = "load"
    /\ file # Absent => Readable(file)
    /\ memory' = [memory EXCEPT ![p] = IF file = Absent THEN EmptyLog ELSE from_text(body[file])]
    /\ Goto(p, "change")
    /\ UNCHANGED <<body, file, temporary, command, fd, faults, overlapped>>

\* A file that cannot be parsed ends the command.
LoadFails(p) ==
    /\ pc[p] = "load"
    /\ file # Absent
    /\ ~Readable(file)
    /\ Exit(p)
    /\ UNCHANGED <<body, file, temporary, faults, overlapped>>

ChangeLog(p) ==
    /\ pc[p] = "change"
    /\ \E l \in Outcomes(p) : memory' = [memory EXCEPT ![p] = l]
    /\ Goto(p, "open")
    /\ UNCHANGED <<body, file, temporary, command, fd, faults, overlapped>>

Nothing(p) ==
    /\ pc[p] = "change"
    /\ Outcomes(p) = {}
    /\ Exit(p)
    /\ UNCHANGED <<body, file, temporary, faults, overlapped>>

\* Faulty variant: the log itself is opened for writing.
OpenLog(p) ==
    LET b == IF file # Absent THEN file ELSE Min(Free)
    IN  /\ pc[p] = "open"
        /\ file' = b
        /\ temporary' = b
        /\ body' = [body EXCEPT ![b] = Empty]
        /\ fd' = [fd EXCEPT ![p] = b]
        /\ Goto(p, "write")
        /\ UNCHANGED <<command, memory, faults, overlapped>>

\* fs::write opens the temporary file, and truncates it when it is there.
Open(p) ==
    LET b == IF temporary # Absent THEN temporary ELSE Min(Free)
    IN  /\ pc[p] = "open"
        /\ temporary' = b
        /\ body' = [body EXCEPT ![b] = Empty]
        /\ fd' = [fd EXCEPT ![p] = b]
        /\ Goto(p, "write")
        /\ UNCHANGED <<file, command, memory, faults, overlapped>>

\* Writing over a text that another process wrote since leaves the longer tail.
Write(p) ==
    /\ pc[p] = "write"
    /\ \E text \in {memory[p].records} \cup
                   (IF body[fd[p]] = Empty THEN {} ELSE {Garbled}) :
         body' = [body EXCEPT ![fd[p]] = text]
    /\ fd' = [fd EXCEPT ![p] = Absent]
    /\ Goto(p, "rename")
    /\ UNCHANGED <<file, temporary, command, memory, faults, overlapped>>

\* Whatever the temporary name refers to becomes the log; the old body is freed.
Rename(p) ==
    /\ pc[p] = "rename"
    /\ temporary # Absent
    /\ file' = temporary
    /\ temporary' = Absent
    /\ body' = [b \in Inodes |-> IF b = file /\ \A q \in Processes : fd[q] # b
                                   THEN Empty ELSE body[b]]
    /\ Exit(p)
    /\ UNCHANGED <<faults, overlapped>>

RenameFails(p) ==
    /\ pc[p] = "rename"
    /\ temporary = Absent
    /\ Exit(p)
    /\ UNCHANGED <<body, file, temporary, faults, overlapped>>

\* The process is killed, or the disk is full: what it was writing may be cut
\* anywhere, also between two lines.
Fail(p) ==
    /\ pc[p] # "idle"
    /\ faults < MaxFaults
    /\ faults' = faults + 1
    /\ \/ /\ pc[p] = "write"
          /\ \E text \in {SubSeq(memory[p].records, 1, n) : n \in 0 .. Len(memory[p].records)}
                         \cup {Garbled} :
               body' = [body EXCEPT ![fd[p]] = text]
       \/ UNCHANGED body
    /\ Exit(p)
    /\ UNCHANGED <<file, temporary, overlapped>>

\* The steps of a running command.
Work(p) ==
    \/ LoadFile(p)
    \/ LoadFails(p)
    \/ ChangeLog(p)
    \/ Nothing(p)
    \/ Open(p)
    \/ Write(p)
    \/ Rename(p)
    \/ RenameFails(p)

CommandsNext == \E p \in Processes : Begin(p) \/ Work(p) \/ Fail(p)

CommandsSpec == CommandsInit /\ [][CommandsNext]_commandVars

-----------------------------------------------------------------------------
(* Properties. *)

Text == Seq(Assertion) \cup {Empty, Garbled}

\* Bodies hold texts, names refer to bodies, and only a writing process has one open.
CommandsTypeOK ==
    /\ body \in [Inodes -> Text]
    /\ {file, temporary} \subseteq Inodes \cup {Absent}
    /\ pc \in [Processes -> {"idle", "load", "change", "open", "write", "rename"}]
    /\ \A p \in Processes : command[p] \in Commands(p)
    /\ memory \in [Processes -> Log]
    /\ fd \in [Processes -> Inodes \cup {Absent}]
    /\ \A p \in Processes : fd[p] # Absent <=> pc[p] = "write"
    /\ faults \in 0 .. MaxFaults
    /\ overlapped \in BOOLEAN

\* The assertions on disk.
Stored == IF file = Absent THEN {} ELSE IF Readable(file) THEN Lines(body[file]) ELSE {}

Journal == INSTANCE NameJournal WITH lines <- Stored

\* "Write a log, atomically, so an interrupted write cannot lose the file"
\* (annotate.rs:38): the log can be read whenever commands ran one after the other,
\* wherever they were killed or out of disk space.
LogSurvives == ~overlapped /\ file # Absent => Readable(file)

\* Commands that run one after the other change the file as single edits or not at
\* all: an edit is made on top of all that is there, and a part of a new log is
\* never taken for the log (annotate.rs:39-45).
CommandsAreAtomic == [][~overlapped' => Journal!JournalNext]_Stored
=============================================================================
