----------------------------- MODULE Dashboard -----------------------------
(* e5r dashboard (e5r-cli dashboard.rs): a server of read-only pages, with     *)
(* one thread that takes the requests, a bounded queue, and one worker thread  *)
(* that owns the one analysis in memory. Manifests, binaries and annotation    *)
(* logs are files that other processes change at any moment.                   *)
EXTENDS Naturals, Sequences, FiniteSets

CONSTANTS
    Projects,     \* the projects of the collection
    Bytes,        \* contents of a binary; a manifest names one by its hash
    Settings,     \* what a manifest says besides: base, architecture, options
    UnknownKey,   \* a setting with an analysis key the dashboard refuses
    LogTexts,     \* contents of an annotation log
    TornLog,      \* one that does not parse
    QueueLimit,   \* the bound of the queue: 16 in the code
    LogReads,     \* reads of the log in one analysis: 5 in the code
    MaxAsks,      \* bound: requests of one run
    MaxEdits      \* bound: changes of files in one run

ASSUME BoundsAssumption ==
    QueueLimit \in Nat /\ LogReads \in Nat \ {0} /\ MaxAsks \in Nat /\ MaxEdits \in Nat
ASSUME ValuesAssumption == UnknownKey \in Settings /\ TornLog \in LogTexts

VARIABLES
    manifest,  \* of each project: the file, or NoManifest
    binary,    \* of each project: the content of the file the manifest names
    log,       \* of each project: its annotation log
    single,    \* the workspace read at the start, or NoWorkspace: a collection
    asked,     \* the requests, in the order they came
    inbox,     \* those the server has not taken
    server,    \* the job it has resolved and not yet passed on, or NoJob
    queue,     \* jobs waiting for the worker
    worker,    \* [at, job, reads]
    cached,    \* the analysis in memory, or NoAnalysis
    replies,   \* of each request: its answer, or NoReply
    edits

files == <<manifest, binary, log, single, edits>>
vars == <<files, asked, inbox, server, queue, worker, cached, replies>>

NoManifest == [hash |-> "none"]
NoWorkspace == [project |-> "none"]
NoJob == [id |-> 0]
NoAnalysis == [key |-> "none"]
NoReply == [code |-> 0]

Asks == 1 .. MaxAsks
Manifests == [hash : Bytes, settings : Settings]
Workspaces == [project : Projects, text : Manifests]
(* Live: project, tasks and records. Functions: an analysis. Absent: an        *)
(* analysis route with the address of no function. Pages, fonts and refused    *)
(* origins and methods are answered as soon as they are taken, and left out.   *)
Kinds == {"live", "functions", "absent"}
Jobs == [id : Asks, kind : Kinds, workspace : Workspaces]
Analyses == [key : Workspaces, bytes : Bytes, settings : Settings, reads : Seq(LogTexts)]
Idle == [at |-> "waiting", job |-> NoJob, reads |-> << >>]
Stages == {"waiting", "options", "log", "answer", "dead"}
Replies == [code : Nat] \cup [code : {200}, workspace : Workspaces, shown : Analyses]

-----------------------------------------------------------------------------
Init ==
    /\ manifest \in [Projects -> Manifests]
    /\ binary \in [Projects -> Bytes]
    /\ log \in [Projects -> LogTexts \ {TornLog}]
    \* serve refuses to start on a binary that is not the manifest's.
    /\ single \in {NoWorkspace} \cup
           {[project |-> p, text |-> manifest[p]] :
               p \in {q \in Projects : binary[q] = manifest[q].hash}}
    /\ asked = << >> /\ inbox = << >> /\ server = NoJob /\ queue = << >>
    /\ worker = Idle /\ cached = NoAnalysis
    /\ replies = [i \in Asks |-> NoReply] /\ edits = 0

(* Other processes: a manifest replaced or removed, a binary rebuilt, an       *)
(* annotation recorded or a log damaged by hand.                               *)
Edit ==
    /\ edits < MaxEdits /\ edits' = edits + 1
    /\ \E p \in Projects :
         \/ /\ \E m \in Manifests \cup {NoManifest} : manifest' = [manifest EXCEPT ![p] = m]
            /\ UNCHANGED <<binary, log>>
         \/ /\ \E b \in Bytes : binary' = [binary EXCEPT ![p] = b]
            /\ UNCHANGED <<manifest, log>>
         \/ /\ \E t \in LogTexts : log' = [log EXCEPT ![p] = t]
            /\ UNCHANGED <<manifest, binary>>
    /\ UNCHANGED <<single, asked, inbox, server, queue, worker, cached, replies>>

Ask ==
    /\ Len(asked) < MaxAsks
    /\ \E p \in Projects, k \in Kinds :
         /\ single = NoWorkspace \/ single.project = p
         /\ asked' = Append(asked, [project |-> p, kind |-> k])
    /\ inbox' = Append(inbox, Len(asked'))
    /\ UNCHANGED <<files, server, queue, worker, cached, replies>>

-----------------------------------------------------------------------------
(* The request thread: one request at a time, each answered or queued before   *)
(* the next is taken.                                                          *)
Reply(i, code) == replies' = [replies EXCEPT ![i] = [code |-> code]]
Taken == /\ server = NoJob /\ inbox # << >> /\ inbox' = Tail(inbox)

(* In a collection every request reads the manifest again; one that is not     *)
(* there, or does not parse, is an error of this request only.                 *)
Resolved(p) ==
    IF single # NoWorkspace THEN single
    ELSE [project |-> p, text |-> manifest[p]]

TakeProject ==
    LET i == Head(inbox)  w == Resolved(asked[i].project) IN
    /\ Taken
    /\ IF w.text = NoManifest
       THEN Reply(i, 400) /\ UNCHANGED server
       ELSE /\ server' = [id |-> i, kind |-> asked[i].kind, workspace |-> w]
            /\ UNCHANGED replies
    /\ UNCHANGED <<files, asked, queue, worker, cached>>

(* /api/project, /api/tasks and /api/records read their files here and now;    *)
(* a store of tasks or records that cannot be read refuses the request.        *)
Live ==
    /\ server # NoJob /\ server.kind = "live"
    /\ \E code \in {200, 400} : Reply(server.id, code)
    /\ server' = NoJob
    /\ UNCHANGED <<files, asked, inbox, queue, worker, cached>>

(* try_send: a full queue, or one whose worker is gone, is "busy".             *)
Send ==
    /\ server # NoJob /\ server.kind # "live"
    /\ IF worker.at # "dead" /\ Len(queue) < QueueLimit
       THEN queue' = Append(queue, server) /\ UNCHANGED replies
       ELSE Reply(server.id, 503) /\ UNCHANGED queue
    /\ server' = NoJob
    /\ UNCHANGED <<files, asked, inbox, worker, cached>>

Serve == TakeProject \/ Live \/ Send

-----------------------------------------------------------------------------
(* Mutant of Key: without the text of the manifest. *)
KeyOfPath(workspace) == [project |-> workspace.project]
(* Mutant of Key: with the annotations as they are on disk by now. *)
KeyOfLog(workspace) ==
    [project |-> workspace.project, text |-> workspace.text, log |-> log[workspace.project]]

(* The worker. The key is the project's path, the whole text of the manifest   *)
(* and the binary's path.                                                      *)
Key(workspace) == [project |-> workspace.project, text |-> workspace.text]

Begin ==
    LET job == Head(queue) IN
    /\ worker.at = "waiting" /\ queue # << >> /\ queue' = Tail(queue)
    /\ IF cached # NoAnalysis /\ cached.key = Key(job.workspace)
       THEN /\ worker' = [at |-> "answer", job |-> job, reads |-> << >>]
            /\ UNCHANGED cached
       ELSE /\ worker' = [at |-> "options", job |-> job, reads |-> << >>]
            /\ cached' = NoAnalysis
    /\ UNCHANGED <<files, asked, inbox, server, replies>>

Text == worker.job.workspace.text
(* Mutant of Fails: the error is only logged. *)
FailsSilently(code) == worker' = Idle /\ UNCHANGED <<replies, cached>>
Fails(code) == /\ Reply(worker.job.id, code)
               /\ worker' = Idle
               /\ UNCHANGED cached

(* Workspace::options and Workspace::object: an unknown key, or bytes whose    *)
(* hash is not the manifest's, refuse the request and leave nothing cached.    *)
Open ==
    LET p == worker.job.workspace.project IN
    /\ worker.at = "options"
    /\ IF Text.settings = UnknownKey \/ binary[p] # Text.hash
       THEN Fails(400)
       ELSE worker' = [worker EXCEPT !.at = "log"] /\ UNCHANGED <<cached, replies>>
    /\ UNCHANGED <<files, asked, inbox, server, queue>>

(* The log is read five times: once to see that it parses, then for names,     *)
(* declarations and comments (which show nothing when it does not parse), and  *)
(* for the annotations, which fail again.                                      *)
ReadLog ==
    LET t == log[worker.job.workspace.project]
        reads == Append(worker.reads, t)
    IN
    /\ worker.at = "log"
    /\ IF t = TornLog /\ Len(reads) \in {1, LogReads}
       THEN Fails(400)
       ELSE /\ IF Len(reads) < LogReads
               THEN worker' = [worker EXCEPT !.reads = reads] /\ UNCHANGED cached
               ELSE /\ worker' = [worker EXCEPT !.at = "answer", !.reads = << >>]
                    /\ cached' = [key |-> Key(worker.job.workspace), bytes |-> Text.hash,
                                  settings |-> Text.settings, reads |-> Tail(reads)]
            /\ UNCHANGED replies
    /\ UNCHANGED <<files, asked, inbox, server, queue>>

Answer ==
    /\ worker.at = "answer"
    /\ replies' = [replies EXCEPT ![worker.job.id] =
           IF worker.job.kind = "absent" THEN [code |-> 404]
           ELSE [code |-> 200, workspace |-> worker.job.workspace, shown |-> cached]]
    /\ worker' = Idle
    /\ UNCHANGED <<files, asked, inbox, server, queue, cached>>

(* A panic ends the thread: its job and the queued ones are dropped, and a     *)
(* request that is dropped unanswered is answered 500 by the HTTP library.     *)
Panic ==
    LET dropped == {worker.job.id} \cup {queue[i].id : i \in DOMAIN queue} IN
    /\ worker.at \in {"options", "log", "answer"}
    /\ replies' = [i \in Asks |-> IF i \in dropped THEN [code |-> 500] ELSE replies[i]]
    /\ worker' = [Idle EXCEPT !.at = "dead"]
    /\ queue' = << >> /\ cached' = NoAnalysis
    /\ UNCHANGED <<files, asked, inbox, server>>

Work == Begin \/ Open \/ ReadLog \/ Answer

-----------------------------------------------------------------------------
Done == /\ Len(asked) = MaxAsks /\ \A i \in Asks : replies[i] # NoReply
        /\ UNCHANGED vars

Next == Edit \/ Ask \/ Serve \/ Work \/ Panic \/ Done
Spec == Init /\ [][Next]_vars /\ WF_vars(Serve) /\ WF_vars(Work)

-----------------------------------------------------------------------------
Answered(i) == replies[i] # NoReply
Shows(i) == replies[i].code = 200 /\ "shown" \in DOMAIN replies[i]

(* TypeOK: every variable has the form dashboard.rs gives it.                  *)
TypeOK ==
    /\ manifest \in [Projects -> Manifests \cup {NoManifest}]
    /\ binary \in [Projects -> Bytes] /\ log \in [Projects -> LogTexts]
    /\ single \in Workspaces \cup {NoWorkspace}
    /\ asked \in Seq([project : Projects, kind : Kinds]) /\ Len(asked) <= MaxAsks
    /\ inbox \in Seq(Asks)
    /\ server \in Jobs \cup {NoJob}
    /\ queue \in Seq(Jobs) /\ Len(queue) <= QueueLimit
    /\ worker \in [at : Stages, job : Jobs \cup {NoJob}, reads : Seq(LogTexts)]
    /\ Len(worker.reads) < LogReads
    /\ cached \in Analyses \cup {NoAnalysis}
    /\ replies \in [Asks -> Replies]
    /\ edits \in 0 .. MaxEdits

(* AnswersOwnManifest: whatever was loaded for other requests in between, an   *)
(* analysis that is shown is of the project that was asked for, of bytes with  *)
(* the hash in the manifest as it was read for this request, under that        *)
(* manifest's settings (dashboard.rs:278-289, the key of the resident one).    *)
AnswersOwnManifest ==
    \A i \in Asks : Shows(i) =>
        LET r == replies[i] IN
        /\ r.workspace.project = asked[i].project
        /\ r.shown.key.project = asked[i].project
        /\ r.shown.bytes = r.workspace.text.hash
        /\ r.shown.settings = r.workspace.text.settings

(* The manifest of a dashboard of one project is still the one it started on.  *)
AsStarted == single # NoWorkspace => manifest[single.project] = single.text

OneAnalysis ==
    single # NoWorkspace =>
        \A i, j \in Asks : Shows(i) /\ Shows(j) => replies[i].shown = replies[j].shown

(* OneSnapshot: while its manifest is left alone, a dashboard of one project   *)
(* shows one reading of the bytes and the annotations, the one taken when the  *)
(* first analysis was made, however binary and log change between requests or  *)
(* between two of the analysis's own reads of the log                          *)
(* (docs/toolkit/dashboard.md:132-134; dashboard.rs:284-289, 139-168).         *)
OneSnapshot == []AsStarted => []OneAnalysis

(* EveryRequestAnswered: every request is answered, because both threads run   *)
(* as long as they have work and a panic drops what it held                    *)
(* (dashboard.rs:311-500 and 271-298).                                         *)
EveryRequestAnswered == \A i \in Asks : (i \in DOMAIN asked) ~> Answered(i)
=============================================================================
