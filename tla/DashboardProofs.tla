--------------------------- MODULE DashboardProofs ---------------------------
(* Proofs about Dashboard, for every collection, every length of the queue and *)
(* every number of requests and changes: what an answer shows.                 *)
EXTENDS Dashboard, TLAPS, SequenceTheorems

(* A job is of the project that was asked for, and of the one workspace of a   *)
(* dashboard that has one.                                                     *)
Mine(job) ==
    /\ job \in Jobs
    /\ job.id \in DOMAIN asked
    /\ job.workspace.project = asked[job.id].project
    /\ single # NoWorkspace => job.workspace = single

(* A dashboard of one project is asked for nothing else.                       *)
AskedThere ==
    single # NoWorkspace => \A i \in DOMAIN asked : asked[i].project = single.project

HeldJobs ==
    /\ AskedThere
    /\ \A i \in DOMAIN inbox : inbox[i] \in DOMAIN asked
    /\ server # NoJob => Mine(server)
    /\ \A i \in DOMAIN queue : Mine(queue[i])
    /\ worker.at \in {"options", "log", "answer"} => Mine(worker.job)

(* An analysis is of the bytes and settings in its own key.                    *)
Sound(a) == a.bytes = a.key.text.hash /\ a.settings = a.key.text.settings

Resident ==
    /\ cached # NoAnalysis => Sound(cached)
    /\ cached # NoAnalysis /\ single # NoWorkspace => cached.key = Key(single)
    /\ worker.at \in {"options", "log"} => cached = NoAnalysis
    /\ worker.at = "answer" => cached # NoAnalysis /\ cached.key = Key(worker.job.workspace)

ShownIsOwn ==
    \A i \in Asks : Shows(i) =>
        /\ i \in DOMAIN asked
        /\ replies[i].workspace.project = asked[i].project
        /\ replies[i].shown.key = Key(replies[i].workspace)
        /\ Sound(replies[i].shown)

(* As long as its worker lives, a dashboard of one project has in memory what  *)
(* it has shown.                                                               *)
ShownIsKept ==
    single # NoWorkspace /\ worker.at # "dead" =>
        \A i \in Asks : Shows(i) => cached # NoAnalysis /\ replies[i].shown = cached

Inv ==
    /\ TypeOK
    /\ HeldJobs
    /\ Resident
    /\ ShownIsOwn
    /\ ShownIsKept
    /\ OneAnalysis

-----------------------------------------------------------------------------
LEMMA Sentinels ==
    /\ NoJob \notin Jobs /\ NoReply \in Replies
    /\ NoWorkspace \notin Workspaces
    /\ \A a \in Analyses : a # NoAnalysis
    /\ \A w \in Workspaces : Key(w) = w
<1>1. NoJob \notin Jobs
  BY DEF NoJob, Jobs, Asks
<1>2. \A a \in Analyses : DOMAIN a = {"key", "bytes", "settings", "reads"}
  BY DEF Analyses
<1>3. DOMAIN NoAnalysis = {"key"}
  BY DEF NoAnalysis
<1>4. \A w \in Workspaces : DOMAIN w = {"project", "text"}
  BY DEF Workspaces
<1>5. DOMAIN NoWorkspace = {"project"}
  BY DEF NoWorkspace
<1>6. \A w \in Workspaces : Key(w) = w
  BY DEF Key, Workspaces
<1>7. NoReply \in Replies
  BY DEF NoReply, Replies
<1> QED BY <1>1, <1>2, <1>3, <1>4, <1>5, <1>6, <1>7

LEMMA PlainReply ==
    ASSUME NEW n \in Nat
    PROVE  [code |-> n] \in Replies /\ "shown" \notin DOMAIN [code |-> n]
BY DEF Replies

LEMMA InitInv == Init => Inv
<1> SUFFICES ASSUME Init PROVE Inv
  OBVIOUS
<1>1. replies \in [Asks -> Replies] /\ \A i \in Asks : ~Shows(i)
  BY Sentinels, PlainReply DEF Init, Shows, NoReply
<1>2. single \in Workspaces \cup {NoWorkspace}
  BY DEF Init, Workspaces
<1>3. Idle \in [at : Stages, job : Jobs \cup {NoJob}, reads : Seq(LogTexts)]
      /\ Len(Idle.reads) < LogReads /\ Idle.at = "waiting"
  BY BoundsAssumption DEF Idle, Stages
<1>4. TypeOK
  BY <1>1, <1>2, <1>3, BoundsAssumption DEF Init, TypeOK
<1>5. HeldJobs /\ Resident
  BY <1>3 DEF Init, HeldJobs, Resident, AskedThere
<1>6. ShownIsOwn /\ ShownIsKept /\ OneAnalysis
  BY <1>1 DEF ShownIsOwn, ShownIsKept, OneAnalysis
<1> QED BY <1>4, <1>5, <1>6 DEF Inv

(* A reply that shows nothing leaves what is shown as it is.                   *)
LEMMA ShowsNothing ==
    ASSUME TypeOK, NEW i \in Asks, NEW n \in Nat, Reply(i, n)
    PROVE  /\ replies' \in [Asks -> Replies]
           /\ \A k \in Asks : Shows(k)' => Shows(k) /\ replies'[k] = replies[k]
<1>1. replies' = [replies EXCEPT ![i] = [code |-> n]]
  BY DEF Reply
<1>2. replies' \in [Asks -> Replies]
  BY <1>1, PlainReply DEF TypeOK
<1>3. ~Shows(i)'
  BY <1>1, PlainReply DEF Shows, TypeOK
<1>4. \A k \in Asks \ {i} : replies'[k] = replies[k]
  BY <1>1 DEF TypeOK
<1> QED BY <1>2, <1>3, <1>4 DEF Shows

(* What is shown keeps its properties when nothing new is shown.               *)
LEMMA ShownStays ==
    ASSUME Inv, \A k \in Asks : Shows(k)' => Shows(k) /\ replies'[k] = replies[k],
           single' = single,
           \A i \in DOMAIN asked : i \in DOMAIN asked' /\ asked'[i] = asked[i],
           \/ worker'.at = "dead"
           \/ worker.at # "dead" /\ cached' = cached
           \/ worker.at # "dead" /\ cached = NoAnalysis
    PROVE  ShownIsOwn' /\ ShownIsKept' /\ OneAnalysis'
<1>1. ShownIsOwn'
  BY DEF Inv, ShownIsOwn, Sound, Key
<1>2. OneAnalysis'
  BY DEF Inv, OneAnalysis
<1>3. ShownIsKept'
  BY DEF Inv, ShownIsKept
<1> QED BY <1>1, <1>2, <1>3

LEMMA SameReplies ==
    replies' = replies => \A k \in Asks : Shows(k)' => Shows(k) /\ replies'[k] = replies[k]
BY DEF Shows

-----------------------------------------------------------------------------
LEMMA EditInv == Inv /\ Edit => Inv'
<1> SUFFICES ASSUME Inv, Edit PROVE Inv'
  OBVIOUS
<1>1. UNCHANGED <<single, asked, inbox, server, queue, worker, cached, replies>>
      /\ edits < MaxEdits /\ edits' = edits + 1
  BY DEF Edit
<1>2. /\ manifest' \in [Projects -> Manifests \cup {NoManifest}]
      /\ binary' \in [Projects -> Bytes] /\ log' \in [Projects -> LogTexts]
  BY DEF Edit, Inv, TypeOK
<1>3. edits' \in 0 .. MaxEdits
  BY <1>1, BoundsAssumption DEF Inv, TypeOK
<1>4. TypeOK'
  BY <1>1, <1>2, <1>3 DEF Inv, TypeOK
<1>5. HeldJobs'
  BY <1>1 DEF Inv, HeldJobs, AskedThere, Mine
<1>6. Resident'
  BY <1>1 DEF Inv, Resident, Sound, Key
<1>7. ShownIsOwn' /\ ShownIsKept' /\ OneAnalysis'
  BY <1>1 DEF Inv, ShownIsOwn, ShownIsKept, OneAnalysis, Shows, Sound, Key
<1> QED BY <1>4, <1>5, <1>6, <1>7 DEF Inv

LEMMA AskInv == Inv /\ Ask => Inv'
<1> SUFFICES ASSUME Inv, Ask PROVE Inv'
  OBVIOUS
<1>1. PICK p \in Projects, k \in Kinds :
         /\ single = NoWorkspace \/ single.project = p
         /\ asked' = Append(asked, [project |-> p, kind |-> k])
  BY DEF Ask
<1>2. /\ inbox' = Append(inbox, Len(asked')) /\ Len(asked) < MaxAsks
      /\ UNCHANGED <<manifest, binary, log, single, edits, server, queue, worker, cached, replies>>
  BY DEF Ask, files
<1>3. asked \in Seq([project : Projects, kind : Kinds]) /\ inbox \in Seq(Asks)
  BY DEF Inv, TypeOK
<1>4. /\ asked' \in Seq([project : Projects, kind : Kinds]) /\ Len(asked') = Len(asked) + 1
      /\ \A i \in DOMAIN asked : i \in DOMAIN asked' /\ asked'[i] = asked[i]
      /\ Len(asked') \in DOMAIN asked'
  BY <1>1, <1>3
<1>5. Len(asked') \in Asks /\ Len(asked') <= MaxAsks
  BY <1>2, <1>3, <1>4, BoundsAssumption DEF Asks
<1>6. inbox' \in Seq(Asks) /\ \A i \in DOMAIN inbox' :
         (i \in DOMAIN inbox /\ inbox'[i] = inbox[i]) \/ inbox'[i] = Len(asked')
  BY <1>2, <1>3, <1>5
<1>7. TypeOK'
  BY <1>2, <1>4, <1>5, <1>6 DEF Inv, TypeOK
<1>8. HeldJobs'
  <2>1. \A i \in DOMAIN inbox' : inbox'[i] \in DOMAIN asked'
    BY <1>4, <1>6 DEF Inv, HeldJobs
  <2>2. server' # NoJob => Mine(server)'
    BY <1>2, <1>4 DEF Inv, HeldJobs, AskedThere, Mine
  <2>3. \A i \in DOMAIN queue' : Mine(queue[i])'
    BY <1>2, <1>4 DEF Inv, HeldJobs, AskedThere, Mine
  <2>4. worker'.at \in {"options", "log", "answer"} => Mine(worker.job)'
    BY <1>2, <1>4 DEF Inv, HeldJobs, AskedThere, Mine
  <2>5. AskedThere'
    <3> SUFFICES ASSUME single # NoWorkspace, NEW i \in DOMAIN asked'
                 PROVE  asked'[i].project = single.project
      BY <1>2 DEF AskedThere
    <3>1. CASE i \in DOMAIN asked
      BY <1>4, <3>1 DEF Inv, HeldJobs, AskedThere
    <3>2. CASE i \notin DOMAIN asked
      <4>1. i = Len(asked) + 1
        BY <1>3, <1>4, <3>2
      <4> QED BY <1>1, <1>3, <4>1
    <3> QED BY <3>1, <3>2
  <2> QED BY <1>2, <2>1, <2>2, <2>3, <2>4, <2>5 DEF HeldJobs
<1>9. Resident'
  BY <1>2 DEF Inv, Resident, Sound, Key
<1>10. ShownIsOwn' /\ ShownIsKept' /\ OneAnalysis'
  <2>1. ShownIsOwn'
    BY <1>2, <1>4 DEF Inv, ShownIsOwn, Shows, Sound, Key
  <2>2. ShownIsKept' /\ OneAnalysis'
    BY <1>2 DEF Inv, ShownIsKept, OneAnalysis, Shows
  <2> QED BY <2>1, <2>2
<1> QED BY <1>7, <1>8, <1>9, <1>10 DEF Inv

-----------------------------------------------------------------------------
LEMMA Elements ==
    ASSUME NEW S, NEW s \in Seq(S)
    PROVE  \A k \in DOMAIN s : s[k] \in S
OBVIOUS

LEMMA TakeProjectInv == Inv /\ TakeProject => Inv'
<1> SUFFICES ASSUME Inv, TakeProject PROVE Inv'
  OBVIOUS
<1> DEFINE i == Head(inbox)
           p == asked[i].project
           w == Resolved(p)
           job == [id |-> i, kind |-> asked[i].kind, workspace |-> w]
<1>1. /\ server = NoJob /\ inbox # << >> /\ inbox' = Tail(inbox)
      /\ UNCHANGED <<manifest, binary, log, single, edits, asked, queue, worker, cached>>
  BY DEF TakeProject, Taken, files
<1>2. /\ i \in Asks /\ i \in DOMAIN asked /\ inbox' \in Seq(Asks)
      /\ \A k \in DOMAIN inbox' : inbox'[k] \in DOMAIN asked
  <2>1. inbox \in Seq(Asks) /\ inbox # << >>
    BY <1>1 DEF Inv, TypeOK
  <2>2. i = inbox[1] /\ 1 \in DOMAIN inbox /\ i \in Asks
    BY <2>1
  <2>3. inbox' \in Seq(Asks)
        /\ \A k \in DOMAIN inbox' : k + 1 \in DOMAIN inbox /\ inbox'[k] = inbox[k + 1]
    BY <1>1, <2>1
  <2> QED BY <2>2, <2>3 DEF Inv, HeldJobs
<1>3. asked[i] \in [project : Projects, kind : Kinds]
  <2>1. asked \in Seq([project : Projects, kind : Kinds])
    BY DEF Inv, TypeOK
  <2>2. \A k \in DOMAIN asked : asked[k] \in [project : Projects, kind : Kinds]
    BY <2>1, Elements
  <2> HIDE DEF i
  <2> QED BY <1>2, <2>2
<1>4. CASE w.text = NoManifest
  <2>1. Reply(i, 400) /\ server' = server
    BY <1>4 DEF TakeProject
  <2>2. /\ replies' \in [Asks -> Replies]
        /\ \A k \in Asks : Shows(k)' => Shows(k) /\ replies'[k] = replies[k]
    BY <1>2, <2>1, ShowsNothing DEF Inv
  <2>3. TypeOK'
    BY <1>1, <1>2, <2>1, <2>2 DEF Inv, TypeOK
  <2>4. HeldJobs'
    BY <1>1, <1>2, <2>1 DEF Inv, HeldJobs, AskedThere, Mine
  <2>5. Resident'
    BY <1>1 DEF Inv, Resident, Sound, Key
  <2>6. ShownIsOwn' /\ ShownIsKept' /\ OneAnalysis'
    <3>1. worker.at = "dead" => worker'.at = "dead"
      BY <1>1
    <3> QED BY <1>1, <2>2, <3>1, ShownStays
  <2> QED BY <2>3, <2>4, <2>5, <2>6 DEF Inv
<1>5. CASE w.text # NoManifest
  <2>1. server' = job /\ replies' = replies
    BY <1>5 DEF TakeProject
  <2>2. w \in Workspaces /\ w.project = p /\ (single # NoWorkspace => w = single)
    <3>1. CASE single # NoWorkspace
      <4>1. w = single /\ single \in Workspaces
        BY <3>1 DEF Resolved, Inv, TypeOK
      <4>2. single.project = asked[i].project
        BY <1>2, <3>1 DEF Inv, HeldJobs, AskedThere
      <4> QED BY <4>1, <4>2
    <3>2. CASE single = NoWorkspace
      <4>1. w = [project |-> p, text |-> manifest[p]]
        BY <3>2 DEF Resolved
      <4>2. manifest[p] \in Manifests
        BY <1>3, <1>5, <4>1 DEF Inv, TypeOK
      <4> QED BY <1>3, <3>2, <4>1, <4>2 DEF Workspaces
    <3> QED BY <3>1, <3>2
  <2> HIDE DEF w
  <2>3. job \in Jobs /\ Mine(job)
    BY <1>2, <1>3, <2>2 DEF Jobs, Mine
  <2>4. TypeOK'
    BY <1>1, <1>2, <2>1, <2>3 DEF Inv, TypeOK
  <2>5. HeldJobs'
    BY <1>1, <1>2, <2>1, <2>3 DEF Inv, HeldJobs, AskedThere, Mine
  <2>6. Resident'
    BY <1>1 DEF Inv, Resident, Sound, Key
  <2>7. ShownIsOwn' /\ ShownIsKept' /\ OneAnalysis'
    BY <1>1, <2>1 DEF Inv, ShownIsOwn, ShownIsKept, OneAnalysis, Shows, Sound, Key
  <2> QED BY <2>4, <2>5, <2>6, <2>7 DEF Inv
<1> QED BY <1>4, <1>5

LEMMA LiveInv == Inv /\ Live => Inv'
<1> SUFFICES ASSUME Inv, Live PROVE Inv'
  OBVIOUS
<1>1. /\ server # NoJob /\ server' = NoJob
      /\ UNCHANGED <<manifest, binary, log, single, edits, asked, inbox, queue, worker, cached>>
  BY DEF Live, files
<1>2. server.id \in Asks
  BY <1>1 DEF Inv, TypeOK, Jobs
<1>3. /\ replies' \in [Asks -> Replies]
      /\ \A k \in Asks : Shows(k)' => Shows(k) /\ replies'[k] = replies[k]
  <2>1. PICK code \in {200, 400} : Reply(server.id, code)
    BY DEF Live
  <2> QED BY <1>2, <2>1, ShowsNothing DEF Inv
<1>4. TypeOK'
  BY <1>1, <1>3 DEF Inv, TypeOK
<1>5. HeldJobs'
  BY <1>1 DEF Inv, HeldJobs, AskedThere, Mine
<1>6. Resident'
  BY <1>1 DEF Inv, Resident, Sound, Key
<1>7. ShownIsOwn' /\ ShownIsKept' /\ OneAnalysis'
  <2>1. worker.at = "dead" => worker'.at = "dead"
    BY <1>1
  <2> QED BY <1>1, <1>3, <2>1, ShownStays
<1> QED BY <1>4, <1>5, <1>6, <1>7 DEF Inv

LEMMA SendInv == Inv /\ Send => Inv'
<1> SUFFICES ASSUME Inv, Send PROVE Inv'
  OBVIOUS
<1>1. /\ server # NoJob /\ server' = NoJob
      /\ UNCHANGED <<manifest, binary, log, single, edits, asked, inbox, worker, cached>>
  BY DEF Send, files
<1>2. server \in Jobs /\ server.id \in Asks /\ Mine(server)
  BY <1>1 DEF Inv, TypeOK, HeldJobs, Jobs
<1>3. worker.at = "dead" => worker'.at = "dead"
  BY <1>1
<1>4. CASE Len(queue) < QueueLimit /\ worker.at # "dead"
  <2>1. queue' = Append(queue, server) /\ replies' = replies
    BY <1>4 DEF Send
  <2>2. queue \in Seq(Jobs)
    BY DEF Inv, TypeOK
  <2>3. /\ queue' \in Seq(Jobs) /\ Len(queue') = Len(queue) + 1
        /\ \A k \in DOMAIN queue' : (k \in DOMAIN queue /\ queue'[k] = queue[k]) \/ queue'[k] = server
    BY <1>2, <2>1, <2>2
  <2>4. Len(queue') <= QueueLimit
    BY <1>4, <2>2, <2>3, BoundsAssumption
  <2>5. TypeOK'
    BY <1>1, <2>1, <2>3, <2>4 DEF Inv, TypeOK
  <2>6. \A k \in DOMAIN queue' : Mine(queue'[k])
    BY <1>2, <2>3 DEF Inv, HeldJobs
  <2>7. HeldJobs'
    BY <1>1, <2>6 DEF Inv, HeldJobs, AskedThere, Mine
  <2>8. Resident'
    BY <1>1 DEF Inv, Resident, Sound, Key
  <2>9. ShownIsOwn' /\ ShownIsKept' /\ OneAnalysis'
    BY <1>1, <2>1 DEF Inv, ShownIsOwn, ShownIsKept, OneAnalysis, Shows, Sound, Key
  <2> QED BY <2>5, <2>7, <2>8, <2>9 DEF Inv
<1>5. CASE ~(Len(queue) < QueueLimit /\ worker.at # "dead")
  <2>1. Reply(server.id, 503) /\ queue' = queue
    BY <1>5 DEF Send
  <2>2. /\ replies' \in [Asks -> Replies]
        /\ \A k \in Asks : Shows(k)' => Shows(k) /\ replies'[k] = replies[k]
    BY <1>2, <2>1, ShowsNothing DEF Inv
  <2>3. TypeOK'
    BY <1>1, <2>1, <2>2 DEF Inv, TypeOK
  <2>4. HeldJobs'
    BY <1>1, <2>1 DEF Inv, HeldJobs, AskedThere, Mine
  <2>5. Resident'
    BY <1>1 DEF Inv, Resident, Sound, Key
  <2>6. ShownIsOwn' /\ ShownIsKept' /\ OneAnalysis'
    BY <1>1, <1>3, <2>2, ShownStays
  <2> QED BY <2>3, <2>4, <2>5, <2>6 DEF Inv
<1> QED BY <1>4, <1>5
-----------------------------------------------------------------------------
(* The worker goes on with its job, or is given the first one of the queue.    *)
LEMMA BeginInv == Inv /\ Begin => Inv'
<1> SUFFICES ASSUME Inv, Begin PROVE Inv'
  OBVIOUS
<1> DEFINE job == Head(queue)
<1>1. /\ worker.at = "waiting" /\ queue # << >> /\ queue' = Tail(queue)
      /\ UNCHANGED <<manifest, binary, log, single, edits, asked, inbox, server, replies>>
  BY DEF Begin, files
<1>2. /\ job \in Jobs /\ Mine(job) /\ queue' \in Seq(Jobs) /\ Len(queue') <= QueueLimit
      /\ \A k \in DOMAIN queue' : Mine(queue'[k])
  <2>1. queue \in Seq(Jobs) /\ queue # << >> /\ Len(queue) <= QueueLimit
    BY <1>1 DEF Inv, TypeOK
  <2>2. job = queue[1] /\ 1 \in DOMAIN queue /\ job \in Jobs
    BY <2>1
  <2>3. queue' \in Seq(Jobs) /\ Len(queue') <= QueueLimit
        /\ \A k \in DOMAIN queue' : k + 1 \in DOMAIN queue /\ queue'[k] = queue[k + 1]
    BY <1>1, <2>1, BoundsAssumption
  <2> HIDE DEF job
  <2> QED BY <2>2, <2>3 DEF Inv, HeldJobs
<1> HIDE DEF job
<1>3. PICK stage \in {"options", "answer"} :
         /\ worker' = [at |-> stage, job |-> job, reads |-> << >>]
         /\ \/ /\ stage = "answer" /\ cached # NoAnalysis
               /\ cached.key = Key(job.workspace) /\ cached' = cached
            \/ /\ stage = "options" /\ cached' = NoAnalysis
               /\ ~(cached # NoAnalysis /\ cached.key = Key(job.workspace))
  BY DEF Begin, job
<1>4. /\ worker' \in [at : Stages, job : Jobs \cup {NoJob}, reads : Seq(LogTexts)]
      /\ Len(worker'.reads) < LogReads /\ worker'.at = stage /\ worker'.job = job
  BY <1>2, <1>3, BoundsAssumption DEF Stages
<1>5. TypeOK'
  BY <1>1, <1>2, <1>3, <1>4 DEF Inv, TypeOK
<1>6. HeldJobs'
  BY <1>1, <1>2, <1>4 DEF Inv, HeldJobs, AskedThere, Mine
<1>7. Resident'
  BY <1>1, <1>3, <1>4 DEF Inv, Resident, Sound, Key
<1>8. single # NoWorkspace => cached' = cached
  <2>1. single # NoWorkspace => job.workspace = single
    BY <1>2 DEF Mine
  <2> QED BY <1>3, <2>1 DEF Inv, Resident
<1>9. ShownIsOwn'
  BY <1>1 DEF Inv, ShownIsOwn, Shows, Sound, Key
<1>10. OneAnalysis'
  BY <1>1 DEF Inv, OneAnalysis, Shows
<1>11. ShownIsKept'
  BY <1>1, <1>8 DEF Inv, ShownIsKept, Shows
<1> QED BY <1>5, <1>6, <1>7, <1>9, <1>10, <1>11 DEF Inv

LEMMA FailsInv ==
    ASSUME Inv, worker.at \in {"options", "log"}, Fails(400),
           UNCHANGED <<files, asked, inbox, server, queue>>
    PROVE  Inv'
<1>1. /\ Reply(worker.job.id, 400) /\ worker' = Idle /\ cached' = cached
      /\ UNCHANGED <<manifest, binary, log, single, edits, asked, inbox, server, queue>>
  BY DEF Fails, files
<1>2. worker.job.id \in Asks
  BY DEF Inv, HeldJobs, Mine, Jobs
<1>3. /\ replies' \in [Asks -> Replies]
      /\ \A k \in Asks : Shows(k)' => Shows(k) /\ replies'[k] = replies[k]
  BY <1>1, <1>2, ShowsNothing DEF Inv
<1>4. /\ worker' \in [at : Stages, job : Jobs \cup {NoJob}, reads : Seq(LogTexts)]
      /\ Len(worker'.reads) < LogReads /\ worker'.at = "waiting"
  BY <1>1, BoundsAssumption DEF Idle, Stages
<1>5. TypeOK'
  BY <1>1, <1>3, <1>4 DEF Inv, TypeOK
<1>6. HeldJobs'
  BY <1>1, <1>4 DEF Inv, HeldJobs, AskedThere, Mine
<1>7. Resident'
  BY <1>1, <1>4 DEF Inv, Resident, Sound, Key
<1>8. ShownIsOwn' /\ ShownIsKept' /\ OneAnalysis'
  <2>1. worker.at # "dead" /\ cached' = cached
    BY <1>1
  <2> QED BY <1>1, <1>3, <2>1, ShownStays
<1> QED BY <1>5, <1>6, <1>7, <1>8 DEF Inv

(* A step of an analysis that answers nothing yet: nothing is in memory, so    *)
(* nothing has been shown by a dashboard of one project.                       *)
LEMMA WorkingInv ==
    ASSUME Inv, worker.at \in {"options", "log"},
           UNCHANGED <<files, asked, inbox, server, queue, replies>>,
           worker' \in [at : Stages, job : Jobs \cup {NoJob}, reads : Seq(LogTexts)],
           Len(worker'.reads) < LogReads, worker'.job = worker.job,
           worker'.at \in {"log", "answer"},
           worker'.at = "log" => cached' = cached,
           worker'.at = "answer" =>
               cached' \in Analyses /\ Sound(cached') /\ cached'.key = Key(worker.job.workspace)
    PROVE  Inv'
<1>1. UNCHANGED <<manifest, binary, log, single, edits, asked, inbox, server, queue, replies>>
  BY DEF files
<1>2. cached = NoAnalysis /\ Mine(worker.job)
  BY DEF Inv, Resident, HeldJobs
<1>3. TypeOK'
  BY <1>1, <1>2 DEF Inv, TypeOK
<1>4. HeldJobs'
  BY <1>1, <1>2 DEF Inv, HeldJobs, AskedThere, Mine
<1>5. Resident'
  <2>1. CASE worker'.at = "log"
    BY <1>1, <1>2, <2>1 DEF Resident
  <2>2. CASE worker'.at = "answer"
    BY <1>1, <1>2, <2>2, Sentinels DEF Resident, Mine, Sound, Key
  <2> QED BY <2>1, <2>2
<1>6. ShownIsOwn'
  BY <1>1 DEF Inv, ShownIsOwn, Shows, Sound, Key
<1>7. OneAnalysis'
  BY <1>1 DEF Inv, OneAnalysis, Shows
<1>8. ShownIsKept'
  BY <1>1, <1>2 DEF Inv, ShownIsKept, Shows
<1> QED BY <1>3, <1>4, <1>5, <1>6, <1>7, <1>8 DEF Inv

LEMMA OpenInv == Inv /\ Open => Inv'
<1> SUFFICES ASSUME Inv, Open PROVE Inv'
  OBVIOUS
<1>1. worker.at = "options" /\ UNCHANGED <<files, asked, inbox, server, queue>>
  BY DEF Open
<1>2. CASE Fails(400)
  BY <1>1, <1>2, FailsInv
<1>3. CASE ~Fails(400)
  <2>1. worker' = [worker EXCEPT !.at = "log"] /\ cached' = cached /\ replies' = replies
    BY <1>3 DEF Open
  <2>2. /\ worker \in [at : Stages, job : Jobs \cup {NoJob}, reads : Seq(LogTexts)]
        /\ Len(worker.reads) < LogReads
    BY DEF Inv, TypeOK
  <2>3. /\ worker' \in [at : Stages, job : Jobs \cup {NoJob}, reads : Seq(LogTexts)]
        /\ Len(worker'.reads) < LogReads /\ worker'.at = "log" /\ worker'.job = worker.job
    BY <2>1, <2>2 DEF Stages
  <2> QED BY <1>1, <2>1, <2>3, WorkingInv
<1> QED BY <1>2, <1>3

LEMMA ReadLogInv == Inv /\ ReadLog => Inv'
<1> SUFFICES ASSUME Inv, ReadLog PROVE Inv'
  OBVIOUS
<1> DEFINE t == log[worker.job.workspace.project]
           reads == Append(worker.reads, t)
           text == worker.job.workspace.text
<1>1. worker.at = "log" /\ UNCHANGED <<files, asked, inbox, server, queue>>
  BY DEF ReadLog
<1>2. CASE Fails(400)
  BY <1>1, <1>2, FailsInv
<1>3. CASE ~Fails(400)
  <2>1. /\ replies' = replies
        /\ \/ /\ Len(reads) < LogReads
              /\ worker' = [worker EXCEPT !.reads = reads] /\ cached' = cached
           \/ /\ worker' = [worker EXCEPT !.at = "answer", !.reads = << >>]
              /\ cached' = [key |-> Key(worker.job.workspace), bytes |-> text.hash,
                            settings |-> text.settings, reads |-> Tail(reads)]
    BY <1>3 DEF ReadLog, Text
  <2>2. /\ worker \in [at : Stages, job : Jobs \cup {NoJob}, reads : Seq(LogTexts)]
        /\ worker.reads \in Seq(LogTexts)
    BY DEF Inv, TypeOK
  <2>3. worker.job.workspace \in Workspaces /\ Mine(worker.job)
    BY <1>1 DEF Inv, HeldJobs, Mine, Jobs
  <2>4. t \in LogTexts
    BY <2>3 DEF Inv, TypeOK, Workspaces
  <2>5. reads \in Seq(LogTexts) /\ reads # << >> /\ Tail(reads) \in Seq(LogTexts)
    <3> HIDE DEF t
    <3>1. reads \in Seq(LogTexts) /\ Len(reads) = Len(worker.reads) + 1
      BY <2>2, <2>4
    <3> HIDE DEF reads
    <3> QED BY <2>2, <3>1
  <2> HIDE DEF reads
  <2>6. CASE /\ Len(reads) < LogReads
             /\ worker' = [worker EXCEPT !.reads = reads] /\ cached' = cached
    <3>1. /\ worker' \in [at : Stages, job : Jobs \cup {NoJob}, reads : Seq(LogTexts)]
          /\ Len(worker'.reads) < LogReads /\ worker'.at = "log" /\ worker'.job = worker.job
      BY <1>1, <2>2, <2>5, <2>6
    <3> QED BY <1>1, <2>1, <2>6, <3>1, WorkingInv
  <2>7. CASE /\ worker' = [worker EXCEPT !.at = "answer", !.reads = << >>]
             /\ cached' = [key |-> Key(worker.job.workspace), bytes |-> text.hash,
                           settings |-> text.settings, reads |-> Tail(reads)]
    <3>1. /\ worker' \in [at : Stages, job : Jobs \cup {NoJob}, reads : Seq(LogTexts)]
          /\ Len(worker'.reads) < LogReads /\ worker'.at = "answer" /\ worker'.job = worker.job
      <4>1. << >> \in Seq(LogTexts) /\ Len(<< >>) < LogReads
        BY BoundsAssumption
      <4>2. /\ worker'.at = "answer" /\ worker'.job = worker.job /\ worker'.reads = << >>
            /\ worker' \in [at : Stages, job : Jobs \cup {NoJob}, reads : Seq(LogTexts)]
        BY <2>2, <2>7, <4>1 DEF Stages
      <4> QED BY <4>1, <4>2
    <3>2. /\ Key(worker.job.workspace) = worker.job.workspace
          /\ text.hash \in Bytes /\ text.settings \in Settings
      BY <2>3, Sentinels DEF Workspaces, Manifests
    <3>3. /\ cached' \in Analyses /\ cached'.key = Key(worker.job.workspace)
          /\ cached'.bytes = cached'.key.text.hash
          /\ cached'.settings = cached'.key.text.settings
      BY <2>3, <2>5, <2>7, <3>2 DEF Analyses
    <3>4. Sound(cached')
      BY <3>3 DEF Sound
    <3> QED BY <1>1, <2>1, <3>1, <3>3, <3>4, WorkingInv
  <2> QED BY <2>1, <2>6, <2>7
<1> QED BY <1>2, <1>3
-----------------------------------------------------------------------------
LEMMA AnswerInv == Inv /\ Answer => Inv'
<1> SUFFICES ASSUME Inv, Answer PROVE Inv'
  OBVIOUS
<1> DEFINE shown == [code |-> 200, workspace |-> worker.job.workspace, shown |-> cached]
<1>0. PICK n : n = worker.job.id
  OBVIOUS
<1>1. /\ worker.at = "answer" /\ worker' = Idle
      /\ UNCHANGED <<manifest, binary, log, single, edits, asked, inbox, server, queue, cached>>
  BY DEF Answer, files
<1>2. /\ n \in Asks /\ n \in DOMAIN asked /\ Mine(worker.job)
      /\ worker.job.workspace \in Workspaces
  BY <1>0, <1>1 DEF Inv, HeldJobs, Mine, Jobs
<1>3. cached \in Analyses /\ Sound(cached) /\ cached.key = Key(worker.job.workspace)
  BY <1>1 DEF Inv, Resident, TypeOK
<1>4. PICK r \in {[code |-> 404], shown} : replies' = [replies EXCEPT ![n] = r]
  BY <1>0 DEF Answer
<1>5. r \in Replies
  BY <1>2, <1>3, PlainReply DEF Replies
<1>6. \A k \in Asks \ {n} : Shows(k)' => Shows(k) /\ replies'[k] = replies[k]
  BY <1>4 DEF Shows, Inv, TypeOK
<1>7. replies'[n] = r
  BY <1>2, <1>4 DEF Inv, TypeOK
<1>8. Shows(n)' => r = shown
  <2>1. CASE r = [code |-> 404]
    <3>1. replies'[n].code # 200
      BY <1>7, <2>1
    <3> QED BY <3>1 DEF Shows
  <2>2. CASE r = shown
    BY <2>2
  <2> QED BY <1>4, <2>1, <2>2
<1>9. /\ worker' \in [at : Stages, job : Jobs \cup {NoJob}, reads : Seq(LogTexts)]
      /\ Len(worker'.reads) < LogReads /\ worker'.at = "waiting"
  BY <1>1, BoundsAssumption DEF Idle, Stages
<1>10. TypeOK'
  <2>1. replies' \in [Asks -> Replies]
    BY <1>4, <1>5 DEF Inv, TypeOK
  <2> QED BY <1>1, <1>9, <2>1 DEF Inv, TypeOK
<1>11. HeldJobs'
  BY <1>1, <1>9 DEF Inv, HeldJobs, AskedThere, Mine
<1>12. Resident'
  BY <1>1, <1>9 DEF Inv, Resident, Sound, Key
<1>13. Shows(n)' => (r.workspace = worker.job.workspace /\ r.shown = cached)
  <2>1. shown.workspace = worker.job.workspace /\ shown.shown = cached
    OBVIOUS
  <2> HIDE DEF shown
  <2> QED BY <1>8, <2>1
<1> HIDE DEF shown
<1>14. ShownIsOwn'
  <2> SUFFICES ASSUME NEW k \in Asks, Shows(k)'
               PROVE  /\ k \in DOMAIN asked'
                      /\ replies'[k].workspace.project = asked'[k].project
                      /\ replies'[k].shown.key = Key(replies'[k].workspace)
                      /\ Sound(replies'[k].shown)
    BY DEF ShownIsOwn, Sound, Key
  <2>1. CASE k = n
    BY <1>0, <1>1, <1>2, <1>3, <1>7, <1>13, <2>1 DEF Mine
  <2>2. CASE k # n
    BY <1>1, <1>6, <2>2 DEF Inv, ShownIsOwn
  <2> QED BY <2>1, <2>2
<1>15. single # NoWorkspace => \A k \in Asks : Shows(k)' => replies'[k].shown = cached
  <2> SUFFICES ASSUME single # NoWorkspace, NEW k \in Asks, Shows(k)'
               PROVE  replies'[k].shown = cached
    OBVIOUS
  <2>1. CASE k = n
    BY <1>7, <1>13, <2>1
  <2>2. CASE k # n
    BY <1>1, <1>6, <2>2 DEF Inv, ShownIsKept
  <2> QED BY <2>1, <2>2
<1>16. ShownIsKept'
  BY <1>1, <1>3, <1>15, Sentinels DEF ShownIsKept
<1>17. OneAnalysis'
  BY <1>1, <1>15 DEF OneAnalysis
<1> QED BY <1>10, <1>11, <1>12, <1>14, <1>16, <1>17 DEF Inv

LEMMA PanicInv == Inv /\ Panic => Inv'
<1> SUFFICES ASSUME Inv, Panic PROVE Inv'
  OBVIOUS
<1>1. /\ worker' = [Idle EXCEPT !.at = "dead"] /\ queue' = << >> /\ cached' = NoAnalysis
      /\ UNCHANGED <<manifest, binary, log, single, edits, asked, inbox, server>>
  BY DEF Panic, files
<1>2. PICK dropped : replies' = [i \in Asks |-> IF i \in dropped THEN [code |-> 500] ELSE replies[i]]
  BY DEF Panic
<1>3. \A k \in Asks : Shows(k)' => Shows(k) /\ replies'[k] = replies[k]
  BY <1>2, PlainReply DEF Shows
<1>4. replies' \in [Asks -> Replies]
  BY <1>2, PlainReply DEF Inv, TypeOK
<1>5. /\ worker' \in [at : Stages, job : Jobs \cup {NoJob}, reads : Seq(LogTexts)]
      /\ Len(worker'.reads) < LogReads /\ worker'.at = "dead"
  <2>1. << >> \in Seq(LogTexts) /\ Len(<< >>) < LogReads
    BY BoundsAssumption
  <2>2. worker' = [at |-> "dead", job |-> NoJob, reads |-> << >>]
    BY <1>1 DEF Idle
  <2> QED BY <2>1, <2>2 DEF Stages
<1>6. queue' \in Seq(Jobs) /\ Len(queue') <= QueueLimit
  BY <1>1, BoundsAssumption
<1>7. TypeOK'
  BY <1>1, <1>4, <1>5, <1>6 DEF Inv, TypeOK
<1>8. HeldJobs'
  BY <1>1, <1>5 DEF Inv, HeldJobs, AskedThere, Mine
<1>9. Resident'
  BY <1>1, <1>5 DEF Resident
<1>10. ShownIsOwn' /\ ShownIsKept' /\ OneAnalysis'
  BY <1>1, <1>3, <1>5, ShownStays
<1> QED BY <1>7, <1>8, <1>9, <1>10 DEF Inv

-----------------------------------------------------------------------------
LEMMA NextInv == Inv /\ [Next]_vars => Inv'
<1> SUFFICES ASSUME Inv, [Next]_vars PROVE Inv'
  OBVIOUS
<1>1. CASE Serve
  BY <1>1, TakeProjectInv, LiveInv, SendInv DEF Serve
<1>2. CASE Work
  BY <1>2, BeginInv, OpenInv, ReadLogInv, AnswerInv DEF Work
<1>3. CASE UNCHANGED vars
  <2>1. UNCHANGED <<manifest, binary, log, single, edits, asked, inbox, server, queue, worker,
                    cached, replies>>
    BY <1>3 DEF vars, files
  <2>2. TypeOK'
    BY <2>1 DEF Inv, TypeOK
  <2>3. HeldJobs' /\ Resident'
    BY <2>1 DEF Inv, HeldJobs, AskedThere, Mine, Resident, Sound, Key
  <2>4. ShownIsOwn' /\ ShownIsKept' /\ OneAnalysis'
    BY <2>1 DEF Inv, ShownIsOwn, ShownIsKept, OneAnalysis, Shows, Sound, Key
  <2> QED BY <2>2, <2>3, <2>4 DEF Inv
<1> QED BY <1>1, <1>2, <1>3, EditInv, AskInv, PanicInv DEF Next, Done

LEMMA AlwaysInv == Spec => []Inv
BY InitInv, NextInv, PTL DEF Spec

(* DashboardTypes: every variable has the form dashboard.rs gives it; the      *)
(* queue never holds more than its bound (dashboard.rs:270, 464-477).          *)
THEOREM DashboardTypes == Spec => []TypeOK
<1>1. Inv => TypeOK
  BY DEF Inv
<1> QED BY <1>1, AlwaysInv, PTL

(* AnswersAreOwn: an answer shows the project that was asked for, and bytes    *)
(* and settings of the manifest as it was read for that request: the analysis  *)
(* in memory is only used under the key it was made with                       *)
(* (dashboard.rs:278-289).                                                     *)
THEOREM AnswersAreOwn == Spec => []AnswersOwnManifest
<1>1. Inv => AnswersOwnManifest
  <2> SUFFICES ASSUME Inv, NEW i \in Asks, Shows(i)
               PROVE  /\ replies[i].workspace.project = asked[i].project
                      /\ replies[i].shown.key.project = asked[i].project
                      /\ replies[i].shown.bytes = replies[i].workspace.text.hash
                      /\ replies[i].shown.settings = replies[i].workspace.text.settings
    BY DEF AnswersOwnManifest
  <2> DEFINE r == replies[i]
  <2>1. /\ r.workspace.project = asked[i].project
        /\ r.shown.key = Key(r.workspace) /\ Sound(r.shown)
    BY DEF Inv, ShownIsOwn
  <2>2. r.shown.key.project = r.workspace.project /\ r.shown.key.text = r.workspace.text
    BY <2>1 DEF Key
  <2> QED BY <2>1, <2>2 DEF Sound
<1> QED BY <1>1, AlwaysInv, PTL

(* SnapshotIsOne: what a dashboard of one project shows does not change while  *)
(* its manifest stays: the analysis is made once, whenever binary and log      *)
(* change, and all that is shown after it is the one in memory                 *)
(* (dashboard.rs:284-289, 139-168).                                            *)
THEOREM SnapshotIsOne == Spec => OneSnapshot
<1>1. Inv => OneAnalysis
  BY DEF Inv
<1> QED BY <1>1, AlwaysInv, PTL DEF OneSnapshot
=============================================================================
