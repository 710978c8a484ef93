------------------------------ MODULE PtxCheck ------------------------------
(* e5r ptx check (e5r-verify ptx/mod.rs, supplied.rs): from the kernel and its *)
(* specification to a verdict, by Lean runs on files that the check writes.    *)
(* A Lean run is two processes: lake, which the check started and can kill,    *)
(* and the Lean that lake started, which only ends by itself.                  *)
EXTENDS Naturals, FiniteSets

CONSTANTS
    Checkers,     \* processes: one `e5r ptx check` each
    Kept,         \* directories that --keep may name
    Jobs,         \* what may be asked: [kernel, proof, keep, search]
    Kernels,      \* kernels, each with its specification
    Class,        \* of each kernel: "map", "block", "outside" or "malformed"
    Shaped,       \* the kernels the automation makes a proof attempt for
    Correct,      \* the kernels that meet their specification
    Found,        \* those whose search finds a candidate counterexample
    Proofs,       \* supplied proof files
    About,        \* of each proof: the kernel its manifest names
    Compiling,    \* the proofs Lean compiles
    Standing,     \* the proofs the independent checker accepts
    NoProof,      \* no --proof
    NoKeep,       \* no --keep
    Nothing,      \* a file that is not there
    MaxFaults     \* bound: kills, failing writes and tools that do not start

ASSUME KernelsAssumption ==
    /\ Class \in [Kernels -> {"map", "block", "outside", "malformed"}]
    /\ \A k \in Kernels : Class[k] = "map" => k \in Shaped
    /\ About \in [Proofs -> Kernels] /\ Standing \subseteq Compiling /\ Compiling \subseteq Proofs
    /\ \A p \in Standing : About[p] \in Correct
    /\ Nothing \notin Kernels \cup Proofs /\ NoProof \notin Proofs /\ MaxFaults \in Nat
ASSUME JobsAssumption ==
    /\ Jobs \subseteq [kernel : Kernels, proof : Proofs \cup {NoProof},
                      keep : Kept \cup {NoKeep}, search : BOOLEAN]
    /\ NoKeep \notin Kept /\ Kept \cap Checkers = {}

VARIABLES
    job,        \* of each checker: what it was asked
    at,         \* of each checker: the stage it has come to
    tool,       \* of each checker: its last Lean run
    files,      \* of each directory: the files in it, or NoDir
    verdict,    \* of each checker: [is, tidy]
    faults,
    shared      \* history: checkers whose directory another one used meanwhile

vars == <<job, at, tool, files, verdict, faults, shared>>

NoDir == [proof |-> Nothing, made |-> FALSE]
Empty == [proof |-> Nothing, refute |-> Nothing, spec |-> Nothing, given |-> Nothing,
          specO |-> Nothing, givenO |-> Nothing, made |-> TRUE]
NoTool == [what |-> "none", lake |-> FALSE, lean |-> "gone", text |-> Nothing,
           result |-> "refused", limit |-> FALSE]
NoVerdict == [is |-> "none", tidy |-> TRUE]

(* Without --keep the directory carries the process id. *)
Dir(c) == IF job[c].keep = NoKeep THEN c ELSE job[c].keep
Here(c) == files[Dir(c)]
Runs == {"build", "library", "prove", "refute", "state", "compile", "audit"}
Supplied(c) == job[c].proof # NoProof
Over == {"idle", "ended", "dead"}
Uses(c) == (at[c] \notin Over \cup {"parse", "dir"}) \/ tool[c].lean # "gone"

Goes(c, stage) == at' = [at EXCEPT ![c] = stage]

(* finish: the verdict, after cleanup(&dir) where the code calls it. *)
Finish(c, v, tidies) ==
    /\ Goes(c, "ended")
    /\ verdict' = [verdict EXCEPT ![c] = [is |-> v, tidy |-> tidies]]
    /\ files' = IF tidies /\ job[c].keep = NoKeep THEN [files EXCEPT ![c] = NoDir] ELSE files

Fault == faults < MaxFaults /\ faults' = faults + 1

-----------------------------------------------------------------------------
Init ==
    /\ job \in [Checkers -> Jobs]
    /\ at = [c \in Checkers |-> "idle"] /\ tool = [c \in Checkers |-> NoTool]
    /\ files = [d \in Kept \cup Checkers |-> NoDir]
    /\ verdict = [c \in Checkers |-> NoVerdict]
    /\ faults = 0 /\ shared = {}

Start(c) == /\ at[c] = "idle" /\ Goes(c, "parse")
            /\ UNCHANGED <<job, tool, files, verdict, faults, shared>>

(* Both inputs are read once, hashed, and parsed; nothing is on disk yet.      *)
Parse(c) ==
    LET class == Class[job[c].kernel] IN
    /\ at[c] = "parse"
    /\ CASE class = "outside" -> Finish(c, "unsupported", FALSE)
         [] class = "malformed" -> Finish(c, "error", FALSE)
         [] OTHER -> Goes(c, "dir") /\ UNCHANGED <<verdict, files>>
    /\ UNCHANGED <<job, tool, faults, shared>>

(* create_dir_all: a directory that is there is used as it is; it stays when   *)
(* the Lean project is not found next. A block kernel with a supplied proof    *)
(* does not build the automation first.                                        *)
MakeDir(c) ==
    LET others == {o \in Checkers \ {c} : Uses(o) /\ Dir(o) = Dir(c)} IN
    /\ at[c] = "dir"
    /\ files' = [files EXCEPT ![Dir(c)] = IF @.made THEN @ ELSE Empty]
    /\ shared' = shared \cup others \cup IF others = {} THEN {} ELSE {c}
    /\ \/ /\ Goes(c, IF Supplied(c) /\ Class[job[c].kernel] = "block" THEN "library" ELSE "build")
          /\ UNCHANGED <<verdict, faults>>
       \/ /\ Fault /\ Goes(c, "ended")
          /\ verdict' = [verdict EXCEPT ![c] = [is |-> "error", tidy |-> FALSE]]
    /\ UNCHANGED <<job, tool>>

-----------------------------------------------------------------------------
(* What a check writes. A generated file that cannot be written is an error    *)
(* that leaves the directory; one for a supplied proof is cleaned up after.    *)
Write(c, stage, file, text, next) ==
    /\ at[c] = stage
    /\ \/ /\ files' = [files EXCEPT ![Dir(c)][file] = text] /\ Goes(c, next)
          /\ UNCHANGED <<verdict, faults>>
       \/ /\ Fault
          /\ Finish(c, "error", Supplied(c))
    /\ UNCHANGED <<job, tool, shared>>

WriteProof(c) == Write(c, "proof", "proof", job[c].kernel, "prove")
WriteRefutation(c) == Write(c, "refutation", "refute", job[c].kernel, "refute")
WriteSpec(c) == Write(c, "spec", "spec", job[c].kernel, "given")
WriteGiven(c) == Write(c, "given", "given", job[c].proof, "clear")

(* What earlier checks compiled here is removed. *)
(* Mutant of Clear: it is left. *)
ClearNothing(c) ==
    /\ at[c] = "clear" /\ Goes(c, "state")
    /\ UNCHANGED <<job, tool, files, verdict, faults, shared>>
Clear(c) ==
    /\ at[c] = "clear" /\ Goes(c, "state")
    /\ files' = [files EXCEPT ![Dir(c)].specO = Nothing, ![Dir(c)].givenO = Nothing]
    /\ UNCHANGED <<job, tool, verdict, faults, shared>>

(* The supplied file: its manifest must name this kernel, specification and    *)
(* toolchain.                                                                  *)
ReadGiven(c) ==
    /\ at[c] = "manifest"
    /\ \/ /\ UNCHANGED faults
          /\ IF About[job[c].proof] = job[c].kernel
             THEN Goes(c, "spec") /\ UNCHANGED <<verdict, files>>
             ELSE Finish(c, "unknown", TRUE)
       \/ Fault /\ Finish(c, "error", TRUE)
    /\ UNCHANGED <<job, tool, shared>>

-----------------------------------------------------------------------------
(* run_lean: lake is started, or is missing. *)
Run(c) ==
    /\ at[c] \in Runs
    /\ \/ /\ tool' = [tool EXCEPT ![c] = [NoTool EXCEPT !.what = at[c], !.lake = TRUE,
                                                        !.lean = "started"]]
          /\ UNCHANGED faults
       \/ Fault /\ tool' = [tool EXCEPT ![c] = [NoTool EXCEPT !.what = at[c]]]
    /\ at' = [at EXCEPT ![c] = "waiting"]
    /\ UNCHANGED <<job, files, verdict, shared>>

(* Lean opens its file some time after it was started. *)
Opened(what, here) ==
    CASE what = "prove" -> here.proof
      [] what = "refute" -> here.refute
      [] what = "state" -> here.spec
      [] what = "compile" -> [given |-> here.given, spec |-> here.specO]
      [] what = "audit" -> [given |-> here.givenO, spec |-> here.specO]
      [] OTHER -> Nothing

LeanReads(c) ==
    /\ tool[c].lean = "started"
    /\ tool' = [tool EXCEPT ![c].lean = "working",
                            ![c].text = IF Here(c).made THEN Opened(tool[c].what, Here(c))
                                        ELSE Nothing]
    /\ UNCHANGED <<job, at, files, verdict, faults, shared>>

(* What Lean may say of what it read. It may always give up or be killed, for  *)
(* memory too; it accepts a proof only of what is so, and may then name other  *)
(* axioms than the three that are allowed.                                     *)
Says(what, text) ==
    {"refused"} \cup
    IF what \in {"build", "library"} THEN {"accepted"}
    ELSE IF text = Nothing THEN {}
    ELSE CASE what = "prove" -> {"axioms"} \cup (IF text \in Correct THEN {"accepted"} ELSE {})
           [] what = "refute" -> {"axioms"} \cup (IF text \in Correct THEN {} ELSE {"accepted"})
           [] what = "compile" -> IF text.spec # Nothing /\ text.given \in Compiling
                                  THEN {"accepted"} ELSE {}
           [] what = "audit" -> IF /\ text.given # Nothing /\ text.spec # Nothing
                                   /\ text.given.spec = text.spec
                                   /\ text.given.proof \in Standing
                                   /\ About[text.given.proof] = text.spec
                                THEN {"accepted"} ELSE {}
           [] OTHER -> {"accepted"}

LeanEnds(c) ==
    LET t == tool[c]  d == Dir(c) IN
    /\ t.lean = "working"
    /\ \E r \in Says(t.what, t.text) :
         /\ tool' = [tool EXCEPT ![c].lean = "gone", ![c].result = r]
         /\ files' =
              CASE r = "accepted" /\ files[d].made /\ t.what = "state" ->
                       [files EXCEPT ![d].specO = t.text]
                [] r = "accepted" /\ files[d].made /\ t.what = "compile" ->
                       [files EXCEPT ![d].givenO = [proof |-> t.text.given, spec |-> t.text.spec]]
                [] OTHER -> files
    /\ UNCHANGED <<job, at, verdict, faults, shared>>

LakeEnds(c) ==
    /\ tool[c].lake /\ tool[c].lean = "gone"
    /\ tool' = [tool EXCEPT ![c].lake = FALSE]
    /\ UNCHANGED <<job, at, files, verdict, faults, shared>>

(* Mutant of Limit: no limit. *)
LimitNever(c) == FALSE /\ UNCHANGED vars
(* The time limit: lake is killed and waited for. *)
Limit(c) ==
    /\ at[c] = "waiting" /\ tool[c].lake
    /\ tool' = [tool EXCEPT ![c].lake = FALSE, ![c].limit = TRUE]
    /\ UNCHANGED <<job, at, files, verdict, faults, shared>>

-----------------------------------------------------------------------------
(* Mutant of Returned: the output is not read to its end. *)
ReturnedAtOnce(c) == at[c] = "waiting" /\ ~tool[c].lake
(* run_lean returns when lake has ended and its output is at an end, which is  *)
(* when nobody holds the other end of the pipes any more.                      *)
Returned(c) == at[c] = "waiting" /\ ~tool[c].lake /\ tool[c].lean = "gone"

Clean(c) == tool[c].result \in {"accepted", "axioms"} /\ ~tool[c].limit
(* Mutant of Accepted: the axioms are not looked at. *)
AcceptedByAnyAxioms(c) == Clean(c)
Accepted(c) == Clean(c) /\ tool[c].result = "accepted"

(* Neither a proof nor a counterexample: a kernel without a proof attempt is   *)
(* outside the class, any other unknown.                                       *)
Neither(c) == IF job[c].kernel \in Shaped THEN "unknown" ELSE "unsupported"
ToSearch(c) ==
    IF job[c].search THEN Goes(c, "search") /\ UNCHANGED <<verdict, files>>
    ELSE Finish(c, Neither(c), TRUE)

AfterBuild(c) ==
    /\ Returned(c) /\ tool[c].what = "build"
    /\ CASE ~Clean(c) -> Finish(c, "error", TRUE)
         [] Clean(c) /\ Supplied(c) -> Goes(c, "library") /\ UNCHANGED <<verdict, files>>
         [] Clean(c) /\ ~Supplied(c) /\ job[c].kernel \in Shaped ->
                Goes(c, "proof") /\ UNCHANGED <<verdict, files>>
         [] OTHER -> ToSearch(c)

AfterProof(c) ==
    /\ Returned(c) /\ tool[c].what = "prove"
    /\ IF Accepted(c) THEN Finish(c, "proved", TRUE) ELSE ToSearch(c)

SearchKernel(c) ==
    /\ at[c] = "search"
    /\ IF job[c].kernel \in Found THEN Goes(c, "refutation") /\ UNCHANGED <<verdict, files>>
       ELSE Finish(c, Neither(c), TRUE)

AfterRefutation(c) ==
    /\ Returned(c) /\ tool[c].what = "refute"
    /\ Finish(c, IF Accepted(c) THEN "refuted" ELSE Neither(c), TRUE)

AfterLibrary(c) ==
    /\ Returned(c) /\ tool[c].what = "library"
    /\ IF Clean(c) THEN Goes(c, "manifest") /\ UNCHANGED <<verdict, files>>
       ELSE Finish(c, "error", TRUE)

AfterStatement(c) ==
    /\ Returned(c) /\ tool[c].what = "state"
    /\ IF Clean(c) THEN Goes(c, "compile") /\ UNCHANGED <<verdict, files>>
       ELSE Finish(c, "error", TRUE)

(* Only whether the compiled proof is there counts. *)
AfterCompile(c) ==
    /\ Returned(c) /\ tool[c].what = "compile"
    /\ IF Here(c).givenO # Nothing THEN Goes(c, "audit") /\ UNCHANGED <<verdict, files>>
       ELSE Finish(c, "unknown", TRUE)

(* The checker's line counts, also of a run that was stopped after it.         *)
AfterAudit(c) ==
    /\ Returned(c) /\ tool[c].what = "audit"
    /\ Finish(c, IF tool[c].result = "accepted" THEN "proved" ELSE "unknown", TRUE)

Decide(c) ==
    /\ \/ AfterBuild(c) \/ AfterProof(c) \/ SearchKernel(c) \/ AfterRefutation(c)
       \/ AfterLibrary(c) \/ AfterStatement(c) \/ AfterCompile(c) \/ AfterAudit(c)
    /\ UNCHANGED <<job, tool, faults, shared>>

(* The check is killed: its lake and its Lean go on. *)
Kill(c) ==
    /\ at[c] \notin Over /\ Fault /\ Goes(c, "dead")
    /\ UNCHANGED <<job, tool, files, verdict, shared>>

Own(c) == \/ Parse(c) \/ MakeDir(c) \/ WriteProof(c) \/ WriteRefutation(c) \/ WriteSpec(c)
          \/ WriteGiven(c) \/ Clear(c) \/ ReadGiven(c) \/ Run(c) \/ Limit(c) \/ Decide(c)
Lean(c) == LeanReads(c) \/ LeanEnds(c)

AllOver == (\A c \in Checkers : at[c] \in Over \ {"idle"} /\ tool[c].lean = "gone") /\ UNCHANGED vars

Next == (\E c \in Checkers : Start(c) \/ Own(c) \/ Lean(c) \/ LakeEnds(c) \/ Kill(c)) \/ AllOver
Spec == Init /\ [][Next]_vars /\ \A c \in Checkers : WF_vars(Own(c)) /\ WF_vars(Lean(c))

-----------------------------------------------------------------------------
Texts == Kernels \cup {Nothing}
Compiled == [proof : Proofs, spec : Kernels]
Dirs == [proof : Texts, refute : Texts, spec : Texts, given : Proofs \cup {Nothing},
         specO : Texts, givenO : Compiled \cup {Nothing}, made : {TRUE}]
Loads == [given : Proofs \cup {Nothing}, spec : Texts]
Audits == [given : Compiled \cup {Nothing}, spec : Texts]
Tools == [what : Runs \cup {"none"}, lake : BOOLEAN, lean : {"gone", "started", "working"},
          text : Texts \cup Loads \cup Audits, result : {"refused", "axioms", "accepted"},
          limit : BOOLEAN]
Stages == Over \cup Runs \cup {"parse", "dir", "proof", "refutation", "search", "manifest",
                               "spec", "given", "clear", "waiting"}
Verdicts == {"none", "proved", "refuted", "unknown", "unsupported", "error"}

(* TypeOK: directories hold the files that mod.rs and supplied.rs name, and a  *)
(* Lean that works has read what its command line names.                       *)
TypeOK ==
    /\ job \in [Checkers -> Jobs] /\ at \in [Checkers -> Stages]
    /\ tool \in [Checkers -> Tools]
    /\ \A c \in Checkers : tool[c].lean = "working" =>
         /\ tool[c].what = "state" => tool[c].text \in Texts
         /\ tool[c].what = "compile" => tool[c].text \in Loads
    /\ files \in [Kept \cup Checkers -> Dirs \cup {NoDir}]
    /\ verdict \in [Checkers -> [is : Verdicts, tidy : BOOLEAN]]
    /\ faults \in 0 .. MaxFaults /\ shared \subseteq Checkers

(* VerdictsAreEarned: "the exit status is 0 only when Lean has checked" the    *)
(* theorem of this kernel (mod.rs:4-9): whatever an earlier check left in a    *)
(* kept directory, and whichever run was stopped, a proved kernel is correct,  *)
(* by the supplied proof if there was one; a refuted one is not; and a kernel  *)
(* that is called unsupported is one. Two checks that use one kept directory   *)
(* at the same time are not promised anything.                                 *)
VerdictsAreEarned ==
    \A c \in Checkers \ shared :
        /\ verdict[c].is = "proved" =>
             /\ job[c].kernel \in Correct
             /\ Supplied(c) => job[c].proof \in Standing
        /\ verdict[c].is = "refuted" => job[c].kernel \notin Correct
        /\ verdict[c].is = "unsupported" =>
             Class[job[c].kernel] = "outside" \/ job[c].kernel \notin Shaped

(* EndsTidy: a check that returns leaves no Lean behind that still uses its    *)
(* directory, and no directory of its own, except after an error before the    *)
(* clean-up (mod.rs:158, the join of the readers; mod.rs:320-324 and 674-678).   *)
EndsTidy ==
    \A c \in Checkers : at[c] = "ended" =>
        /\ tool[c].lean = "gone" /\ ~tool[c].lake
        /\ files[c].made => verdict[c].is = "error" /\ ~verdict[c].tidy

(* ChecksAreSound: both of the above. *)
ChecksAreSound == VerdictsAreEarned /\ EndsTidy

(* CheckEnds: every check that is not killed comes to a verdict, although lake *)
(* may wait for ever, as long as the Lean that lake started ends (mod.rs:150). *)
CheckEnds == \A c \in Checkers : at[c] = "parse" ~> at[c] \in {"ended", "dead"}
=============================================================================
