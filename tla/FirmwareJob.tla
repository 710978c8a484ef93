---------------------------- MODULE FirmwareJob ----------------------------
(***************************************************************************)
(* Verification jobs, crates/e5r-verify/src/job.rs: `e5r check` exports    *)
(* the image of an ELF, compiles the modules of a Lean root one after the  *)
(* other, replays and audits them, and names its inputs in a result.  The  *)
(* root is shared: compiled modules stay there for the next run of any     *)
(* job, and a person edits the sources and rebuilds the ELF at any time.   *)
(* One check runs at a time.                                               *)
(***************************************************************************)
EXTENDS Integers, SequencesExt

CONSTANTS
    Jobs,        \* the jobs of one Lean root
    Order,       \* the modules in the order they are checked, "image" among them
    Versions,    \* contents a file can have
    Escapes,     \* <<module, version>> with a command that bypasses the kernel
    Refused,     \* versions of the ELF that the exporter refuses
    Pinned,      \* versions of the ELF that each job accepts
    MaxEdits,    \* bound: how often files change
    MaxRuns      \* bound: how often a check is started

ASSUME OrderAssumption ==
    /\ Order \in Seq(Range(Order))
    /\ "image" \in Range(Order)
    /\ "elf" \notin Range(Order)
    /\ \A i, k \in DOMAIN Order : Order[i] = Order[k] => i = k

\* Contents are numbered in the order in which they first appear.
ASSUME VersionsAssumption == Versions \subseteq Nat \ {0} /\ 1 \in Versions

ASSUME PinAssumption == Pinned \in [Jobs -> SUBSET Versions]

Modules == Range(Order)

\* The files people write: the sources of the modules, and the ELF.
Inputs == (Modules \ {"image"}) \cup {"elf"}

Absent == 0

\* What a compiled module stands for, or a chain hash names: the version of every
\* module up to it.
Builds == {s \in Seq(Versions \cup {Absent}) : Len(s) <= Len(Order)}

VARIABLES
    disk,        \* the version of every input
    image,       \* the ELF version in the generated image module, or Absent
    oleans,      \* what each compiled module was compiled from, <<>> when missing
    stages,      \* stages.json of every job: the chain each module last compiled with
    run,         \* the running check
    result,      \* the result of the last check
    returned,    \* history: some file went back to an earlier content
    edits, runs  \* counters for the bounds

vars == <<disk, image, oleans, stages, run, result, returned, edits, runs>>

-----------------------------------------------------------------------------
Steps == {"elf", "export", "scan", "before", "hash", "lean", "record", "replay",
          "audit", "after"}

Statuses == {"none", "proved", "failed", "unsupported", "resource_exhausted", "error"}

Idle == [step |-> "idle"]

NoResult == [status |-> "none"]

\* The chains noted in a stages.json: none in one that is missing or cut short.
Chains == [Modules -> Builds]
Nothing == [m \in Modules |-> <<>>]

\* noted: what the check has in memory of its stages.json.
Checks == [step : Steps, job : Jobs, resume : BOOLEAN, elf : Versions \cup {Absent},
           before : [Inputs -> Versions] \cup {<<>>}, chain : Builds, noted : Chains,
           calm : BOOLEAN]

Results ==
    [status : Statuses \ {"proved"}] \cup
    [status : {"proved"}, inputs : [Inputs -> Versions], elf : Versions,
     oleans : [Modules -> Builds], resume : BOOLEAN, calm : BOOLEAN]

\* The module the check is at, once its chain includes it.
Current == Order[Len(run.chain)]

\* What is in the file of a module.
Source(m) == IF m = "image" THEN image ELSE disk[m]

\* The check ends with a status; only a proved one has more to say.
Ends(status) ==
    /\ run' = Idle
    /\ result' = [status |-> status]

Goes(step) ==
    /\ run' = [run EXCEPT !.step = step]
    /\ UNCHANGED result

AfterModule(chain) == IF Len(chain) = Len(Order) THEN "replay" ELSE "hash"

-----------------------------------------------------------------------------
Init ==
    /\ disk = [f \in Inputs |-> 1]
    /\ image = Absent
    /\ oleans = [m \in Modules |-> <<>>]
    /\ stages = [j \in Jobs |-> Nothing]
    /\ run = Idle
    /\ result = NoResult
    /\ returned = FALSE
    /\ edits = 0
    /\ runs = 0

\* An editor, git or a compiler puts another content into a file.
Edit(f, v) ==
    /\ edits < MaxEdits
    /\ v # disk[f]
    /\ disk' = [disk EXCEPT ![f] = v]
    /\ returned' = (returned \/ v < disk[f])
    /\ edits' = edits + 1
    /\ run' = IF run = Idle THEN run ELSE [run EXCEPT !.calm = FALSE]
    /\ UNCHANGED <<image, oleans, stages, result, runs>>

Begin(j, resume) ==
    /\ run = Idle
    /\ runs < MaxRuns
    /\ run' = [step |-> "elf", job |-> j, resume |-> resume, elf |-> Absent,
               before |-> <<>>, chain |-> <<>>, noted |-> Nothing, calm |-> TRUE]
    /\ result' = NoResult
    /\ runs' = runs + 1
    /\ UNCHANGED <<disk, image, oleans, stages, returned, edits>>

\* The ELF must be the one that was reviewed, if the job pins one.
ReadElf ==
    /\ run.step = "elf"
    /\ IF disk["elf"] \notin Pinned[run.job]
       THEN Ends("error")
       ELSE /\ run' = [run EXCEPT !.step = "export", !.elf = disk["elf"]]
            /\ UNCHANGED result
    /\ UNCHANGED <<disk, image, oleans, stages, returned, edits, runs>>

\* Remove the generated image, and write the one of the ELF that was read.
Export ==
    /\ run.step = "export"
    /\ IF run.elf \in Refused
       THEN image' = Absent /\ Ends("unsupported")
       ELSE image' = run.elf /\ Goes("scan")
    /\ UNCHANGED <<disk, oleans, stages, returned, edits, runs>>

\* Look for forbidden commands in every module.
Scan ==
    /\ run.step = "scan"
    /\ IF \E m \in Modules : <<m, Source(m)>> \in Escapes
       THEN Ends("error")
       ELSE Goes("before")
    /\ UNCHANGED <<disk, image, oleans, stages, returned, edits, runs>>

\* The identity of the inputs before the proofs, and what stages.json notes.
Before ==
    /\ run.step = "before"
    /\ run' = [run EXCEPT !.step = "hash", !.before = disk, !.noted = stages[run.job]]
    /\ UNCHANGED <<disk, image, oleans, stages, result, returned, edits, runs>>

\* Faulty variant: what an earlier run compiled is used without being asked to.
SkippedAlways(m, chain) == run.noted[m] = chain /\ oleans[m] # <<>>

\* Faulty variant: only the module's own source decides whether it is compiled.
SkippedByOwnSource(m, chain) ==
    /\ run.resume
    /\ run.noted[m] # <<>>
    /\ Last(run.noted[m]) = Last(chain)
    /\ oleans[m] # <<>>

\* A resumed check uses what was last compiled with the same chain.
Skipped(m, chain) ==
    /\ run.resume
    /\ run.noted[m] = chain
    /\ oleans[m] # <<>>

\* Add the next module to the chain, and see whether it has to be compiled; if so,
\* its note is forgotten.
Hash ==
    /\ run.step = "hash"
    /\ LET m == Order[Len(run.chain) + 1]
           chain == Append(run.chain, Source(m))
       IN  run' = IF Skipped(m, chain)
                  THEN [run EXCEPT !.chain = chain, !.step = AfterModule(chain)]
                  ELSE [run EXCEPT !.chain = chain, !.step = "lean", !.noted[m] = <<>>]
    /\ UNCHANGED <<disk, image, oleans, stages, result, returned, edits, runs>>

\* Lean reads the source and the compiled modules before it, and writes its own.
Lean ==
    /\ run.step = "lean"
    /\ LET imported == IF Len(run.chain) = 1 THEN <<>> ELSE oleans[Order[Len(run.chain) - 1]]
       IN  oleans' = [oleans EXCEPT ![Current] = Append(imported, Source(Current))]
    /\ Goes("record")
    /\ UNCHANGED <<disk, image, stages, returned, edits, runs>>

\* Note the chain, and write all that is noted to stages.json. A write that fails is
\* not noticed: it leaves the file as it was, or cut short.
Record(stored) ==
    /\ run.step = "record"
    /\ run' = [run EXCEPT !.step = AfterModule(run.chain), !.noted[Current] = run.chain]
    /\ stages' = CASE stored = "whole" -> [stages EXCEPT ![run.job] = run'.noted]
                   [] stored = "cut" -> [stages EXCEPT ![run.job] = Nothing]
                   [] stored = "old" -> stages
    /\ UNCHANGED <<disk, image, oleans, result, returned, edits, runs>>

Replay ==
    /\ run.step = "replay"
    /\ Goes("audit")
    /\ UNCHANGED <<disk, image, oleans, stages, returned, edits, runs>>

Audit ==
    /\ run.step = "audit"
    /\ Goes("after")
    /\ UNCHANGED <<disk, image, oleans, stages, returned, edits, runs>>

\* Only a check whose inputs are what they were before says proved.
After ==
    /\ run.step = "after"
    /\ IF disk # run.before
       THEN Ends("error")
       ELSE /\ run' = Idle
            /\ result' = [status |-> "proved", inputs |-> disk, elf |-> run.elf,
                          oleans |-> oleans, resume |-> run.resume, calm |-> run.calm]
    /\ UNCHANGED <<disk, image, oleans, stages, returned, edits, runs>>

\* A tool cannot start, a proof does not check, a theorem or its axioms are wrong.
Refuse(status) ==
    /\ run.step \in {"lean", "replay", "audit"}
    /\ Ends(status)
    /\ UNCHANGED <<disk, image, oleans, stages, returned, edits, runs>>

\* Faulty variant: replaying has no limit.
LimitLeanOnly ==
    /\ run.step \in {"lean", "record", "audit"}
    /\ Ends("resource_exhausted")
    /\ UNCHANGED <<disk, image, oleans, stages, returned, edits, runs>>

\* A tool runs out of its time or its memory and is killed, Lean perhaps when it
\* has just written its module.
Limit ==
    /\ run.step \in {"lean", "record", "replay", "audit"}
    /\ Ends("resource_exhausted")
    /\ UNCHANGED <<disk, image, oleans, stages, returned, edits, runs>>

\* The check is interrupted, perhaps when Lean has written a module that nobody
\* noted yet.  A half written stages.json reads as an empty one.
Kill(torn) ==
    /\ run # Idle
    /\ run' = Idle
    /\ torn => run.step = "record"
    /\ stages' = IF torn THEN [stages EXCEPT ![run.job] = Nothing] ELSE stages
    /\ UNCHANGED <<disk, image, oleans, result, returned, edits, runs>>

\* What the check does by itself, apart from the tools that may hang.
Own ==
    \/ ReadElf \/ Export \/ Scan \/ Before \/ Hash
    \/ \E stored \in {"whole", "cut", "old"} : Record(stored)
    \/ After

Next ==
    \/ \E f \in Inputs, v \in Versions : Edit(f, v)
    \/ \E j \in Jobs, resume \in BOOLEAN : Begin(j, resume)
    \/ Own
    \/ Lean \/ Replay \/ Audit \/ Limit
    \/ \E status \in {"failed", "error"} : Refuse(status)
    \/ \E torn \in BOOLEAN : Kill(torn)

Spec == Init /\ [][Next]_vars

FairSpec == Spec /\ WF_vars(Own) /\ WF_vars(Limit)

-----------------------------------------------------------------------------
(* Properties. *)

\* Every variable keeps its type: a chain is never longer than the modules, and
\* stages.json names chains only (job.rs:702-718).
TypeOK ==
    /\ disk \in [Inputs -> Versions]
    /\ image \in Versions \cup {Absent}
    /\ oleans \in [Modules -> Builds]
    /\ stages \in [Jobs -> Chains]
    /\ run \in {Idle} \cup Checks
    /\ result \in Results

\* What the compiled modules of a result have to be: each from the inputs the
\* result names, on top of the modules before it, the image from the ELF exported.
Exact(r) ==
    \A i \in DOMAIN Order :
        r.oleans[Order[i]] =
            [k \in 1 .. i |-> IF Order[k] = "image" THEN r.elf ELSE r.inputs[Order[k]]]

\* A check without --resume during which nobody touches the root proves what its
\* result names, whatever earlier runs, interrupted or not, of any job have left in
\* the root (job.rs:521-522, 605, 680-681).
FreshIsExact ==
    (result.status = "proved" /\ ~result.resume /\ result.calm) =>
        /\ Exact(result)
        /\ result.elf = result.inputs["elf"]
        /\ \A m \in Modules \ {"image"} : <<m, result.inputs[m]>> \notin Escapes

\* As long as no file goes back to an earlier content, a proved result is about the
\* sources it names, resumed or not, even when files change while the check runs,
\* checks of other jobs come between, and checks are interrupted (job.rs:710-747,
\* 833-836).
ForwardIsExact ==
    (result.status = "proved" /\ ~returned) => Exact(result)

\* Every check ends: each tool that can hang is under the limits (job.rs:219-258).
ChecksEnd == run # Idle ~> run = Idle
=============================================================================
