------------------------------ MODULE PtxProofs ------------------------------
(* Proofs about PtxCheck, for every set of checks, kept directories, kernels   *)
(* and supplied proofs: what a verdict says is so, and what a check leaves;    *)
(* and about PtxBlock, for every kernel and launch: that one schedule of it    *)
(* speaks for all, and that what the search reports can be replayed.           *)
EXTENDS PtxCheck, PtxBlock, TLAPS, FiniteSetTheorems, SequenceTheorems, WellFoundedInduction

(* Where a check is, a Lean run it waits for counting as the stage it is for.  *)
Point(c) == IF at[c] = "waiting" THEN tool[c].what ELSE at[c]
Busy(c) == at[c] \notin Over \cup {"parse", "dir"}
Alone == {"proof", "prove", "search", "refutation", "refute"}
Given == {"library", "manifest", "spec", "given", "clear", "state", "compile", "audit"}
Named == Given \ {"library", "manifest"}

(* The stages for a supplied proof and those without one; from "spec" on, the  *)
(* proof's manifest is known to name this kernel.                              *)
OnRoute(c) ==
    /\ Point(c) \in Alone => ~Supplied(c)
    /\ Point(c) \in Given => Supplied(c)
    /\ Point(c) \in Named => About[job[c].proof] = job[c].kernel

(* What holds of every check, whoever shares its directory.                    *)
Ordered(c) ==
    /\ tool[c].lean # "gone" \/ tool[c].lake => at[c] \in {"waiting", "dead"}
    /\ at[c] = "waiting" => tool[c].what \in Runs
    /\ Busy(c) => OnRoute(c)
    /\ Uses(c) => files[Dir(c)].made
    /\ at[c] \in {"idle", "parse", "dir"} \/ job[c].keep # NoKeep => ~files[c].made
    /\ at[c] = "ended" /\ files[c].made => verdict[c].is = "error" /\ ~verdict[c].tidy
    /\ at[c] # "ended" => verdict[c].is = "none"

(* The files of a check that nobody disturbs are the ones it wrote.            *)
OwnFiles(c) ==
    /\ Point(c) = "prove" => Here(c).proof = job[c].kernel
    /\ Point(c) = "refute" => Here(c).refute = job[c].kernel
    /\ Point(c) \in {"clear", "state", "compile", "audit"} => Here(c).given = job[c].proof
    /\ Point(c) \in {"state", "compile", "audit"} =>
         Here(c).givenO = Nothing \/ Here(c).givenO.proof = job[c].proof

(* Lean has read them, and what it accepted is so.                             *)
OwnText(c) ==
    LET t == tool[c] IN
    /\ t.lean = "working" =>
         /\ t.what \in {"prove", "refute"} => t.text = job[c].kernel
         /\ t.what = "compile" => t.text.given = job[c].proof
         /\ t.what = "audit" => t.text.given = Nothing \/ t.text.given.proof = job[c].proof
    /\ t.result = "accepted" =>
         /\ t.what = "prove" => job[c].kernel \in Correct
         /\ t.what = "refute" => job[c].kernel \notin Correct
         /\ t.what = "audit" => job[c].proof \in Standing

(* What VerdictsAreEarned says of one check.                                   *)
EarnedVerdict(c) ==
    /\ verdict[c].is = "proved" =>
         /\ job[c].kernel \in Correct
         /\ Supplied(c) => job[c].proof \in Standing
    /\ verdict[c].is = "refuted" => job[c].kernel \notin Correct
    /\ verdict[c].is = "unsupported" =>
         Class[job[c].kernel] = "outside" \/ job[c].kernel \notin Shaped

Earning(c) ==
    /\ Busy(c) => OwnFiles(c)
    /\ at[c] = "waiting" => OwnText(c)
    /\ EarnedVerdict(c)

(* A directory that two checks use has disturbed both.                         *)
Exclusive ==
    \A c, o \in Checkers :
        c # o /\ c \notin shared /\ Uses(c) /\ Uses(o) => Dir(c) # Dir(o)

Inv ==
    /\ TypeOK
    /\ \A c \in Checkers : Ordered(c)
    /\ Exclusive
    /\ \A c \in Checkers \ shared : Earning(c)

(* What a step of c does to the others: it stays in its directory, which it    *)
(* uses, or takes now, and does not take it away from them.                    *)
Stays(c) ==
    /\ job' = job /\ shared \subseteq shared'
    /\ \A o \in Checkers \ {c} : at'[o] = at[o] /\ tool'[o] = tool[o] /\ verdict'[o] = verdict[o]
    /\ \A d \in (Kept \cup Checkers) \ {Dir(c)} : files'[d] = files[d]
    /\ files[Dir(c)].made => files'[Dir(c)].made \/ job[c].keep = NoKeep
    /\ files' # files => Uses(c) \/ MakeDir(c)
    /\ Uses(c)' => Uses(c) \/ MakeDir(c)

(* What a step of c must establish.                                            *)
Done(c) ==
    /\ TypeOK' /\ Stays(c) /\ Ordered(c)'
    /\ c \notin shared' => Earning(c)'

-----------------------------------------------------------------------------
LEMMA Directories ==
    ASSUME TypeOK, NEW c \in Checkers
    PROVE  /\ Dir(c) \in Kept \cup Checkers
           /\ job[c].keep = NoKeep => Dir(c) = c
           /\ job[c].keep # NoKeep => Dir(c) \in Kept
           /\ job[c].kernel \in Kernels /\ job[c].proof \in Proofs \cup {NoProof}
           /\ \A o \in Checkers \ {c} :
                  /\ Dir(c) # o
                  /\ Dir(o) = Dir(c) => job[c].keep # NoKeep /\ job[o].keep # NoKeep
<1>1. \A o \in Checkers : job[o] \in [kernel : Kernels, proof : Proofs \cup {NoProof},
                                      keep : Kept \cup {NoKeep}, search : BOOLEAN]
  BY JobsAssumption DEF TypeOK
<1>2. Kept \cap Checkers = {}
  BY JobsAssumption
<1>3. \A o \in Checkers : /\ job[o].keep = NoKeep => Dir(o) = o
                          /\ job[o].keep # NoKeep => Dir(o) \in Kept
  BY <1>1 DEF Dir
<1> QED BY <1>1, <1>2, <1>3

LEMMA Values ==
    /\ Nothing \notin Kernels /\ Nothing \notin Proofs /\ NoProof \notin Proofs
    /\ ~NoDir.made /\ Empty.made /\ Empty \in Dirs
    /\ \A x \in Dirs : x.made
    /\ NoTool \in Tools /\ NoVerdict \in [is : Verdicts, tidy : BOOLEAN]
    /\ Standing \subseteq Proofs /\ Compiling \subseteq Proofs
    /\ \A p \in Standing : About[p] \in Correct
    /\ MaxFaults \in Nat
<1>1. Nothing \in Texts
  BY DEF Texts
<1>2. Empty \in Dirs
  BY <1>1 DEF Empty, Dirs
<1>3. NoTool \in Tools
  BY <1>1 DEF NoTool, Tools
<1>4. NoVerdict \in [is : Verdicts, tidy : BOOLEAN]
  BY DEF NoVerdict, Verdicts
<1> QED BY <1>2, <1>3, <1>4, KernelsAssumption DEF NoDir, Empty, Dirs

LEMMA InitInv == Init => Inv
<1> SUFFICES ASSUME Init PROVE Inv
  OBVIOUS
<1>1. \A c \in Checkers : /\ at[c] = "idle" /\ tool[c] = NoTool /\ verdict[c] = NoVerdict
                          /\ files[c] = NoDir
  BY DEF Init
<1>2. TypeOK
  <2>1. at \in [Checkers -> Stages] /\ tool \in [Checkers -> Tools]
    BY Values DEF Init, Stages, Over
  <2>2. verdict \in [Checkers -> [is : Verdicts, tidy : BOOLEAN]]
    BY Values DEF Init
  <2>3. \A c \in Checkers : tool[c].lean = "gone"
    BY <1>1 DEF NoTool
  <2>4. files \in [Kept \cup Checkers -> Dirs \cup {NoDir}]
    BY DEF Init
  <2>5. faults \in 0 .. MaxFaults /\ shared \subseteq Checkers /\ job \in [Checkers -> Jobs]
    BY Values DEF Init
  <2> QED BY <2>1, <2>2, <2>3, <2>4, <2>5 DEF TypeOK
<1>3. \A c \in Checkers : ~Uses(c) /\ ~Busy(c)
  BY <1>1 DEF Uses, Busy, Over, NoTool
<1>4. \A c \in Checkers : Ordered(c)
  BY <1>1, <1>3, Values DEF Ordered, NoTool, NoVerdict
<1>5. \A c \in Checkers : Earning(c)
  BY <1>1, <1>3 DEF Earning, EarnedVerdict, NoVerdict
<1> QED BY <1>2, <1>3, <1>4, <1>5 DEF Inv, Exclusive

-----------------------------------------------------------------------------
(* A step of one check leaves the others as they are.                          *)

LEMMA OthersOrdered ==
    ASSUME Inv, NEW c \in Checkers, Stays(c), NEW o \in Checkers, o # c
    PROVE  Ordered(o)'
<1>1. /\ at'[o] = at[o] /\ tool'[o] = tool[o] /\ verdict'[o] = verdict[o] /\ job' = job
  BY DEF Stays
<1>2. files'[o] = files[o]
  BY Directories DEF Stays, Inv
<1>3. files[Dir(o)].made => files'[Dir(o)].made
  BY Directories DEF Stays, Inv
<1>4. Uses(o)' <=> Uses(o)
  BY <1>1 DEF Uses
<1>5. Dir(o)' = Dir(o)
  BY <1>1 DEF Dir
<1>6. (Busy(o)' <=> Busy(o)) /\ (OnRoute(o)' <=> OnRoute(o))
  BY <1>1 DEF Busy, OnRoute, Point, Supplied
<1>7. Ordered(o)
  BY DEF Inv
<1> QED BY <1>1, <1>2, <1>3, <1>4, <1>5, <1>6, <1>7 DEF Ordered

LEMMA StepExclusive ==
    ASSUME Inv, NEW c \in Checkers, Stays(c),
           MakeDir(c) => \A o \in Checkers \ {c} :
               Uses(o) /\ Dir(o) = Dir(c) => o \in shared' /\ c \in shared'
    PROVE  Exclusive'
<1> SUFFICES ASSUME NEW a \in Checkers, NEW b \in Checkers, a # b, a \notin shared',
                    Uses(a)', Uses(b)'
             PROVE  Dir(a) # Dir(b)
  BY DEF Exclusive, Dir, Stays
<1>1. \A o \in Checkers \ {c} : Uses(o)' <=> Uses(o)
  BY DEF Uses, Stays
<1>2. a \notin shared
  BY DEF Stays
<1>3. CASE Uses(a) /\ Uses(b)
  BY <1>2, <1>3 DEF Inv, Exclusive
<1>4. CASE ~(Uses(a) /\ Uses(b))
  <2>1. MakeDir(c) /\ (a = c \/ b = c)
    BY <1>1, <1>4 DEF Stays
  <2>2. CASE a = c
    BY <2>1, <2>2, <1>1
  <2>3. CASE b = c
    BY <2>1, <2>3, <1>1
  <2> QED BY <2>1, <2>2, <2>3
<1> QED BY <1>3, <1>4

LEMMA OthersEarning ==
    ASSUME Inv, NEW c \in Checkers, Stays(c),
           MakeDir(c) => \A o \in Checkers \ {c} :
               Uses(o) /\ Dir(o) = Dir(c) => o \in shared' /\ c \in shared',
           NEW o \in Checkers, o # c, o \notin shared'
    PROVE  Earning(o)'
<1>1. /\ at'[o] = at[o] /\ tool'[o] = tool[o] /\ verdict'[o] = verdict[o] /\ job' = job
      /\ o \notin shared
  BY DEF Stays
<1>2. Earning(o)
  BY <1>1 DEF Inv
<1>3. Busy(o) => Uses(o)
  BY DEF Busy, Uses
<1>4. Busy(o) => files'[Dir(o)] = files[Dir(o)]
  <2> SUFFICES ASSUME Busy(o), files'[Dir(o)] # files[Dir(o)] PROVE FALSE
    OBVIOUS
  <2>1. Dir(o) = Dir(c)
    BY Directories DEF Stays, Inv
  <2>2. Uses(c) \/ MakeDir(c)
    BY DEF Stays
  <2>3. ~Uses(c)
    BY <1>1, <1>3, <2>1 DEF Inv, Exclusive
  <2> QED BY <2>1, <2>2, <2>3, <1>3
<1>5. EarnedVerdict(o)'
  BY <1>1, <1>2 DEF Earning, EarnedVerdict, Supplied
<1>6. at'[o] = "waiting" => OwnText(o)'
  BY <1>1, <1>2 DEF Earning, OwnText
<1>7. Busy(o)' => OwnFiles(o)'
  <2> SUFFICES ASSUME Busy(o) PROVE OwnFiles(o)'
    BY <1>1 DEF Busy
  <2>1. Here(o)' = Here(o) /\ Point(o)' = Point(o) /\ (Supplied(o)' <=> Supplied(o))
    BY <1>1, <1>4 DEF Here, Dir, Point, Supplied
  <2> QED BY <1>1, <1>2, <2>1 DEF Earning, OwnFiles
<1> QED BY <1>5, <1>6, <1>7 DEF Earning

LEMMA StepInv ==
    ASSUME Inv, NEW c \in Checkers, Done(c),
           MakeDir(c) => \A o \in Checkers \ {c} :
               Uses(o) /\ Dir(o) = Dir(c) => o \in shared' /\ c \in shared'
    PROVE  Inv'
<1>1. Stays(c) /\ TypeOK' /\ Ordered(c)'
  BY DEF Done
<1>2. \A o \in Checkers : Ordered(o)'
  BY <1>1, OthersOrdered
<1>3. \A o \in Checkers \ shared' : Earning(o)'
  BY <1>1, OthersEarning DEF Done
<1> QED BY <1>1, <1>2, <1>3, StepExclusive DEF Inv

-----------------------------------------------------------------------------
(* The shapes of a check's steps.                                              *)

(* A step to another stage that leaves files and tool alone.                   *)
LEMMA MoveStep ==
    ASSUME Inv, NEW c \in Checkers, NEW stage \in Stages \ (Over \cup {"parse", "dir", "waiting"}),
           Goes(c, stage), UNCHANGED <<job, tool, files, verdict, shared>>,
           faults' \in 0 .. MaxFaults, Busy(c),
           tool[c].lean = "gone" /\ ~tool[c].lake, OnRoute(c)',
           c \notin shared => (OwnFiles(c) => OwnFiles(c)')
    PROVE  Done(c)
<1>1. at'[c] = stage /\ \A o \in Checkers \ {c} : at'[o] = at[o]
  BY DEF Goes, Inv, TypeOK
<1>2. at' \in [Checkers -> Stages]
  BY DEF Goes, Inv, TypeOK
<1>3. TypeOK'
  BY <1>2 DEF Inv, TypeOK
<1>5. Uses(c) /\ at[c] \notin {"ended", "idle", "parse", "dir"}
  BY DEF Busy, Uses, Over
<1>6. Stays(c)
  BY <1>1, <1>5 DEF Stays
<1>7. Ordered(c)'
  <2>1. Ordered(c)
    BY DEF Inv
  <2>2. Dir(c)' = Dir(c)
    BY DEF Dir
  <2>3. stage \notin {"idle", "parse", "dir", "ended", "waiting"}
    BY DEF Over
  <2> QED BY <1>1, <1>5, <2>1, <2>2, <2>3 DEF Ordered
<1>8. c \notin shared' => Earning(c)'
  <2> SUFFICES ASSUME c \notin shared PROVE Earning(c)'
    OBVIOUS
  <2>1. OwnFiles(c)' /\ EarnedVerdict(c)
    BY DEF Inv, Earning
  <2>2. EarnedVerdict(c)'
    BY <2>1 DEF EarnedVerdict, Supplied
  <2> QED BY <1>1, <2>1, <2>2 DEF Earning
<1> QED BY <1>3, <1>6, <1>7, <1>8 DEF Done

(* A verdict.                                                                  *)
LEMMA FinishStep ==
    ASSUME Inv, NEW c \in Checkers, NEW v \in Verdicts, NEW tidies \in BOOLEAN,
           Finish(c, v, tidies), UNCHANGED <<job, tool, shared>>, faults' \in 0 .. MaxFaults,
           at[c] \notin Over,
           tool[c].lean = "gone" /\ ~tool[c].lake,
           tidies \/ v = "error" \/ at[c] = "parse",
           tidies => Busy(c),
           c \notin shared =>
               /\ v = "proved" => job[c].kernel \in Correct
                                  /\ (Supplied(c) => job[c].proof \in Standing)
               /\ v = "refuted" => job[c].kernel \notin Correct
               /\ v = "unsupported" => Class[job[c].kernel] = "outside"
                                       \/ job[c].kernel \notin Shaped
    PROVE  Done(c)
<1>1. /\ at' = [at EXCEPT ![c] = "ended"]
      /\ verdict' = [verdict EXCEPT ![c] = [is |-> v, tidy |-> tidies]]
      /\ files' = IF tidies /\ job[c].keep = NoKeep THEN [files EXCEPT ![c] = NoDir] ELSE files
  BY DEF Finish, Goes
<1>2. /\ at'[c] = "ended" /\ verdict'[c] = [is |-> v, tidy |-> tidies]
      /\ \A o \in Checkers \ {c} : at'[o] = at[o] /\ verdict'[o] = verdict[o]
  BY <1>1 DEF Inv, TypeOK
<1>3. /\ tidies /\ job[c].keep = NoKeep => files'[c] = NoDir
      /\ ~(tidies /\ job[c].keep = NoKeep) => files' = files
      /\ \A d \in (Kept \cup Checkers) \ {c} : files'[d] = files[d]
  BY <1>1 DEF Inv, TypeOK
<1>4. TypeOK'
  <2>1. at' \in [Checkers -> Stages]
    BY <1>1 DEF Inv, TypeOK, Stages, Over
  <2>2. verdict' \in [Checkers -> [is : Verdicts, tidy : BOOLEAN]]
    BY <1>1 DEF Inv, TypeOK
  <2>3. files' \in [Kept \cup Checkers -> Dirs \cup {NoDir}]
    BY <1>1 DEF Inv, TypeOK
  <2> QED BY <2>1, <2>2, <2>3 DEF Inv, TypeOK
<1>5. ~Uses(c)' /\ ~Busy(c)'
  BY <1>2 DEF Uses, Busy, Over
<1>6. Busy(c) => Uses(c)
  BY DEF Busy, Uses
<1>7. Stays(c)
  <2>1. \A d \in (Kept \cup Checkers) \ {Dir(c)} : files'[d] = files[d]
    BY <1>3, Directories DEF Inv
  <2>2. files[Dir(c)].made => files'[Dir(c)].made \/ job[c].keep = NoKeep
    BY <1>3
  <2> QED BY <1>2, <1>3, <1>5, <1>6, <2>1, <2>2 DEF Stays
<1>8. Ordered(c)'
  <2>1. Ordered(c)
    BY DEF Inv
  <2>2. files'[c].made => files[c].made /\ ~(tidies /\ job[c].keep = NoKeep)
    BY <1>3, Values
  <2>3. files'[c].made => v = "error" /\ ~tidies
    BY <2>1, <2>2 DEF Ordered
  <2> QED BY <1>2, <1>5, <2>1, <2>2, <2>3 DEF Ordered
<1>9. c \notin shared' => Earning(c)'
  BY <1>2, <1>5 DEF Earning, EarnedVerdict, Supplied
<1> QED BY <1>4, <1>7, <1>8, <1>9 DEF Done

(* A step of a check that uses its directory changes one of the files in it,   *)
(* or none, and its stage or its tool.                                         *)
LEMMA FileStep ==
    ASSUME Inv, NEW c \in Checkers, Uses(c), NEW here \in Dirs,
           files' = [files EXCEPT ![Dir(c)] = here],
           UNCHANGED <<job, verdict, shared>>, faults' \in 0 .. MaxFaults,
           at' \in [Checkers -> Stages], tool' \in [Checkers -> Tools],
           \A o \in Checkers \ {c} : at'[o] = at[o] /\ tool'[o] = tool[o],
           at[c] # "ended", at'[c] \notin {"ended", "idle", "parse", "dir"},
           tool'[c].lean # "gone" \/ tool'[c].lake => at'[c] \in {"waiting", "dead"},
           at'[c] = "waiting" => tool'[c].what \in Runs, Busy(c)' => OnRoute(c)',
           tool'[c].lean = "working" =>
               /\ tool'[c].what = "state" => tool'[c].text \in Texts
               /\ tool'[c].what = "compile" => tool'[c].text \in Loads,
           c \notin shared => (Busy(c)' => OwnFiles(c)') /\ (at'[c] = "waiting" => OwnText(c)')
    PROVE  Done(c)
<1>1. Dir(c) \in Kept \cup Checkers /\ (job[c].keep # NoKeep => Dir(c) \in Kept)
  BY Directories DEF Inv
<1>2. /\ files'[Dir(c)] = here
      /\ \A d \in (Kept \cup Checkers) \ {Dir(c)} : files'[d] = files[d]
      /\ files' \in [Kept \cup Checkers -> Dirs \cup {NoDir}]
  BY <1>1 DEF Inv, TypeOK
<1>3. here.made
  BY Values
<1>4. TypeOK'
  BY <1>2 DEF Inv, TypeOK
<1>5. Stays(c)
  BY <1>2, <1>3 DEF Stays
<1>6. Ordered(c)'
  <2>1. Ordered(c)
    BY DEF Inv
  <2>2. Dir(c)' = Dir(c)
    BY DEF Dir
  <2>3. job[c].keep # NoKeep => files'[c] = files[c]
    BY <1>1, <1>2, JobsAssumption
  <2> QED BY <1>2, <1>3, <2>1, <2>2, <2>3 DEF Ordered
<1>7. c \notin shared' => Earning(c)'
  <2> SUFFICES ASSUME c \notin shared PROVE Earning(c)'
    OBVIOUS
  <2>1. EarnedVerdict(c)
    BY DEF Inv, Earning
  <2>2. EarnedVerdict(c)'
    BY <2>1 DEF EarnedVerdict, Supplied
  <2> QED BY <2>2 DEF Earning
<1> QED BY <1>4, <1>5, <1>6, <1>7 DEF Done
-----------------------------------------------------------------------------
(* The steps.                                                                  *)

LEMMA Quiet ==
    ASSUME Inv, NEW c \in Checkers, at[c] \notin {"waiting", "dead"}
    PROVE  tool[c].lean = "gone" /\ ~tool[c].lake
<1>1. Ordered(c)
  BY DEF Inv
<1>2. tool[c] \in Tools
  BY DEF Inv, TypeOK
<1> QED BY <1>1, <1>2 DEF Ordered, Tools

LEMMA FaultBounded == TypeOK /\ (Fault \/ UNCHANGED faults) => faults' \in 0 .. MaxFaults
BY Values DEF TypeOK, Fault

(* A directory that is used is there.                                          *)
LEMMA HereIsDir ==
    ASSUME Inv, NEW c \in Checkers, Uses(c)
    PROVE  Here(c) \in Dirs /\ files[Dir(c)] = Here(c) /\ files = [files EXCEPT ![Dir(c)] = Here(c)]
<1>1. Ordered(c)
  BY DEF Inv
<1>2. Dir(c) \in Kept \cup Checkers
  BY Directories DEF Inv
<1> QED BY <1>1, <1>2, Values DEF Ordered, Here, Inv, TypeOK

LEMMA StartStep ==
    ASSUME Inv, NEW c \in Checkers, Start(c)
    PROVE  Done(c)
<1>1. /\ at[c] = "idle" /\ at' = [at EXCEPT ![c] = "parse"]
      /\ UNCHANGED <<job, tool, files, verdict, faults, shared>>
  BY DEF Start, Goes
<1>2. at'[c] = "parse" /\ \A o \in Checkers \ {c} : at'[o] = at[o]
  BY <1>1 DEF Inv, TypeOK
<1>3. at' \in [Checkers -> Stages]
  BY <1>1 DEF Inv, TypeOK, Stages
<1>4. TypeOK'
  BY <1>1, <1>3 DEF Inv, TypeOK
<1>5. tool[c].lean = "gone" /\ ~tool[c].lake
  BY <1>1, Quiet
<1>6. ~Uses(c)' /\ ~Busy(c)'
  BY <1>1, <1>2, <1>5 DEF Uses, Busy
<1>7. Stays(c)
  BY <1>1, <1>2, <1>6 DEF Stays
<1>8. Ordered(c)'
  <2>1. Ordered(c)
    BY DEF Inv
  <2> QED BY <1>1, <1>2, <1>5, <1>6, <2>1 DEF Ordered
<1>9. c \notin shared' => Earning(c)'
  <2> SUFFICES ASSUME c \notin shared PROVE Earning(c)'
    BY <1>1
  <2>1. EarnedVerdict(c)
    BY DEF Inv, Earning
  <2> QED BY <1>1, <1>2, <1>6, <2>1 DEF Earning, EarnedVerdict, Supplied
<1> QED BY <1>4, <1>7, <1>8, <1>9 DEF Done

LEMMA ParseStep ==
    ASSUME Inv, NEW c \in Checkers, Parse(c)
    PROVE  Done(c)
<1> DEFINE class == Class[job[c].kernel]
<1>1. at[c] = "parse" /\ UNCHANGED <<job, tool, faults, shared>>
  BY DEF Parse
<1>2. tool[c].lean = "gone" /\ ~tool[c].lake
  BY <1>1, Quiet
<1>3. faults' \in 0 .. MaxFaults
  BY <1>1 DEF Inv, TypeOK
<1>4. \/ class = "outside" /\ Finish(c, "unsupported", FALSE)
      \/ Finish(c, "error", FALSE)
      \/ Goes(c, "dir") /\ UNCHANGED <<verdict, files>>
  BY DEF Parse
<1>5. CASE class = "outside" /\ Finish(c, "unsupported", FALSE)
  BY <1>1, <1>2, <1>3, <1>5, FinishStep DEF Verdicts, Over
<1>6. CASE Finish(c, "error", FALSE)
  BY <1>1, <1>2, <1>3, <1>6, FinishStep DEF Verdicts, Over
<1>7. CASE Goes(c, "dir") /\ UNCHANGED <<verdict, files>>
  <2>1. at' = [at EXCEPT ![c] = "dir"]
    BY <1>7 DEF Goes
  <2>2. at'[c] = "dir" /\ \A o \in Checkers \ {c} : at'[o] = at[o]
    BY <2>1 DEF Inv, TypeOK
  <2>3. at' \in [Checkers -> Stages]
    BY <2>1 DEF Inv, TypeOK, Stages
  <2>4. TypeOK'
    BY <1>1, <1>7, <2>3 DEF Inv, TypeOK
  <2>5. ~Uses(c)' /\ ~Busy(c)'
    BY <1>1, <1>2, <2>2 DEF Uses, Busy
  <2>6. Stays(c)
    BY <1>1, <1>7, <2>2, <2>5 DEF Stays
  <2>7. Ordered(c)'
    <3>1. Ordered(c)
      BY DEF Inv
    <3> QED BY <1>1, <1>2, <1>7, <2>2, <2>5, <3>1 DEF Ordered
  <2>8. c \notin shared' => Earning(c)'
    <3> SUFFICES ASSUME c \notin shared PROVE Earning(c)'
      BY <1>1
    <3>1. EarnedVerdict(c)
      BY DEF Inv, Earning
    <3> QED BY <1>1, <1>7, <2>2, <2>5, <3>1 DEF Earning, EarnedVerdict, Supplied
  <2> QED BY <2>4, <2>6, <2>7, <2>8 DEF Done
<1> QED BY <1>4, <1>5, <1>6, <1>7

(* The directory is made; whoever else uses it, and this check, are disturbed. *)
LEMMA MakeDirStep ==
    ASSUME Inv, NEW c \in Checkers, MakeDir(c)
    PROVE  Inv'
<1> DEFINE others == {o \in Checkers \ {c} : Uses(o) /\ Dir(o) = Dir(c)}
           d == Dir(c)
           here == IF files[d].made THEN files[d] ELSE Empty
<1>1. /\ at[c] = "dir" /\ UNCHANGED <<job, tool>>
      /\ files' = [files EXCEPT ![d] = here]
      /\ shared' = shared \cup others \cup IF others = {} THEN {} ELSE {c}
  BY DEF MakeDir
<1>2. /\ d \in Kept \cup Checkers
      /\ job[c].keep # NoKeep => d \in Kept
  BY Directories DEF Inv
<1>3. here \in Dirs /\ here.made
  <2>1. files[d] \in Dirs \cup {NoDir}
    BY <1>2 DEF Inv, TypeOK
  <2> QED BY <2>1, Values
<1>4. /\ files'[d] = here
      /\ \A e \in (Kept \cup Checkers) \ {d} : files'[e] = files[e]
      /\ files' \in [Kept \cup Checkers -> Dirs \cup {NoDir}]
  BY <1>1, <1>2, <1>3 DEF Inv, TypeOK
<1>5. tool[c].lean = "gone" /\ ~tool[c].lake
  BY <1>1, Quiet
<1>6. \/ /\ at' = [at EXCEPT ![c] = "library"] \/ at' = [at EXCEPT ![c] = "build"]
         /\ at'[c] = "library" => Supplied(c)
         /\ UNCHANGED <<verdict, faults>>
      \/ /\ Fault /\ at' = [at EXCEPT ![c] = "ended"]
         /\ verdict' = [verdict EXCEPT ![c] = [is |-> "error", tidy |-> FALSE]]
  BY DEF MakeDir, Goes, Inv, TypeOK
<1>7. \A o \in Checkers \ {c} : at'[o] = at[o] /\ verdict'[o] = verdict[o]
  BY <1>6 DEF Inv, TypeOK
<1>8. \/ /\ at'[c] \in {"library", "build"} /\ verdict' = verdict
         /\ at'[c] = "library" => Supplied(c)
      \/ at'[c] = "ended" /\ verdict'[c] = [is |-> "error", tidy |-> FALSE]
  BY <1>6 DEF Inv, TypeOK
<1>9. TypeOK'
  <2>1. at' \in [Checkers -> Stages]
    BY <1>6 DEF Inv, TypeOK, Stages, Runs, Over
  <2>2. verdict' \in [Checkers -> [is : Verdicts, tidy : BOOLEAN]]
    <3>1. [is |-> "error", tidy |-> FALSE] \in [is : Verdicts, tidy : BOOLEAN]
      BY DEF Verdicts
    <3>2. verdict \in [Checkers -> [is : Verdicts, tidy : BOOLEAN]]
      BY DEF Inv, TypeOK
    <3> QED BY <1>6, <3>1, <3>2
  <2>3. faults' \in 0 .. MaxFaults
    BY <1>6, FaultBounded DEF Inv
  <2>4. shared' \subseteq Checkers
    BY <1>1 DEF Inv, TypeOK
  <2> QED BY <1>1, <1>4, <2>1, <2>2, <2>3, <2>4 DEF Inv, TypeOK
<1>10. Stays(c)
  <2>1. shared \subseteq shared'
    BY <1>1
  <2> QED BY <1>1, <1>3, <1>4, <1>7, <2>1 DEF Stays
<1>11. Ordered(c)'
  <2>1. Ordered(c)
    BY DEF Inv
  <2>2. Dir(c)' = Dir(c)
    BY <1>1 DEF Dir
  <2>3. job[c].keep # NoKeep => files'[c] = files[c]
    BY <1>2, <1>4, JobsAssumption
  <2>4. Busy(c)' => OnRoute(c)'
    <3>1. Point(c)' = at'[c]
      BY <1>8 DEF Point
    <3>2. at'[c] = "ended" => ~Busy(c)'
      BY DEF Busy, Over
    <3> QED BY <1>1, <1>8, <3>1, <3>2 DEF OnRoute, Supplied, Alone, Given, Named
  <2> QED BY <1>1, <1>3, <1>4, <1>5, <1>8, <2>1, <2>2, <2>3, <2>4 DEF Ordered
<1>12. c \notin shared' => Earning(c)'
  <2> SUFFICES ASSUME c \notin shared PROVE Earning(c)'
    BY <1>1
  <2>1. EarnedVerdict(c)
    BY DEF Inv, Earning
  <2>2. EarnedVerdict(c)'
    BY <1>1, <1>8, <2>1 DEF EarnedVerdict, Supplied
  <2>3. at'[c] # "waiting" /\ Point(c)' \in {"library", "build", "ended"}
    BY <1>8 DEF Point
  <2>4. OwnFiles(c)'
    BY <2>3 DEF OwnFiles
  <2> QED BY <2>2, <2>3, <2>4 DEF Earning
<1>13. \A o \in Checkers \ {c} : Uses(o) /\ Dir(o) = Dir(c) => o \in shared' /\ c \in shared'
  BY <1>1
<1>14. Done(c)
  BY <1>9, <1>10, <1>11, <1>12 DEF Done
<1> QED BY <1>13, <1>14, StepInv

(* One file of the check is written, with what comes next.                     *)
LEMMA WriteStep ==
    ASSUME Inv, NEW c \in Checkers,
           WriteProof(c) \/ WriteRefutation(c) \/ WriteSpec(c) \/ WriteGiven(c)
    PROVE  Done(c)
<1> DEFINE stage == at[c]
<1>1. /\ at[c] \in {"proof", "refutation", "spec", "given"}
      /\ UNCHANGED <<job, tool, shared>>
  BY DEF WriteProof, WriteRefutation, WriteSpec, WriteGiven, Write
<1>2. /\ Uses(c) /\ Busy(c) /\ at[c] \notin Over /\ Point(c) = at[c]
      /\ tool[c].lean = "gone" /\ ~tool[c].lake
  BY <1>1, Quiet DEF Uses, Busy, Over, Point
<1>3. Here(c) \in Dirs /\ files[Dir(c)] = Here(c)
  BY <1>2, HereIsDir
<1>4. Dir(c) \in Kept \cup Checkers
  BY Directories DEF Inv
<1>5. job[c].kernel \in Kernels /\ job[c].proof \in Proofs \cup {NoProof}
  BY Directories DEF Inv
<1>6. OnRoute(c)
  BY <1>2 DEF Inv, Ordered
<1>7. ASSUME Fault, Finish(c, "error", Supplied(c)) PROVE Done(c)
  BY <1>1, <1>2, <1>7, FaultBounded, FinishStep DEF Inv, Verdicts, Supplied
<1>8. ASSUME NEW here \in Dirs, files' = [files EXCEPT ![Dir(c)] = here],
             NEW next \in {"prove", "refute", "given", "clear"}, Goes(c, next),
             UNCHANGED <<verdict, faults>>,
             next \in Alone => at[c] \in Alone, next \in Named => at[c] \in Named,
             next = "prove" => here.proof = job[c].kernel,
             next = "refute" => here.refute = job[c].kernel,
             next = "clear" => here.given = job[c].proof
      PROVE  Done(c)
  <2>1. /\ at' = [at EXCEPT ![c] = next] /\ at'[c] = next
        /\ \A o \in Checkers \ {c} : at'[o] = at[o]
    BY <1>8 DEF Goes, Inv, TypeOK
  <2>2. at' \in [Checkers -> Stages]
    BY <1>8, <2>1 DEF Inv, TypeOK, Stages, Runs
  <2>3. Here(c)' = here
    BY <1>1, <1>4, <1>8 DEF Here, Dir, Inv, TypeOK
  <2>4. Point(c)' = next
    BY <1>8, <2>1 DEF Point
  <2>5. OwnFiles(c)'
    BY <1>1, <1>8, <2>3, <2>4 DEF OwnFiles
  <2>6. OnRoute(c)'
    BY <1>1, <1>2, <1>6, <1>8, <2>4 DEF OnRoute, Supplied, Alone, Given, Named
  <2>7. tool' \in [Checkers -> Tools] /\ faults' \in 0 .. MaxFaults
    BY <1>1, <1>8 DEF Inv, TypeOK
  <2>8. at[c] # "ended" /\ at'[c] \notin {"ended", "idle", "parse", "dir", "waiting"}
    BY <1>1, <1>8, <2>1
  <2> QED BY <1>1, <1>2, <1>8, <2>1, <2>2, <2>5, <2>6, <2>7, <2>8, FileStep
<1>9. CASE WriteProof(c)
  <2>1. at[c] = "proof"
    BY <1>9 DEF WriteProof, Write
  <2> DEFINE here == [Here(c) EXCEPT !["proof"] = job[c].kernel]
  <2>2. here \in Dirs /\ here.proof = job[c].kernel
    BY <1>3, <1>5 DEF Dirs, Texts
  <2>3. \/ Fault /\ Finish(c, "error", Supplied(c))
        \/ /\ files' = [files EXCEPT ![Dir(c)] = here] /\ Goes(c, "prove")
           /\ UNCHANGED <<verdict, faults>>
    BY <1>3, <1>9 DEF WriteProof, Write
  <2> HIDE DEF here
  <2> QED BY <1>7, <1>8, <2>1, <2>2, <2>3 DEF Alone, Given, Named
<1>10. CASE WriteRefutation(c)
  <2>1. at[c] = "refutation"
    BY <1>10 DEF WriteRefutation, Write
  <2> DEFINE here == [Here(c) EXCEPT !["refute"] = job[c].kernel]
  <2>2. here \in Dirs /\ here.refute = job[c].kernel
    BY <1>3, <1>5 DEF Dirs, Texts
  <2>3. \/ Fault /\ Finish(c, "error", Supplied(c))
        \/ /\ files' = [files EXCEPT ![Dir(c)] = here] /\ Goes(c, "refute")
           /\ UNCHANGED <<verdict, faults>>
    BY <1>3, <1>10 DEF WriteRefutation, Write
  <2> HIDE DEF here
  <2> QED BY <1>7, <1>8, <2>1, <2>2, <2>3 DEF Alone, Given, Named
<1>11. CASE WriteSpec(c)
  <2>1. at[c] = "spec"
    BY <1>11 DEF WriteSpec, Write
  <2> DEFINE here == [Here(c) EXCEPT !["spec"] = job[c].kernel]
  <2>2. here \in Dirs
    BY <1>3, <1>5 DEF Dirs, Texts
  <2>3. \/ Fault /\ Finish(c, "error", Supplied(c))
        \/ /\ files' = [files EXCEPT ![Dir(c)] = here] /\ Goes(c, "given")
           /\ UNCHANGED <<verdict, faults>>
    BY <1>3, <1>11 DEF WriteSpec, Write
  <2> HIDE DEF here
  <2> QED BY <1>7, <1>8, <2>1, <2>2, <2>3 DEF Alone, Given, Named
<1>12. CASE WriteGiven(c)
  <2>1. at[c] = "given"
    BY <1>12 DEF WriteGiven, Write
  <2> DEFINE here == [Here(c) EXCEPT !["given"] = job[c].proof]
  <2>2. \/ Fault /\ Finish(c, "error", Supplied(c))
        \/ /\ files' = [files EXCEPT ![Dir(c)] = here] /\ Goes(c, "clear")
           /\ UNCHANGED <<verdict, faults>>
    BY <1>3, <1>12 DEF WriteGiven, Write
  <2>3. job[c].proof \in Proofs
    BY <1>2, <1>5, <1>6, <2>1 DEF OnRoute, Given, Supplied
  <2>4. here \in Dirs /\ here.given = job[c].proof
    BY <1>3, <2>3 DEF Dirs
  <2> HIDE DEF here
  <2> QED BY <1>7, <1>8, <2>1, <2>2, <2>4 DEF Alone, Given, Named
<1> QED BY <1>9, <1>10, <1>11, <1>12
(* The compiled files of earlier checks are removed.                           *)
LEMMA ClearStep ==
    ASSUME Inv, NEW c \in Checkers, Clear(c)
    PROVE  Done(c)
<1> DEFINE here == [Here(c) EXCEPT !.specO = Nothing, !.givenO = Nothing]
<1>1. /\ at[c] = "clear" /\ at' = [at EXCEPT ![c] = "state"]
      /\ UNCHANGED <<job, tool, verdict, faults, shared>>
  BY DEF Clear, Goes
<1>2. /\ Uses(c) /\ Busy(c) /\ Point(c) = "clear"
      /\ tool[c].lean = "gone" /\ ~tool[c].lake
  BY <1>1, Quiet DEF Uses, Busy, Over, Point
<1>3. Here(c) \in Dirs /\ files[Dir(c)] = Here(c) /\ Dir(c) \in Kept \cup Checkers
  BY <1>2, HereIsDir, Directories DEF Inv
<1>4. files' = [files EXCEPT ![Dir(c)] = here]
  BY <1>3 DEF Clear, Inv, TypeOK
<1>5. here \in Dirs /\ here.given = Here(c).given /\ here.givenO = Nothing
  BY <1>3 DEF Dirs, Texts
<1> HIDE DEF here
<1>6. at'[c] = "state" /\ \A o \in Checkers \ {c} : at'[o] = at[o]
  BY <1>1 DEF Inv, TypeOK
<1>7. Here(c)' = here /\ Point(c)' = "state"
  BY <1>1, <1>3, <1>4, <1>6 DEF Here, Dir, Point, Inv, TypeOK
<1>8. c \notin shared => OwnFiles(c)'
  BY <1>1, <1>2, <1>5, <1>7 DEF OwnFiles, Inv, Earning
<1>9. OnRoute(c)'
  BY <1>1, <1>2, <1>7 DEF OnRoute, Supplied, Alone, Given, Named, Inv, Ordered
<1>10. at' \in [Checkers -> Stages]
  BY <1>1 DEF Inv, TypeOK, Stages, Runs
<1>11. tool' \in [Checkers -> Tools] /\ faults' \in 0 .. MaxFaults
  BY <1>1 DEF Inv, TypeOK
<1> QED BY <1>1, <1>2, <1>4, <1>5, <1>6, <1>8, <1>9, <1>10, <1>11, FileStep

LEMMA ReadGivenStep ==
    ASSUME Inv, NEW c \in Checkers, ReadGiven(c)
    PROVE  Done(c)
<1>1. at[c] = "manifest" /\ UNCHANGED <<job, tool, shared>>
  BY DEF ReadGiven
<1>2. /\ Busy(c) /\ Point(c) = "manifest" /\ at[c] \notin Over
      /\ tool[c].lean = "gone" /\ ~tool[c].lake
  BY <1>1, Quiet DEF Busy, Over, Point
<1>3. faults' \in 0 .. MaxFaults
  BY FaultBounded DEF ReadGiven, Inv
<1>4. \/ Finish(c, "unknown", TRUE) \/ Finish(c, "error", TRUE)
      \/ /\ About[job[c].proof] = job[c].kernel
         /\ Goes(c, "spec") /\ UNCHANGED <<verdict, files>>
  BY DEF ReadGiven
<1>5. CASE Finish(c, "unknown", TRUE)
  BY <1>1, <1>2, <1>3, <1>5, FinishStep DEF Verdicts
<1>6. CASE Finish(c, "error", TRUE)
  BY <1>1, <1>2, <1>3, <1>6, FinishStep DEF Verdicts
<1>7. CASE /\ About[job[c].proof] = job[c].kernel
           /\ Goes(c, "spec") /\ UNCHANGED <<verdict, files>>
  <2>1. at'[c] = "spec" /\ Point(c)' = "spec"
    BY <1>7 DEF Goes, Point, Inv, TypeOK
  <2>2. OwnFiles(c)'
    BY <2>1 DEF OwnFiles
  <2>3. OnRoute(c)'
    BY <1>1, <1>2, <1>7, <2>1 DEF OnRoute, Supplied, Alone, Given, Named, Inv, Ordered
  <2>4. "spec" \in Stages \ (Over \cup {"parse", "dir", "waiting"})
    BY DEF Stages, Over
  <2> QED BY <1>1, <1>2, <1>3, <1>7, <2>2, <2>3, <2>4, MoveStep
<1> QED BY <1>4, <1>5, <1>6, <1>7

(* A step of the tool alone.                                                   *)
LEMMA ToolStep ==
    ASSUME Inv, NEW c \in Checkers, Uses(c), NEW t \in Tools,
           tool' = [tool EXCEPT ![c] = t],
           UNCHANGED <<job, files, verdict, shared>>, faults' \in 0 .. MaxFaults,
           \/ at[c] \in {"waiting", "dead"} /\ at' = at /\ t.what = tool[c].what
           \/ at[c] \in Runs /\ at' = [at EXCEPT ![c] = "waiting"] /\ t.what = at[c],
           t.lean = "working" => /\ t.what = "state" => t.text \in Texts
                                 /\ t.what = "compile" => t.text \in Loads,
           c \notin shared /\ at'[c] = "waiting" => OwnText(c)'
    PROVE  Done(c)
<1>1. tool'[c] = t /\ \A o \in Checkers \ {c} : tool'[o] = tool[o] /\ at'[o] = at[o]
  BY DEF Inv, TypeOK
<1>2. at' \in [Checkers -> Stages] /\ tool' \in [Checkers -> Tools]
  BY DEF Inv, TypeOK, Stages
<1>3. /\ at'[c] \in {"waiting", "dead"} /\ at[c] # "ended"
      /\ at'[c] = "waiting" => Busy(c) /\ Point(c)' = Point(c) /\ t.what = Point(c)
  BY <1>1 DEF Inv, TypeOK, Busy, Over, Point, Runs
<1>4. at'[c] = "waiting" => t.what \in Runs
  BY <1>3 DEF Point, Inv, Ordered
<1>5. Here(c) \in Dirs /\ files' = [files EXCEPT ![Dir(c)] = Here(c)]
  BY HereIsDir
<1>6. Busy(c)' => at'[c] = "waiting"
  BY <1>3 DEF Busy, Over
<1>7. Busy(c)' => OnRoute(c)'
  BY <1>3, <1>6 DEF OnRoute, Supplied, Inv, Ordered
<1>8. c \notin shared /\ Busy(c)' => OwnFiles(c)'
  <2>1. Here(c)' = Here(c)
    BY DEF Here, Dir
  <2> QED BY <1>3, <1>6, <2>1 DEF OwnFiles, Inv, Earning
<1> QED BY <1>1, <1>2, <1>3, <1>4, <1>5, <1>7, <1>8, FileStep

LEMMA RunStep ==
    ASSUME Inv, NEW c \in Checkers, Run(c)
    PROVE  Done(c)
<1>1. at[c] \in Runs /\ at' = [at EXCEPT ![c] = "waiting"]
      /\ UNCHANGED <<job, files, verdict, shared>>
  BY DEF Run
<1>2. Uses(c) /\ at[c] # "waiting"
  BY <1>1 DEF Uses, Over, Runs
<1>3. faults' \in 0 .. MaxFaults
  BY FaultBounded DEF Run, Inv
<1>4. PICK t \in {[NoTool EXCEPT !.what = at[c], !.lake = TRUE, !.lean = "started"],
                  [NoTool EXCEPT !.what = at[c]]} : tool' = [tool EXCEPT ![c] = t]
  BY DEF Run
<1>5. t \in Tools /\ t.what = at[c] /\ t.lean # "working" /\ t.result = "refused"
  BY <1>1, <1>4, Values DEF NoTool, Tools
<1>6. OwnText(c)'
  <2>1. tool'[c] = t
    BY <1>4 DEF Inv, TypeOK
  <2> QED BY <1>5, <2>1 DEF OwnText
<1> QED BY <1>1, <1>2, <1>3, <1>4, <1>5, <1>6, ToolStep

(* A check whose Lean is there waits for it, or was killed.                    *)
LEMMA HasTool ==
    ASSUME Inv, NEW c \in Checkers, tool[c].lean # "gone" \/ tool[c].lake
    PROVE  /\ at[c] \in {"waiting", "dead"} /\ tool[c] \in Tools
           /\ at[c] = "waiting" => Busy(c) /\ Point(c) = tool[c].what /\ tool[c].what \in Runs
           /\ at[c] = "waiting" \/ tool[c].lean # "gone" => Uses(c)
<1>1. at[c] \in {"waiting", "dead"} /\ tool[c] \in Tools
  BY DEF Inv, Ordered, TypeOK
<1> QED BY <1>1 DEF Busy, Over, Point, Uses, Inv, Ordered

LEMMA LeanReadsStep ==
    ASSUME Inv, NEW c \in Checkers, LeanReads(c)
    PROVE  Done(c)
<1>1. tool[c].lean = "started" /\ UNCHANGED <<job, at, files, verdict, faults, shared>>
  BY DEF LeanReads
<1>2. /\ at[c] \in {"waiting", "dead"} /\ tool[c] \in Tools /\ Uses(c)
      /\ at[c] = "waiting" => Busy(c) /\ Point(c) = tool[c].what
  BY <1>1, HasTool
<1>3. Here(c) \in Dirs /\ Here(c).made
  BY <1>2, HereIsDir, Values
<1>4. PICK text : text = Opened(tool[c].what, Here(c))
  OBVIOUS
<1>5. /\ tool[c].what = "prove" => text = Here(c).proof
      /\ tool[c].what = "refute" => text = Here(c).refute
      /\ tool[c].what = "state" => text = Here(c).spec
      /\ tool[c].what = "compile" => text = [given |-> Here(c).given, spec |-> Here(c).specO]
      /\ tool[c].what = "audit" => text = [given |-> Here(c).givenO, spec |-> Here(c).specO]
      /\ tool[c].what \notin {"prove", "refute", "state", "compile", "audit"} => text = Nothing
  BY <1>4 DEF Opened
<1>6. /\ text \in Texts \cup Loads \cup Audits
      /\ tool[c].what = "state" => text \in Texts
      /\ tool[c].what = "compile" => text \in Loads
  BY <1>3, <1>5 DEF Dirs, Loads, Audits, Texts
<1>7. PICK t \in Tools : /\ tool' = [tool EXCEPT ![c] = t]
                         /\ t.what = tool[c].what /\ t.lean = "working" /\ t.text = text
                         /\ t.result = tool[c].result
  <2> DEFINE t == [tool[c] EXCEPT !.lean = "working", !.text = text]
  <2>1. tool' = [tool EXCEPT ![c] = t]
    BY <1>3, <1>4 DEF LeanReads
  <2>2. /\ t \in Tools /\ t.what = tool[c].what /\ t.lean = "working" /\ t.text = text
        /\ t.result = tool[c].result
    BY <1>2, <1>6 DEF Tools
  <2> HIDE DEF t
  <2> QED BY <2>1, <2>2
<1>8. c \notin shared /\ at[c] = "waiting" => OwnText(c)'
  <2> SUFFICES ASSUME c \notin shared, at[c] = "waiting" PROVE OwnText(c)'
    OBVIOUS
  <2>1. tool'[c] = t
    BY <1>7 DEF Inv, TypeOK
  <2>2. OwnFiles(c) /\ OwnText(c)
    BY <1>2 DEF Inv, Earning
  <2>3. /\ text = [given |-> Here(c).given, spec |-> Here(c).specO] => text.given = Here(c).given
        /\ text = [given |-> Here(c).givenO, spec |-> Here(c).specO] => text.given = Here(c).givenO
    OBVIOUS
  <2>4. /\ t.what \in {"prove", "refute"} => t.text = job[c].kernel
        /\ t.what = "compile" => t.text.given = job[c].proof
        /\ t.what = "audit" => t.text.given = Nothing \/ t.text.given.proof = job[c].proof
    BY <1>2, <1>5, <1>7, <2>2, <2>3 DEF OwnFiles
  <2>5. t.result = "accepted" =>
          /\ t.what = "prove" => job[c].kernel \in Correct
          /\ t.what = "refute" => job[c].kernel \notin Correct
          /\ t.what = "audit" => job[c].proof \in Standing
    BY <1>7, <2>2 DEF OwnText
  <2> QED BY <1>1, <2>1, <2>4, <2>5 DEF OwnText
<1>9. faults' \in 0 .. MaxFaults
  BY <1>1 DEF Inv, TypeOK
<1>10. /\ UNCHANGED <<job, files, verdict, shared>> /\ at' = at
       /\ t.what = "state" => t.text \in Texts
       /\ t.what = "compile" => t.text \in Loads
       /\ c \notin shared /\ at'[c] = "waiting" => OwnText(c)'
  BY <1>1, <1>6, <1>7, <1>8
<1>11. at[c] \in {"waiting", "dead"} /\ t.what = tool[c].what /\ t \in Tools /\ Uses(c)
  BY <1>2, <1>7
<1> QED BY <1>7, <1>9, <1>10, <1>11, ToolStep
(* Lean ends: it accepts what is so, and leaves what it compiled.              *)
LEMMA LeanEndsStep ==
    ASSUME Inv, NEW c \in Checkers, LeanEnds(c)
    PROVE  Done(c)
<1> DEFINE old == tool[c]
<1>1. old.lean = "working" /\ UNCHANGED <<job, at, verdict, faults, shared>>
  BY DEF LeanEnds
<1>2. /\ at[c] \in {"waiting", "dead"} /\ old \in Tools /\ Uses(c)
      /\ at[c] = "waiting" => Busy(c) /\ Point(c) = old.what /\ old.what \in Runs
  BY <1>1, HasTool
<1>3. Here(c) \in Dirs /\ files[Dir(c)] = Here(c) /\ Dir(c) \in Kept \cup Checkers
      /\ Here(c).made /\ files = [files EXCEPT ![Dir(c)] = Here(c)]
  BY <1>2, HereIsDir, Directories, Values DEF Inv
<1>4. PICK r \in Says(old.what, old.text) :
        /\ tool' = [tool EXCEPT ![c].lean = "gone", ![c].result = r]
        /\ files' =
             CASE r = "accepted" /\ files[Dir(c)].made /\ old.what = "state" ->
                      [files EXCEPT ![Dir(c)].specO = old.text]
               [] r = "accepted" /\ files[Dir(c)].made /\ old.what = "compile" ->
                      [files EXCEPT ![Dir(c)].givenO =
                          [proof |-> old.text.given, spec |-> old.text.spec]]
               [] OTHER -> files
  BY DEF LeanEnds
<1>5. r \in {"refused", "axioms", "accepted"}
  BY DEF Says
<1>6. r = "accepted" =>
        /\ old.what = "prove" => old.text \in Correct
        /\ old.what = "refute" => old.text \notin Correct
        /\ old.what = "compile" => old.text.spec # Nothing /\ old.text.given \in Compiling
        /\ old.what = "audit" => old.text.given # Nothing /\ old.text.given.proof \in Standing
  BY DEF Says
<1>7. PICK t \in Tools : /\ tool' = [tool EXCEPT ![c] = t]
                         /\ t.what = old.what /\ t.lean = "gone" /\ t.text = old.text
                         /\ t.result = r
  <2> DEFINE t == [old EXCEPT !.lean = "gone", !.result = r]
  <2>1. tool' = [tool EXCEPT ![c] = t]
    BY <1>4 DEF Inv, TypeOK
  <2>2. /\ t \in Tools /\ t.what = old.what /\ t.lean = "gone" /\ t.text = old.text
        /\ t.result = r
    BY <1>2, <1>5 DEF Tools
  <2> HIDE DEF t
  <2> QED BY <2>1, <2>2
<1>8. PICK here \in Dirs : /\ files' = [files EXCEPT ![Dir(c)] = here]
                           /\ here.given = Here(c).given
                           /\ here.proof = Here(c).proof /\ here.refute = Here(c).refute
                           /\ \/ here.givenO = Here(c).givenO
                              \/ /\ old.what = "compile"
                                 /\ here.givenO.proof = old.text.given
  <2>1. CASE r = "accepted" /\ old.what = "state"
    <3> DEFINE here == [Here(c) EXCEPT !.specO = old.text]
    <3>1. files' = [files EXCEPT ![Dir(c)] = here]
      BY <1>3, <1>4, <2>1
    <3>2. old.text \in Texts
      BY <1>1, <2>1 DEF Inv, TypeOK
    <3>3. /\ here \in Dirs /\ here.given = Here(c).given /\ here.proof = Here(c).proof
          /\ here.refute = Here(c).refute /\ here.givenO = Here(c).givenO
      BY <1>3, <3>2 DEF Dirs
    <3> HIDE DEF here
    <3> QED BY <3>1, <3>3
  <2>2. CASE r = "accepted" /\ old.what = "compile"
    <3> DEFINE made == [proof |-> old.text.given, spec |-> old.text.spec]
               here == [Here(c) EXCEPT !.givenO = made]
    <3>1. files' = [files EXCEPT ![Dir(c)] = here]
      BY <1>3, <1>4, <2>2
    <3>2. old.text \in Loads
      BY <1>1, <2>2 DEF Inv, TypeOK
    <3>3. made \in Compiled /\ made.proof = old.text.given
      BY <1>6, <2>2, <3>2, Values DEF Loads, Compiled, Texts
    <3> HIDE DEF made
    <3>4. /\ here \in Dirs /\ here.given = Here(c).given /\ here.proof = Here(c).proof
          /\ here.refute = Here(c).refute /\ here.givenO = made
      BY <1>3, <3>3 DEF Dirs
    <3> HIDE DEF here
    <3> QED BY <2>2, <3>1, <3>3, <3>4
  <2>3. CASE ~(r = "accepted" /\ old.what \in {"state", "compile"})
    <3>1. files' = files
      BY <1>4, <2>3
    <3>2. files' = [files EXCEPT ![Dir(c)] = Here(c)]
      BY <1>3, <3>1
    <3> QED BY <1>3, <3>2
  <2> QED BY <2>1, <2>2, <2>3
<1>9. tool'[c] = t /\ \A o \in Checkers \ {c} : tool'[o] = tool[o]
  BY <1>7 DEF Inv, TypeOK
<1>10. Here(c)' = here /\ Point(c)' = Point(c)
  BY <1>1, <1>3, <1>7, <1>8, <1>9 DEF Here, Dir, Point, Inv, TypeOK
<1>11. Busy(c)' => at[c] = "waiting"
  BY <1>1, <1>2 DEF Busy, Over
<1>12. Busy(c)' => OnRoute(c)'
  BY <1>1, <1>2, <1>10, <1>11 DEF OnRoute, Supplied, Inv, Ordered
<1>13. c \notin shared => (Busy(c)' => OwnFiles(c)') /\ (at'[c] = "waiting" => OwnText(c)')
  <2> SUFFICES ASSUME c \notin shared, at[c] = "waiting" PROVE OwnFiles(c)' /\ OwnText(c)'
    BY <1>1, <1>11
  <2>1. OwnFiles(c) /\ OwnText(c)
    BY <1>2 DEF Inv, Earning
  <2>2. old.what = "compile" => old.text.given = job[c].proof
    BY <1>1, <2>1 DEF OwnText
  <2>3. OwnFiles(c)'
    BY <1>1, <1>2, <1>8, <1>10, <2>1, <2>2 DEF OwnFiles
  <2>4. t.result = "accepted" =>
          /\ t.what = "prove" => job[c].kernel \in Correct
          /\ t.what = "refute" => job[c].kernel \notin Correct
          /\ t.what = "audit" => job[c].proof \in Standing
    BY <1>1, <1>6, <1>7, <2>1 DEF OwnText
  <2>5. OwnText(c)'
    BY <1>1, <1>7, <1>9, <2>4 DEF OwnText
  <2> QED BY <2>3, <2>5
<1>14. /\ at' \in [Checkers -> Stages] /\ tool' \in [Checkers -> Tools]
       /\ faults' \in 0 .. MaxFaults
  BY <1>1, <1>7 DEF Inv, TypeOK
<1>15. /\ at[c] # "ended" /\ at'[c] \in {"waiting", "dead"}
       /\ at'[c] = "waiting" => tool'[c].what \in Runs
       /\ tool'[c].lean = "gone"
  BY <1>1, <1>2, <1>7, <1>9
<1>16. \A o \in Checkers \ {c} : at'[o] = at[o] /\ tool'[o] = tool[o]
  BY <1>1, <1>9
<1> QED BY <1>1, <1>2, <1>8, <1>12, <1>13, <1>14, <1>15, <1>16, FileStep

(* lake ends, by itself or by the limit.                                       *)
LEMMA LakeStep ==
    ASSUME Inv, NEW c \in Checkers, LakeEnds(c) \/ Limit(c)
    PROVE  Done(c)
<1>1. tool[c].lake /\ UNCHANGED <<job, at, files, verdict, faults, shared>>
  BY DEF LakeEnds, Limit
<1>2. at[c] \in {"waiting", "dead"} /\ tool[c] \in Tools
  BY <1>1, HasTool
<1>3. PICK t \in Tools : /\ tool' = [tool EXCEPT ![c] = t]
                         /\ t.what = tool[c].what /\ t.lean = tool[c].lean
                         /\ t.text = tool[c].text /\ t.result = tool[c].result /\ ~t.lake
  <2>1. CASE LakeEnds(c)
    <3> DEFINE t == [tool[c] EXCEPT !.lake = FALSE]
    <3>1. tool' = [tool EXCEPT ![c] = t]
      BY <2>1 DEF LakeEnds, Inv, TypeOK
    <3>2. t \in Tools /\ t.what = tool[c].what /\ t.lean = tool[c].lean
          /\ t.text = tool[c].text /\ t.result = tool[c].result /\ ~t.lake
      BY <1>2 DEF Tools
    <3> HIDE DEF t
    <3> QED BY <3>1, <3>2
  <2>2. CASE Limit(c)
    <3> DEFINE t == [tool[c] EXCEPT !.lake = FALSE, !.limit = TRUE]
    <3>1. tool' = [tool EXCEPT ![c] = t]
      BY <2>2 DEF Limit, Inv, TypeOK
    <3>2. t \in Tools /\ t.what = tool[c].what /\ t.lean = tool[c].lean
          /\ t.text = tool[c].text /\ t.result = tool[c].result /\ ~t.lake
      BY <1>2 DEF Tools
    <3> HIDE DEF t
    <3> QED BY <3>1, <3>2
  <2> QED BY <2>1, <2>2
<1>4. tool'[c] = t /\ \A o \in Checkers \ {c} : tool'[o] = tool[o]
  BY <1>3 DEF Inv, TypeOK
<1>5. CASE Uses(c)
  <2>1. t.lean = "working" => /\ t.what = "state" => t.text \in Texts
                              /\ t.what = "compile" => t.text \in Loads
    BY <1>3 DEF Inv, TypeOK
  <2>2. c \notin shared /\ at'[c] = "waiting" => OwnText(c)'
    <3> SUFFICES ASSUME c \notin shared, at[c] = "waiting" PROVE OwnText(c)'
      BY <1>1
    <3>1. OwnText(c)
      BY DEF Inv, Earning
    <3> QED BY <1>1, <1>3, <1>4, <3>1 DEF OwnText
  <2>3. faults' \in 0 .. MaxFaults
    BY <1>1 DEF Inv, TypeOK
  <2> QED BY <1>1, <1>2, <1>3, <1>5, <2>1, <2>2, <2>3, ToolStep
<1>6. CASE ~Uses(c)
  <2>1. at[c] = "dead" /\ t.lean = "gone" /\ ~Busy(c) /\ ~Busy(c)'
    BY <1>1, <1>2, <1>3, <1>6 DEF Uses, Over, Busy
  <2>2. TypeOK'
    <3>1. tool' \in [Checkers -> Tools]
      BY <1>3 DEF Inv, TypeOK
    <3>2. \A o \in Checkers : tool'[o].lean = "working" => tool'[o] = tool[o]
      BY <1>4, <2>1
    <3> QED BY <1>1, <3>1, <3>2 DEF Inv, TypeOK
  <2>3. ~Uses(c)'
    BY <1>1, <1>4, <2>1 DEF Uses, Over
  <2>4. Stays(c)
    BY <1>1, <1>4, <2>3 DEF Stays
  <2>5. Ordered(c)'
    <3>1. Ordered(c)
      BY DEF Inv
    <3> QED BY <1>1, <1>3, <1>4, <2>1, <2>3, <3>1 DEF Ordered
  <2>6. c \notin shared' => Earning(c)'
    <3> SUFFICES ASSUME c \notin shared PROVE Earning(c)'
      BY <1>1
    <3>1. EarnedVerdict(c)
      BY DEF Inv, Earning
    <3> QED BY <1>1, <2>1, <3>1 DEF Earning, EarnedVerdict, Supplied
  <2> QED BY <2>2, <2>4, <2>5, <2>6 DEF Done
<1> QED BY <1>5, <1>6

(* A killed check keeps its files and its Lean.                                *)
LEMMA KillStep ==
    ASSUME Inv, NEW c \in Checkers, Kill(c)
    PROVE  Done(c)
<1>1. /\ at[c] \notin Over /\ at' = [at EXCEPT ![c] = "dead"]
      /\ UNCHANGED <<job, tool, files, verdict, shared>>
  BY DEF Kill, Goes
<1>2. at'[c] = "dead" /\ \A o \in Checkers \ {c} : at'[o] = at[o]
  BY <1>1 DEF Inv, TypeOK
<1>3. TypeOK'
  <2>1. faults' \in 0 .. MaxFaults
    BY FaultBounded DEF Kill, Inv
  <2>2. at' \in [Checkers -> Stages]
    BY <1>1 DEF Inv, TypeOK, Stages, Over
  <2> QED BY <1>1, <2>1, <2>2 DEF Inv, TypeOK
<1>4. ~Busy(c)' /\ (Uses(c)' => Uses(c))
  BY <1>1, <1>2 DEF Busy, Uses, Over
<1>5. Stays(c)
  BY <1>1, <1>2, <1>4 DEF Stays
<1>6. Ordered(c)'
  <2>1. Ordered(c) /\ Dir(c)' = Dir(c)
    BY <1>1 DEF Inv, Dir
  <2>2. at[c] # "ended"
    BY <1>1 DEF Over
  <2> QED BY <1>1, <1>2, <1>4, <2>1, <2>2 DEF Ordered
<1>7. c \notin shared' => Earning(c)'
  <2> SUFFICES ASSUME c \notin shared PROVE Earning(c)'
    BY <1>1
  <2>1. EarnedVerdict(c)
    BY DEF Inv, Earning
  <2> QED BY <1>1, <1>2, <1>4, <2>1 DEF Earning, EarnedVerdict, Supplied
<1> QED BY <1>3, <1>5, <1>6, <1>7 DEF Done
-----------------------------------------------------------------------------
(* What the check makes of a Lean run that has ended.                          *)

LEMMA AfterRun ==
    ASSUME Inv, NEW c \in Checkers, Returned(c)
    PROVE  /\ at[c] = "waiting" /\ at[c] \notin Over /\ Busy(c)
           /\ tool[c].lean = "gone" /\ ~tool[c].lake
           /\ Point(c) = tool[c].what /\ OnRoute(c)
           /\ c \notin shared => OwnFiles(c) /\ OwnText(c)
<1>1. at[c] = "waiting" /\ tool[c].lean = "gone" /\ ~tool[c].lake
  BY DEF Returned
<1>2. Busy(c) /\ Point(c) = tool[c].what
  BY <1>1 DEF Busy, Over, Point
<1> QED BY <1>1, <1>2 DEF Over, Inv, Ordered, Earning

(* A stage after a Lean run, or after the search, at which no new file counts. *)
LEMMA NextStage ==
    ASSUME Inv, NEW c \in Checkers, UNCHANGED <<job, tool, files, verdict, faults, shared>>,
           NEW stage \in {"library", "proof", "search", "refutation", "manifest"},
           Goes(c, stage), Busy(c), tool[c].lean = "gone" /\ ~tool[c].lake,
           stage \in Alone => ~Supplied(c), stage \in Given => Supplied(c)
    PROVE  Done(c)
<1>1. at'[c] = stage /\ Point(c)' = stage
  BY DEF Goes, Point, Inv, TypeOK
<1>2. OwnFiles(c)'
  BY <1>1 DEF OwnFiles
<1>3. OnRoute(c)'
  BY <1>1 DEF OnRoute, Supplied, Named, Given
<1>4. stage \in Stages \ (Over \cup {"parse", "dir", "waiting"}) /\ faults' \in 0 .. MaxFaults
  BY DEF Stages, Over, Runs, Inv, TypeOK
<1> QED BY <1>2, <1>3, <1>4, MoveStep

(* One with the files of the stage before it.                                  *)
LEMMA FollowingStage ==
    ASSUME Inv, NEW c \in Checkers, UNCHANGED <<job, tool, files, verdict, faults, shared>>,
           NEW stage \in {"compile", "audit"}, Goes(c, stage), Returned(c),
           tool[c].what \in {"state", "compile"}
    PROVE  Done(c)
<1>1. at'[c] = stage /\ Point(c)' = stage
  BY DEF Goes, Point, Inv, TypeOK
<1>2. /\ Busy(c) /\ tool[c].lean = "gone" /\ ~tool[c].lake
      /\ OnRoute(c) /\ Point(c) \in {"state", "compile"}
  BY AfterRun
<1>3. OwnFiles(c) => OwnFiles(c)'
  BY <1>1, <1>2 DEF OwnFiles, Here, Dir
<1>4. OnRoute(c)'
  BY <1>1, <1>2 DEF OnRoute, Supplied, Alone, Given, Named
<1>5. stage \in Stages \ (Over \cup {"parse", "dir", "waiting"}) /\ faults' \in 0 .. MaxFaults
  BY DEF Stages, Over, Runs, Inv, TypeOK
<1> QED BY <1>2, <1>3, <1>4, <1>5, MoveStep

(* A verdict that claims nothing of the kernel but that it has no attempt.     *)
LEMMA PlainVerdict ==
    ASSUME Inv, NEW c \in Checkers, UNCHANGED <<job, tool, faults, shared>>,
           NEW v \in {"error", "unknown", "unsupported"}, Finish(c, v, TRUE),
           v = "unsupported" => job[c].kernel \notin Shaped,
           Busy(c), tool[c].lean = "gone" /\ ~tool[c].lake
    PROVE  Done(c)
<1>1. v \in Verdicts /\ TRUE \in BOOLEAN /\ faults' \in 0 .. MaxFaults
  BY DEF Verdicts, Inv, TypeOK
<1>2. at[c] \notin Over
  BY DEF Busy
<1> QED BY <1>1, <1>2, FinishStep

LEMMA NoAnswer ==
    ASSUME NEW c \in Checkers
    PROVE  /\ Neither(c) \in {"error", "unknown", "unsupported"}
           /\ Neither(c) = "unsupported" => job[c].kernel \notin Shaped
BY DEF Neither

LEMMA SearchOrEnd ==
    ASSUME Inv, NEW c \in Checkers, UNCHANGED <<job, tool, faults, shared>>, ToSearch(c),
           Busy(c), tool[c].lean = "gone" /\ ~tool[c].lake, ~Supplied(c)
    PROVE  Done(c)
<1>1. CASE Goes(c, "search") /\ UNCHANGED <<verdict, files>>
  BY <1>1, NextStage DEF Given
<1>2. CASE Finish(c, Neither(c), TRUE)
  <2>1. PICK v \in {"error", "unknown", "unsupported"} : v = Neither(c)
    BY NoAnswer
  <2> QED BY <1>2, <2>1, NoAnswer, PlainVerdict
<1> QED BY <1>1, <1>2 DEF ToSearch

LEMMA BuildStep ==
    ASSUME Inv, NEW c \in Checkers, AfterBuild(c) \/ AfterLibrary(c) \/ AfterStatement(c),
           UNCHANGED <<job, tool, faults, shared>>
    PROVE  Done(c)
<1>1. Returned(c) /\ tool[c].what \in {"build", "library", "state"}
  BY DEF AfterBuild, AfterLibrary, AfterStatement
<1>2. Busy(c) /\ tool[c].lean = "gone" /\ ~tool[c].lake /\ Point(c) = tool[c].what /\ OnRoute(c)
  BY <1>1, AfterRun
<1>3. CASE Finish(c, "error", TRUE)
  BY <1>2, <1>3, PlainVerdict
<1>4. CASE AfterBuild(c)
  <2>1. \/ Finish(c, "error", TRUE)
        \/ Supplied(c) /\ Goes(c, "library") /\ UNCHANGED <<verdict, files>>
        \/ ~Supplied(c) /\ Goes(c, "proof") /\ UNCHANGED <<verdict, files>>
        \/ ~Supplied(c) /\ ToSearch(c)
    BY <1>4, Zenon DEF AfterBuild
  <2>2. CASE Supplied(c) /\ Goes(c, "library") /\ UNCHANGED <<verdict, files>>
    BY <1>2, <2>2, NextStage DEF Alone
  <2>3. CASE ~Supplied(c) /\ Goes(c, "proof") /\ UNCHANGED <<verdict, files>>
    BY <1>2, <2>3, NextStage DEF Given
  <2>4. CASE ~Supplied(c) /\ ToSearch(c)
    BY <1>2, <2>4, SearchOrEnd
  <2> QED BY <1>3, <2>1, <2>2, <2>3, <2>4
<1>5. CASE AfterLibrary(c)
  <2>1. tool[c].what = "library"
    BY <1>5 DEF AfterLibrary
  <2>2. Supplied(c)
    BY <1>2, <2>1 DEF OnRoute, Given
  <2>3. CASE Goes(c, "manifest") /\ UNCHANGED <<verdict, files>>
    BY <1>2, <2>2, <2>3, NextStage DEF Alone
  <2> QED BY <1>3, <1>5, <2>3 DEF AfterLibrary
<1>6. CASE AfterStatement(c)
  <2>1. tool[c].what = "state"
    BY <1>6 DEF AfterStatement
  <2>2. CASE Goes(c, "compile") /\ UNCHANGED <<verdict, files>>
    BY <1>1, <2>1, <2>2, FollowingStage
  <2> QED BY <1>3, <1>6, <2>2 DEF AfterStatement
<1> QED BY <1>4, <1>5, <1>6

LEMMA CompileStep ==
    ASSUME Inv, NEW c \in Checkers, AfterCompile(c), UNCHANGED <<job, tool, faults, shared>>
    PROVE  Done(c)
<1>1. Returned(c) /\ tool[c].what = "compile"
  BY DEF AfterCompile
<1>2. Busy(c) /\ tool[c].lean = "gone" /\ ~tool[c].lake
  BY <1>1, AfterRun
<1>3. CASE Goes(c, "audit") /\ UNCHANGED <<verdict, files>>
  BY <1>1, <1>3, FollowingStage
<1>4. CASE Finish(c, "unknown", TRUE)
  BY <1>2, <1>4, PlainVerdict
<1> QED BY <1>3, <1>4 DEF AfterCompile

LEMMA SearchStep ==
    ASSUME Inv, NEW c \in Checkers, SearchKernel(c), UNCHANGED <<job, tool, faults, shared>>
    PROVE  Done(c)
<1>1. at[c] = "search"
  BY DEF SearchKernel
<1>2. Busy(c) /\ Point(c) = "search" /\ tool[c].lean = "gone" /\ ~tool[c].lake
  BY <1>1, Quiet DEF Busy, Over, Point
<1>3. ~Supplied(c)
  BY <1>2 DEF OnRoute, Alone, Inv, Ordered
<1>4. CASE Goes(c, "refutation") /\ UNCHANGED <<verdict, files>>
  BY <1>2, <1>3, <1>4, NextStage DEF Given
<1>5. CASE Finish(c, Neither(c), TRUE)
  <2>1. PICK v \in {"error", "unknown", "unsupported"} : v = Neither(c)
    BY NoAnswer
  <2> QED BY <1>2, <1>5, <2>1, NoAnswer, PlainVerdict
<1> QED BY <1>4, <1>5 DEF SearchKernel

(* The answers that claim something: Lean has accepted the file that the check *)
(* wrote for this kernel.                                                      *)
LEMMA AnswerStep ==
    ASSUME Inv, NEW c \in Checkers, AfterProof(c) \/ AfterRefutation(c) \/ AfterAudit(c),
           UNCHANGED <<job, tool, faults, shared>>
    PROVE  Done(c)
<1>1. Returned(c)
  BY DEF AfterProof, AfterRefutation, AfterAudit
<1>2. /\ at[c] \notin Over /\ Busy(c) /\ tool[c].lean = "gone" /\ ~tool[c].lake
      /\ Point(c) = tool[c].what /\ OnRoute(c) /\ (c \notin shared => OwnText(c))
  BY <1>1, AfterRun
<1>3. faults' \in 0 .. MaxFaults /\ {"proved", "refuted"} \subseteq Verdicts
  BY DEF Inv, TypeOK, Verdicts
<1>4. ASSUME Finish(c, Neither(c), TRUE) PROVE Done(c)
  <2>1. PICK v \in {"error", "unknown", "unsupported"} : v = Neither(c)
    BY NoAnswer
  <2> QED BY <1>2, <1>4, <2>1, NoAnswer, PlainVerdict
<1>5. CASE AfterProof(c)
  <2>1. tool[c].what = "prove"
    BY <1>5 DEF AfterProof
  <2>2. ~Supplied(c)
    BY <1>2, <2>1 DEF OnRoute, Alone
  <2>3. CASE Accepted(c) /\ Finish(c, "proved", TRUE)
    <3>1. c \notin shared => job[c].kernel \in Correct
      BY <1>2, <2>1, <2>3 DEF OwnText, Accepted
    <3> QED BY <1>2, <1>3, <2>2, <2>3, <3>1, FinishStep
  <2>4. CASE ToSearch(c)
    BY <1>2, <2>2, <2>4, SearchOrEnd
  <2> QED BY <1>5, <2>3, <2>4 DEF AfterProof
<1>6. CASE AfterRefutation(c)
  <2>1. tool[c].what = "refute"
    BY <1>6 DEF AfterRefutation
  <2>2. CASE Accepted(c) /\ Finish(c, "refuted", TRUE)
    <3>1. c \notin shared => job[c].kernel \notin Correct
      BY <1>2, <2>1, <2>2 DEF OwnText, Accepted
    <3> QED BY <1>2, <1>3, <2>2, <3>1, FinishStep
  <2> QED BY <1>4, <1>6, <2>2 DEF AfterRefutation
<1>7. CASE AfterAudit(c)
  <2>1. tool[c].what = "audit"
    BY <1>7 DEF AfterAudit
  <2>2. About[job[c].proof] = job[c].kernel
    BY <1>2, <2>1 DEF OnRoute, Named, Given
  <2>3. CASE tool[c].result = "accepted" /\ Finish(c, "proved", TRUE)
    <3>1. c \notin shared => job[c].proof \in Standing
      BY <1>2, <2>1, <2>3 DEF OwnText
    <3>2. c \notin shared => job[c].kernel \in Correct
      BY <2>2, <3>1, Values
    <3> QED BY <1>2, <1>3, <2>3, <3>1, <3>2, FinishStep
  <2>4. CASE Finish(c, "unknown", TRUE)
    BY <1>2, <2>4, PlainVerdict
  <2> QED BY <1>7, <2>3, <2>4 DEF AfterAudit
<1> QED BY <1>5, <1>6, <1>7

LEMMA NextInv == Inv /\ [Next]_vars => Inv'
<1> SUFFICES ASSUME Inv, [Next]_vars PROVE Inv'
  OBVIOUS
<1>1. ASSUME NEW c \in Checkers, Decide(c) PROVE Done(c)
  BY <1>1, BuildStep, CompileStep, SearchStep, AnswerStep DEF Decide
<1>2. ASSUME NEW c \in Checkers, Start(c) \/ Own(c) \/ Lean(c) \/ LakeEnds(c) \/ Kill(c)
      PROVE  MakeDir(c) \/ Done(c)
  BY <1>1, <1>2, StartStep, ParseStep, WriteStep, ClearStep, ReadGivenStep, RunStep,
     LeanReadsStep, LeanEndsStep, LakeStep, KillStep DEF Own, Lean
<1>3. ASSUME NEW c \in Checkers, Start(c) \/ Own(c) \/ Lean(c) \/ LakeEnds(c) \/ Kill(c)
      PROVE  Inv'
  <2>1. CASE MakeDir(c)
    BY <2>1, MakeDirStep
  <2>2. CASE ~MakeDir(c)
    BY <1>2, <1>3, <2>2, StepInv
  <2> QED BY <2>1, <2>2
<1>4. CASE UNCHANGED vars
  <2> USE <1>4 DEF vars
  <2>1. TypeOK' /\ Exclusive'
    BY DEF Inv, TypeOK, Exclusive, Uses, Dir
  <2>2. \A c \in Checkers : Ordered(c)'
    BY DEF Inv, Ordered, Uses, Dir, Busy, OnRoute, Point, Supplied
  <2>3. \A c \in Checkers \ shared : Earning(c)'
    BY DEF Inv, Earning, Busy, OwnFiles, OwnText, EarnedVerdict, Here, Dir, Point, Supplied
  <2> QED BY <2>1, <2>2, <2>3 DEF Inv
<1> QED BY <1>3, <1>4 DEF Next, AllOver

LEMMA AlwaysInv == Spec => []Inv
BY InitInv, NextInv, PTL DEF Spec

-----------------------------------------------------------------------------
(* Theorems *)

(* Every variable keeps its form: directories hold the files that mod.rs and   *)
(* supplied.rs name.                                                           *)
THEOREM CheckTypes == Spec => []TypeOK
<1>1. Inv => TypeOK
  BY DEF Inv
<1> QED BY <1>1, AlwaysInv, PTL

(* mod.rs:4-9 and 158: a verdict of a check that shared its directory with no  *)
(* other at the same time is so, whatever earlier checks left there, whichever *)
(* runs were stopped and whatever failed; and a check that returns leaves no   *)
(* Lean, and no directory of its own but after an early error.                 *)
THEOREM VerdictsAreSound == Spec => []ChecksAreSound
<1>1. Inv => ChecksAreSound
  <2> SUFFICES ASSUME Inv PROVE ChecksAreSound
    OBVIOUS
  <2>1. VerdictsAreEarned
    BY DEF VerdictsAreEarned, Inv, Earning, EarnedVerdict
  <2>2. EndsTidy
    <3> SUFFICES ASSUME NEW c \in Checkers, at[c] = "ended"
                 PROVE  /\ tool[c].lean = "gone" /\ ~tool[c].lake
                        /\ files[c].made => verdict[c].is = "error" /\ ~verdict[c].tidy
      BY DEF EndsTidy
    <3>1. Ordered(c)
      BY DEF Inv
    <3>2. tool[c].lean = "gone" /\ ~tool[c].lake
      BY Quiet
    <3> QED BY <3>1, <3>2 DEF Ordered
  <2> QED BY <2>1, <2>2 DEF ChecksAreSound
<1> QED BY <1>1, AlwaysInv, PTL

-----------------------------------------------------------------------------
(* PtxBlock: kernels of blocks of threads and the search over one schedule.    *)

(* A set of numbers has a least one. *)
LEMMA LeastOf ==
    ASSUME NEW S \in SUBSET Nat, S # {}
    PROVE  \E n \in S : \A m \in S : n <= m
<1> DEFINE R == OpToRel(<, Nat)
<1>1. IsWellFoundedOn(R, Nat) BY NatLessThanWellFounded
<1>2. \A x, y \in Nat : x < y => <<x, y>> \in R BY DEF OpToRel
<1> HIDE DEF R
<1>3. PICK x \in S : \A y \in S : ~ (<<y, x>> \in R) BY <1>1, WFMin
<1>4. \A m \in S : x <= m
    <2> TAKE m \in S
    <2>1. ~(<<m, x>> \in R) BY <1>3
    <2>2. ~(m < x) BY <1>2, <2>1
    <2> QED BY <2>2
<1> QED BY <1>4

(* So a set of numbers that has 0 and with each number the next has them all.  *)
LEMMA AllNumbers ==
    ASSUME NEW S, 0 \in S, \A n \in Nat : n \in S => n + 1 \in S
    PROVE  Nat \subseteq S
<1> SUFFICES ASSUME Nat \ S # {} PROVE FALSE OBVIOUS
<1>1. PICK n \in Nat \ S : \A m \in Nat \ S : n <= m BY LeastOf
<1>2. n # 0 /\ n - 1 \in Nat OBVIOUS
<1>3. n - 1 \in S BY <1>1, <1>2
<1>4. (n - 1) + 1 \in S BY <1>2, <1>3
<1> QED BY <1>4

(* What the replay of one choice and of a list of them are, number by number.  *)
TurnIs(k, s, t, n, f) == f = [i \in 0 .. n |-> IF i = 0 THEN s ELSE Stepped(k, f[i - 1], t)]

LEMMA TurnExists ==
    ASSUME NEW k, NEW s, NEW t, NEW n \in Nat
    PROVE  \E f : TurnIs(k, s, t, n, f)
<1> DEFINE Good == {m \in Nat : \E f : TurnIs(k, s, t, m, f)}
<1>1. TurnIs(k, s, t, 0, [i \in 0 .. 0 |-> s]) BY DEF TurnIs
<1>2. ASSUME NEW m \in Nat, NEW f, TurnIs(k, s, t, m, f) PROVE \E g : TurnIs(k, s, t, m + 1, g)
    <2> DEFINE g == [i \in 0 .. m + 1 |-> IF i = m + 1 THEN Stepped(k, f[m], t) ELSE f[i]]
    <2>1. \A i \in 0 .. m : f[i] = IF i = 0 THEN s ELSE Stepped(k, f[i - 1], t) BY <1>2 DEF TurnIs
    <2>2. \A i \in 0 .. m : g[i] = f[i] OBVIOUS
    <2>3. g[m + 1] = Stepped(k, g[m], t) BY <2>2
    <2>4. \A i \in 0 .. m : g[i] = IF i = 0 THEN s ELSE Stepped(k, g[i - 1], t)
        <3> TAKE i \in 0 .. m
        <3>1. i # 0 => i - 1 \in 0 .. m OBVIOUS
        <3> QED BY <2>1, <2>2, <3>1
    <2>5. g = [i \in 0 .. m + 1 |-> g[i]] OBVIOUS
    <2> HIDE DEF g
    <2>6. \A i \in 0 .. m + 1 : g[i] = IF i = 0 THEN s ELSE Stepped(k, g[i - 1], t)
        <3> TAKE i \in 0 .. m + 1
        <3>1. i \in 0 .. m \/ i = m + 1 OBVIOUS
        <3>2. m + 1 # 0 /\ (m + 1) - 1 = m OBVIOUS
        <3> QED BY <2>3, <2>4, <3>1, <3>2
    <2> QED BY <2>5, <2>6 DEF TurnIs
<1>3. Nat \subseteq Good
    <2>1. 0 \in Good BY <1>1
    <2>2. \A m \in Nat : m \in Good => m + 1 \in Good BY <1>2
    <2> HIDE DEF Good
    <2> QED BY <2>1, <2>2, AllNumbers
<1> QED BY <1>3

LEMMA TurnIsOne ==
    ASSUME NEW k, NEW s, NEW t, NEW n \in Nat, NEW m \in Nat, n <= m,
           NEW f, TurnIs(k, s, t, n, f), NEW g, TurnIs(k, s, t, m, g)
    PROVE  \A i \in 0 .. n : f[i] = g[i]
<1> DEFINE Good == {i \in Nat : i <= n => f[i] = g[i]}
<1>1. \A i \in 0 .. n : f[i] = IF i = 0 THEN s ELSE Stepped(k, f[i - 1], t) BY DEF TurnIs
<1>2. \A i \in 0 .. n : g[i] = IF i = 0 THEN s ELSE Stepped(k, g[i - 1], t) BY DEF TurnIs
<1>3. 0 \in Good BY <1>1, <1>2
<1>4. ASSUME NEW i \in Nat, i \in Good PROVE i + 1 \in Good
    <2>1. SUFFICES ASSUME i + 1 <= n PROVE f[i + 1] = g[i + 1] OBVIOUS
    <2>2. i + 1 \in 0 .. n /\ i + 1 # 0 /\ (i + 1) - 1 = i /\ i <= n BY <2>1
    <2>3. f[i] = g[i] BY <1>4, <2>2
    <2> QED BY <1>1, <1>2, <2>2, <2>3
<1> HIDE DEF Good
<1>5. Nat \subseteq Good BY <1>3, <1>4, AllNumbers
<1> QED BY <1>5 DEF Good

LEMMA TurnTaken ==
    ASSUME NEW k, NEW sh, NEW s, NEW t, NEW n \in Nat, NEW f, TurnIs(k, s, t, n, f)
    PROVE  Chosen(k, sh, s, RunThread(t, n)) = f[n]
<1> DEFINE ch == RunThread(t, n)
           after[i \in 0 .. ch.n] == IF i = 0 THEN s ELSE Stepped(k, after[i - 1], ch.t)
<1>1. ch.do # "release" /\ ch.n = n /\ ch.t = t BY DEF RunThread
<1>2. Chosen(k, sh, s, ch) = after[ch.n] BY <1>1 DEF Chosen
<1>3. TurnIs(k, s, t, n, after)
    <2>1. after = CHOOSE g : g = [i \in 0 .. ch.n |-> IF i = 0 THEN s ELSE Stepped(k, g[i - 1], ch.t)]
        OBVIOUS
    <2>2. after = CHOOSE g : TurnIs(k, s, t, n, g) BY <1>1, <2>1 DEF TurnIs
    <2> HIDE DEF after
    <2> QED BY <2>2
<1> HIDE DEF after, ch
<1>4. after[n] = f[n] BY <1>3, TurnIsOne
<1> QED BY <1>1, <1>2, <1>4 DEF ch

(* A thread that has made no step yet, and one that makes the next.            *)
LEMMA TurnBegins ==
    ASSUME NEW k, NEW sh, NEW s, NEW t
    PROVE  Chosen(k, sh, s, RunThread(t, 0)) = s
<1>1. PICK f : TurnIs(k, s, t, 0, f) BY TurnExists
<1>2. f[0] = s BY <1>1 DEF TurnIs
<1> QED BY <1>1, <1>2, TurnTaken

LEMMA TurnGoesOn ==
    ASSUME NEW k, NEW sh, NEW s, NEW t, NEW n \in Nat
    PROVE  Chosen(k, sh, s, RunThread(t, n + 1)) = Stepped(k, Chosen(k, sh, s, RunThread(t, n)), t)
<1>1. PICK f : TurnIs(k, s, t, n, f) BY TurnExists
<1>2. PICK g : TurnIs(k, s, t, n + 1, g) BY TurnExists
<1>3. f[n] = g[n] BY <1>1, <1>2, TurnIsOne
<1>4. n + 1 \in 0 .. n + 1 /\ n + 1 # 0 /\ (n + 1) - 1 = n OBVIOUS
<1>5. g[n + 1] = Stepped(k, g[n], t) BY <1>2, <1>4 DEF TurnIs
<1> QED BY <1>1, <1>2, <1>3, <1>5, TurnTaken

ReplayIs(k, sh, cs, n, f) ==
    f = [i \in 0 .. n |-> IF i = 0 THEN Begun(sh) ELSE Chosen(k, sh, f[i - 1], cs[i])]

LEMMA ReplayExists ==
    ASSUME NEW k, NEW sh, NEW cs, NEW n \in Nat
    PROVE  \E f : ReplayIs(k, sh, cs, n, f)
<1> DEFINE Good == {m \in Nat : \E f : ReplayIs(k, sh, cs, m, f)}
<1>1. ReplayIs(k, sh, cs, 0, [i \in 0 .. 0 |-> Begun(sh)]) BY DEF ReplayIs
<1>2. ASSUME NEW m \in Nat, NEW f, ReplayIs(k, sh, cs, m, f) PROVE \E g : ReplayIs(k, sh, cs, m + 1, g)
    <2> DEFINE g == [i \in 0 .. m + 1 |-> IF i = m + 1 THEN Chosen(k, sh, f[m], cs[m + 1]) ELSE f[i]]
    <2>1. \A i \in 0 .. m : f[i] = IF i = 0 THEN Begun(sh) ELSE Chosen(k, sh, f[i - 1], cs[i])
        BY <1>2 DEF ReplayIs
    <2>2. \A i \in 0 .. m : g[i] = f[i] OBVIOUS
    <2>3. g[m + 1] = Chosen(k, sh, g[m], cs[m + 1]) BY <2>2
    <2>4. \A i \in 0 .. m : g[i] = IF i = 0 THEN Begun(sh) ELSE Chosen(k, sh, g[i - 1], cs[i])
        <3> TAKE i \in 0 .. m
        <3>1. i # 0 => i - 1 \in 0 .. m OBVIOUS
        <3> QED BY <2>1, <2>2, <3>1
    <2>5. g = [i \in 0 .. m + 1 |-> g[i]] OBVIOUS
    <2> HIDE DEF g
    <2>6. \A i \in 0 .. m + 1 : g[i] = IF i = 0 THEN Begun(sh) ELSE Chosen(k, sh, g[i - 1], cs[i])
        <3> TAKE i \in 0 .. m + 1
        <3>1. i \in 0 .. m \/ i = m + 1 OBVIOUS
        <3>2. m + 1 # 0 /\ (m + 1) - 1 = m OBVIOUS
        <3> QED BY <2>3, <2>4, <3>1, <3>2
    <2> QED BY <2>5, <2>6 DEF ReplayIs
<1>3. Nat \subseteq Good
    <2>1. 0 \in Good BY <1>1
    <2>2. \A m \in Nat : m \in Good => m + 1 \in Good BY <1>2
    <2> HIDE DEF Good
    <2> QED BY <2>1, <2>2, AllNumbers
<1> QED BY <1>3

(* The replay of a list looks at its first choices before the others.          *)
LEMMA ReplayIsOne ==
    ASSUME NEW k, NEW sh, NEW cs, NEW ds, NEW n \in Nat, NEW m \in Nat, n <= m,
           \A i \in 1 .. n : cs[i] = ds[i],
           NEW f, ReplayIs(k, sh, cs, n, f), NEW g, ReplayIs(k, sh, ds, m, g)
    PROVE  \A i \in 0 .. n : f[i] = g[i]
<1> DEFINE Good == {i \in Nat : i <= n => f[i] = g[i]}
<1>1. \A i \in 0 .. n : f[i] = IF i = 0 THEN Begun(sh) ELSE Chosen(k, sh, f[i - 1], cs[i]) BY DEF ReplayIs
<1>2. \A i \in 0 .. n : g[i] = IF i = 0 THEN Begun(sh) ELSE Chosen(k, sh, g[i - 1], ds[i]) BY DEF ReplayIs
<1>3. 0 \in Good BY <1>1, <1>2
<1>4. ASSUME NEW i \in Nat, i \in Good PROVE i + 1 \in Good
    <2>1. SUFFICES ASSUME i + 1 <= n PROVE f[i + 1] = g[i + 1] OBVIOUS
    <2>2. i + 1 \in 0 .. n /\ i + 1 # 0 /\ (i + 1) - 1 = i /\ i <= n /\ i + 1 \in 1 .. n BY <2>1
    <2>3. f[i] = g[i] /\ cs[i + 1] = ds[i + 1] BY <1>4, <2>2
    <2> QED BY <1>1, <1>2, <2>2, <2>3
<1> HIDE DEF Good
<1>5. Nat \subseteq Good BY <1>3, <1>4, AllNumbers
<1> QED BY <1>5 DEF Good

LEMMA ExecIs ==
    ASSUME NEW k, NEW sh, NEW cs, Len(cs) \in Nat, NEW f, ReplayIs(k, sh, cs, Len(cs), f)
    PROVE  Exec(k, sh, cs) = f[Len(cs)]
<1> DEFINE after[i \in 0 .. Len(cs)] == IF i = 0 THEN Begun(sh) ELSE Chosen(k, sh, after[i - 1], cs[i])
<1>1. Exec(k, sh, cs) = after[Len(cs)] BY DEF Exec
<1>2. ReplayIs(k, sh, cs, Len(cs), after)
    <2>1. after = CHOOSE g : g = [i \in 0 .. Len(cs) |-> IF i = 0 THEN Begun(sh) ELSE Chosen(k, sh, g[i - 1], cs[i])]
        OBVIOUS
    <2>2. after = CHOOSE g : ReplayIs(k, sh, cs, Len(cs), g) BY <2>1 DEF ReplayIs
    <2> HIDE DEF after
    <2> QED BY <2>2
<1> HIDE DEF after
<1>3. after[Len(cs)] = f[Len(cs)] BY <1>2, ReplayIsOne
<1> QED BY <1>1, <1>3

LEMMA ExecNothing ==
    ASSUME NEW k, NEW sh
    PROVE  Exec(k, sh, << >>) = Begun(sh)
<1>1. PICK f : ReplayIs(k, sh, << >>, 0, f) BY ReplayExists
<1>2. f[0] = Begun(sh) BY <1>1 DEF ReplayIs
<1>3. Len(<< >>) = 0 OBVIOUS
<1> QED BY <1>1, <1>2, <1>3, ExecIs

LEMMA ExecOneMore ==
    ASSUME NEW k, NEW sh, NEW S, NEW cs \in Seq(S), NEW ch \in S
    PROVE  Exec(k, sh, Append(cs, ch)) = Chosen(k, sh, Exec(k, sh, cs), ch)
<1>1. PICK n \in Nat : n = Len(cs) OBVIOUS
<1>2. PICK m \in Nat : m = n + 1 OBVIOUS
<1>3. PICK ds : ds = Append(cs, ch) OBVIOUS
<1>4. n <= m /\ Len(ds) = m /\ ds[m] = ch /\ \A i \in 1 .. n : cs[i] = ds[i] BY <1>1, <1>2, <1>3
<1>5. PICK f : ReplayIs(k, sh, cs, n, f) BY ReplayExists
<1>6. PICK g : ReplayIs(k, sh, ds, m, g) BY ReplayExists
<1>7. \A i \in 0 .. n : f[i] = g[i] BY <1>4, <1>5, <1>6, ReplayIsOne
<1>8. m \in 0 .. m /\ m # 0 /\ m - 1 = n /\ n \in 0 .. n BY <1>2
<1>9. g[m] = Chosen(k, sh, g[n], ch) BY <1>4, <1>6, <1>8 DEF ReplayIs
<1>10. Exec(k, sh, cs) = f[n] BY <1>1, <1>5, ExecIs
<1>11. Exec(k, sh, ds) = g[m] BY <1>4, <1>6, ExecIs
<1>12. f[n] = g[n] BY <1>7, <1>8
<1> QED BY <1>3, <1>9, <1>10, <1>11, <1>12

(* What kernels, launches and their configurations are.                        *)
Thread == [pc : Nat \ {0}, r : Numbers]
Cfgs(sh) == [ts : [Threads(sh) -> Thread], mem : [Words(sh) -> Numbers],
             ph : [0 .. sh.grid - 1 -> Nat]]
Accesses == [kind : {"read", "write", "atomic"}, by : Atoms \cup {"none"},
             sp : {"global", "shared"}, addr : Nat]

(* What an atomic makes of a value is a value, and one operation of red on two *)
(* operands makes the same of it in either order.                              *)
LEMMA AtomValIs ==
    ASSUME NEW by \in Atoms, NEW v \in Numbers, NEW b \in Numbers
    PROVE  AtomVal(by, v, b) \in Numbers
<1>1. Modulus \in Nat BY LaunchesAssumption
<1>2. v \in Nat /\ b \in Nat /\ v < Modulus /\ b < Modulus BY <1>1 DEF Numbers
<1>3. CASE by = "add"
    <2>1. AtomVal(by, v, b) = IF v + b < Modulus THEN v + b ELSE v + b - Modulus BY <1>3 DEF AtomVal
    <2> QED BY <1>1, <1>2, <2>1 DEF Numbers
<1>4. CASE by \in {"min", "max", "smin", "smax", "exch", "cas"}
    <2>1. AtomVal(by, v, b) = v \/ AtomVal(by, v, b) = b BY <1>4 DEF AtomVal
    <2> QED BY <2>1
<1>5. CASE by \in {"and", "or", "xor"}
    <2>1. AtomVal(by, v, b) = Bits(by, v, b) BY <1>5 DEF AtomVal
    <2> QED BY <1>5, <2>1, BitsAssumption
<1> QED BY <1>3, <1>4, <1>5 DEF Atoms, Reds

LEMMA AtomValsCommute ==
    ASSUME NEW by \in Reds, NEW v \in Numbers, NEW b \in Numbers, NEW c \in Numbers
    PROVE  AtomVal(by, AtomVal(by, v, b), c) = AtomVal(by, AtomVal(by, v, c), b)
<1>1. Modulus \in Nat BY LaunchesAssumption
<1>2. /\ v \in Nat /\ b \in Nat /\ c \in Nat
      /\ v < Modulus /\ b < Modulus /\ c < Modulus
    BY <1>1 DEF Numbers
<1>3. CASE by = "add"
    <2>1. \A x, y \in Numbers : AtomVal(by, x, y) = IF x + y < Modulus THEN x + y ELSE x + y - Modulus
        BY <1>3 DEF AtomVal
    <2>2. AtomVal(by, v, b) \in Numbers /\ AtomVal(by, v, c) \in Numbers BY <1>3, AtomValIs DEF Atoms
    <2> QED BY <1>1, <1>2, <2>1, <2>2 DEF Numbers
<1>4. CASE by = "min"
    <2>1. \A x, y : AtomVal(by, x, y) = IF x <= y THEN x ELSE y BY <1>4 DEF AtomVal
    <2> QED BY <1>2, <2>1
<1>5. CASE by = "max"
    <2>1. \A x, y : AtomVal(by, x, y) = IF y <= x THEN x ELSE y BY <1>5 DEF AtomVal
    <2> QED BY <1>2, <2>1
<1>6. /\ Signed(v) \in Int /\ Signed(b) \in Int /\ Signed(c) \in Int
      /\ Signed(v) = Signed(b) => v = b
      /\ Signed(v) = Signed(c) => v = c
      /\ Signed(b) = Signed(c) => b = c
    <2>1. \A x, y \in Numbers : Signed(x) \in Int /\ (Signed(x) = Signed(y) => x = y)
        BY <1>1 DEF Numbers, Signed
    <2> QED BY <2>1
<1>7. CASE by = "smin"
    <2>1. \A x, y : AtomVal(by, x, y) = IF Signed(x) <= Signed(y) THEN x ELSE y BY <1>7 DEF AtomVal
    <2> QED BY <1>6, <2>1
<1>8. CASE by = "smax"
    <2>1. \A x, y : AtomVal(by, x, y) = IF Signed(y) <= Signed(x) THEN x ELSE y BY <1>8 DEF AtomVal
    <2> QED BY <1>6, <2>1
<1>9. CASE by \in {"and", "or", "xor"}
    <2>1. \A x, y : AtomVal(by, x, y) = Bits(by, x, y) BY <1>9 DEF AtomVal
    <2>2. Bits(by, Bits(by, v, b), c) = Bits(by, Bits(by, v, c), b) BY <1>9, BitsAssumption
    <2> QED BY <2>1, <2>2
<1> QED BY <1>3, <1>4, <1>5, <1>7, <1>8, <1>9 DEF Reds

(* An access leaves a value in its word.                                       *)
LEMMA WrittenIs ==
    ASSUME NEW sh \in Shapes, NEW t \in (0 .. sh.grid - 1) \X (0 .. sh.block - 1), NEW x \in Thread,
           NEW a \in Accesses, a.kind = "atomic" => a.by \in Atoms, NEW v \in Numbers
    PROVE  Operand(t, x) \in Numbers /\ Written(t, x, a, v) \in Numbers /\ 0 \in Numbers
<1>1. Modulus \in Nat \ {0} /\ 0 \in Numbers BY LaunchesAssumption DEF Numbers
<1>2. \A n \in Nat : n % Modulus \in Numbers BY <1>1 DEF Numbers
<1>3. t[1] \in Nat /\ t[2] \in Nat BY LaunchesAssumption
<1>4. x.r \in Nat BY <1>1 DEF Thread, Numbers
<1>5. x.r + 2 * t[2] + Cta(t) + 1 \in Nat BY <1>3, <1>4 DEF Cta
<1>6. Operand(t, x) \in Numbers BY <1>2, <1>5 DEF Operand
<1>7. a.kind \in {"read", "write", "atomic"} BY DEF Accesses
<1> HIDE DEF Numbers
<1>8. Written(t, x, a, v) \in Numbers BY <1>6, <1>7, AtomValIs DEF Written
<1> QED BY <1>1, <1>6, <1>8

LEMMA ThreadIs ==
    ASSUME NEW sh \in Shapes, NEW t \in Threads(sh)
    PROVE  /\ t[1] \in Nat /\ t[2] \in Nat /\ t = <<t[1], t[2]>>
           /\ Cta(t) = t[1] /\ t[1] \in 0 .. sh.grid - 1 /\ t[2] \in 0 .. sh.block - 1
           /\ sh.grid \in Nat \ {0} /\ sh.block \in Nat \ {0}
BY LaunchesAssumption DEF Threads, Cta

LEMMA InstrIs ==
    ASSUME NEW k \in Bodies, NEW x \in Thread
    PROVE  /\ Len(k) \in Nat /\ DOMAIN k = 1 .. Len(k)
           /\ x.pc > Len(k) => Instr(k, x) = [op |-> "ret", guard |-> "always"]
           /\ x.pc <= Len(k) => x.pc \in 1 .. Len(k) /\ Instr(k, x) = k[x.pc] /\ Instr(k, x) \in Instrs
<1>1. k \in Seq(Instrs) BY LaunchesAssumption
<1>2. Len(k) \in Nat /\ DOMAIN k = 1 .. Len(k) BY <1>1
<1>3. x.pc \in Nat \ {0} BY DEF Thread
<1>4. \A i \in 1 .. Len(k) : k[i] \in Instrs BY <1>1
<1> QED BY <1>2, <1>3, <1>4 DEF Instr

LEMMA PendingIs ==
    ASSUME NEW sh \in Shapes, NEW k \in Bodies, NEW t \in Threads(sh), NEW x \in Thread,
           Pending(k, t, x) # NoAccess
    PROVE  /\ Pending(k, t, x) \in Accesses /\ x.pc <= Len(k)
           /\ Pending(k, t, x).kind = Kind(Instr(k, x))
           /\ Taken(k, t, x) /\ Instr(k, x).op \in {"ld", "st", "red", "atom"}
           /\ Pending(k, t, x).kind = "atomic" => Pending(k, t, x).by \in Atoms
           /\ Pending(k, t, x).kind = "atomic" /\ Instr(k, x).op # "atom" => Pending(k, t, x).by \in Reds
<1> DEFINE i == Instr(k, x)
<1>1. Taken(k, t, x) /\ i.op \notin {"bar", "ret"} BY DEF Pending
<1>2. Pending(k, t, x) = [kind |-> Kind(i), by |-> i.by, sp |-> i.sp, addr |-> Addr(i, t)] BY <1>1 DEF Pending
<1>3. x.pc <= Len(k)
    <2> SUFFICES ASSUME ~(x.pc <= Len(k)) PROVE FALSE OBVIOUS
    <2>1. x.pc > Len(k) BY InstrIs DEF Thread
    <2>2. i = [op |-> "ret", guard |-> "always"] BY <2>1, InstrIs
    <2>3. i.op = "ret" BY <2>2
    <2> QED BY <1>1, <2>3
<1>4. i \in Instrs BY <1>3, InstrIs
<1>5. i \in Accessing({"ld", "st"}, {"none"}) \cup Accessing({"red"}, Reds) \cup Accessing({"atom"}, Atoms)
    BY <1>1, <1>4 DEF Instrs
<1>6. /\ i.op \in {"ld", "st", "red", "atom"} /\ i.sp \in {"global", "shared"}
      /\ \/ i.op \in {"ld", "st"} /\ i.by = "none"
         \/ i.op = "red" /\ i.by \in Reds
         \/ i.op = "atom" /\ i.by \in Atoms
    BY <1>5 DEF Accessing
<1> HIDE DEF i
<1>7. t[2] \in Nat /\ Cells \in Nat BY ThreadIs, LaunchesAssumption
<1>8. Addr(i, t) \in Nat BY <1>7 DEF Addr
<1>9. Kind(i) \in {"read", "write", "atomic"} BY DEF Kind
<1>13. Reds \subseteq Atoms BY DEF Atoms
<1>10. [kind |-> Kind(i), by |-> i.by, sp |-> i.sp, addr |-> Addr(i, t)] \in Accesses BY <1>6, <1>8, <1>9, <1>13 DEF Accesses
<1>11. Pending(k, t, x).kind = Kind(i) /\ Pending(k, t, x).by = i.by BY <1>2
<1>12. Kind(i) = "atomic" => i.op \notin {"ld", "st"} BY DEF Kind
<1> QED BY <1>1, <1>2, <1>3, <1>6, <1>10, <1>11, <1>12, <1>13 DEF i

(* How a thread ends a step, from what it is about to do.                      *)
LEMMA EndIs ==
    ASSUME NEW sh \in Shapes, NEW k \in Bodies, NEW t \in Threads(sh), NEW x \in Thread
    PROVE  /\ End(k, t, x) \in {"ok", "wait", "halted", "fault"}
           /\ End(k, t, x) # "halted" => x.pc <= Len(k)
           /\ End(k, t, x) \in {"wait", "halted"} => Pending(k, t, x) = NoAccess
           /\ End(k, t, x) = "ok" /\ Pending(k, t, x) # NoAccess =>
                Pending(k, t, x).addr \in 0 .. Cells - 1
<1> DEFINE i == Instr(k, x)
<1>1. End(k, t, x) \in {"ok", "wait", "halted", "fault"} BY DEF End
<1>2. ASSUME ~(x.pc <= Len(k)) PROVE End(k, t, x) = "halted"
    <2>1. x.pc > Len(k) BY <1>2, InstrIs DEF Thread
    <2>2. i = [op |-> "ret", guard |-> "always"] BY <2>1, InstrIs
    <2>3. i.op = "ret" /\ i.guard = "always" BY <2>2
    <2>4. Taken(k, t, x) BY <2>3 DEF Taken
    <2>5. Pending(k, t, x) = NoAccess BY <2>3 DEF Pending
    <2> QED BY <2>3, <2>4, <2>5 DEF End
<1>3. ASSUME End(k, t, x) \in {"wait", "halted"} PROVE Pending(k, t, x) = NoAccess
    <2>1. i.op \in {"bar", "ret"} BY <1>3 DEF End
    <2> QED BY <2>1 DEF Pending
<1>4. ASSUME End(k, t, x) = "ok", Pending(k, t, x) # NoAccess PROVE Pending(k, t, x).addr \in 0 .. Cells - 1
    BY <1>4 DEF End
<1> QED BY <1>1, <1>2, <1>3, <1>4

LEMMA WordIs ==
    ASSUME NEW sh \in Shapes, NEW t \in Threads(sh), NEW a \in Accesses
    PROVE  /\ Word(t, a) = <<a.sp, IF a.sp = "shared" THEN Cta(t) ELSE 0, a.addr>>
           /\ a.addr \in 0 .. Cells - 1 => Word(t, a) \in Words(sh)
<1>1. a.sp \in {"global", "shared"} BY DEF Accesses
<1>2. t[1] \in 0 .. sh.grid - 1 /\ 0 \in 0 .. sh.grid - 1 /\ Cta(t) = t[1] BY ThreadIs
<1> QED BY <1>1, <1>2 DEF Word, Words

(* The next configuration, when a thread steps and when a barrier is released. *)
Reads(k, t, x) == Pending(k, t, x) # NoAccess /\ Instr(k, x).op \in {"ld", "atom"}

LEMMA MovedIs ==
    ASSUME NEW sh \in Shapes, NEW k \in Bodies, NEW c \in Cfgs(sh), NEW t \in Threads(sh),
           Ends(k, c, t) = "ok"
    PROVE  LET x == c.ts[t]
               a == Pending(k, t, x)
               d == Moved(k, c, t)
               w == Word(t, a)
           IN  /\ d \in Cfgs(sh) /\ d.ph = c.ph
               /\ \A u \in Threads(sh) : u # t => d.ts[u] = c.ts[u]
               /\ d.ts[t].pc = x.pc + 1
               /\ ~Reads(k, t, x) => d.ts[t].r = x.r
               /\ Reads(k, t, x) => d.ts[t].r = c.mem[w]
               /\ a = NoAccess => d.mem = c.mem
               /\ a # NoAccess => /\ a \in Accesses /\ w \in Words(sh)
                                  /\ d.mem[w] = Written(t, x, a, c.mem[w])
                                  /\ \A v \in Words(sh) : v # w => d.mem[v] = c.mem[v]
<1> DEFINE x == c.ts[t]
           a == Pending(k, t, x)
           d == Moved(k, c, t)
           w == Word(t, a)
<1>1. /\ c.ts \in [Threads(sh) -> Thread] /\ c.mem \in [Words(sh) -> Numbers]
      /\ c.ph \in [0 .. sh.grid - 1 -> Nat] /\ c = [ts |-> c.ts, mem |-> c.mem, ph |-> c.ph]
    BY DEF Cfgs
<1>2. x \in Thread /\ x.pc \in Nat \ {0} /\ x.r \in Numbers BY <1>1 DEF Thread
<1>3. End(k, t, x) = "ok" BY DEF Ends
<1>4. CASE a = NoAccess
    <2>2. d = [ts |-> [c.ts EXCEPT ![t] = [pc |-> x.pc + 1, r |-> x.r]], mem |-> c.mem, ph |-> c.ph]
        BY <1>4 DEF Moved
    <2>3. [pc |-> x.pc + 1, r |-> x.r] \in Thread BY <1>2 DEF Thread
    <2>4. ~Reads(k, t, x) BY <1>4 DEF Reads
    <2> HIDE DEF x, d
    <2>5. d.ts = [c.ts EXCEPT ![t] = [pc |-> x.pc + 1, r |-> x.r]] /\ d.mem = c.mem /\ d.ph = c.ph BY <2>2
    <2>6. d.ts \in [Threads(sh) -> Thread] BY <1>1, <2>3, <2>5
    <2>7. d \in Cfgs(sh) BY <1>1, <2>2, <2>5, <2>6 DEF Cfgs
    <2>8. d.ts[t] = [pc |-> x.pc + 1, r |-> x.r] BY <1>1, <2>5
    <2>9. \A u \in Threads(sh) : u # t => d.ts[u] = c.ts[u] BY <1>1, <2>5
    <2> QED BY <1>4, <2>4, <2>5, <2>7, <2>8, <2>9 DEF x, d
<1>5. CASE a # NoAccess
    <2> DEFINE y == [pc |-> x.pc + 1, r |-> IF Instr(k, x).op \in {"ld", "atom"} THEN c.mem[w] ELSE x.r]
               v == Written(t, x, a, c.mem[w])
    <2>2. d = [ts |-> [c.ts EXCEPT ![t] = y], mem |-> [c.mem EXCEPT ![w] = v], ph |-> c.ph]
        BY <1>5 DEF Moved
    <2>3. a \in Accesses BY <1>2, <1>5, PendingIs
    <2>4. w \in Words(sh) BY <1>2, <1>3, <1>5, <2>3, EndIs, WordIs
    <2>5. c.mem[w] \in Numbers BY <1>1, <2>4
    <2>6. v \in Numbers
        <3>1. a.kind = "atomic" => a.by \in Atoms BY <1>2, <1>5, PendingIs
        <3>2. t \in (0 .. sh.grid - 1) \X (0 .. sh.block - 1) BY DEF Threads
        <3> QED BY <1>2, <2>3, <2>5, <3>1, <3>2, WrittenIs
    <2>7. y \in Thread BY <1>2, <2>5 DEF Thread
    <2>8. y.pc = x.pc + 1 /\ y.r = IF Reads(k, t, x) THEN c.mem[w] ELSE x.r BY <1>5 DEF Reads
    <2> HIDE DEF x, d, y, a, w, v
    <2>9. d.ts = [c.ts EXCEPT ![t] = y] /\ d.mem = [c.mem EXCEPT ![w] = v] /\ d.ph = c.ph BY <2>2
    <2>10. d.ts \in [Threads(sh) -> Thread] /\ d.mem \in [Words(sh) -> Numbers] BY <1>1, <2>4, <2>6, <2>7, <2>9
    <2>11. d \in Cfgs(sh) BY <1>1, <2>2, <2>9, <2>10 DEF Cfgs
    <2>12. d.ts[t] = y /\ \A u \in Threads(sh) : u # t => d.ts[u] = c.ts[u] BY <1>1, <2>9
    <2>13. d.mem[w] = v /\ \A z \in Words(sh) : z # w => d.mem[z] = c.mem[z] BY <1>1, <2>4, <2>9
    <2> QED BY <1>5, <2>3, <2>4, <2>8, <2>9, <2>11, <2>12, <2>13 DEF x, d, a, w, v
<1> QED BY <1>4, <1>5

LEMMA ReleasedIs ==
    ASSUME NEW sh \in Shapes, NEW c \in Cfgs(sh), NEW b \in 0 .. sh.grid - 1
    PROVE  LET d == Released(sh, c, b)
           IN  /\ d \in Cfgs(sh) /\ d.mem = c.mem
               /\ \A t \in Threads(sh) : IF Cta(t) = b
                                         THEN d.ts[t].pc = c.ts[t].pc + 1 /\ d.ts[t].r = c.ts[t].r
                                         ELSE d.ts[t] = c.ts[t]
               /\ d.ph[b] = c.ph[b] + 1 /\ \A e \in 0 .. sh.grid - 1 : e # b => d.ph[e] = c.ph[e]
<1> DEFINE d == Released(sh, c, b)
           ts == [t \in Threads(sh) |-> IF Cta(t) = b THEN [pc |-> c.ts[t].pc + 1, r |-> c.ts[t].r]
                                        ELSE c.ts[t]]
<1>1. /\ c.ts \in [Threads(sh) -> Thread] /\ c.mem \in [Words(sh) -> Numbers]
      /\ c.ph \in [0 .. sh.grid - 1 -> Nat] /\ c = [ts |-> c.ts, mem |-> c.mem, ph |-> c.ph]
    BY DEF Cfgs
<1>2. d = [ts |-> ts, mem |-> c.mem, ph |-> [c.ph EXCEPT ![b] = c.ph[b] + 1]] BY <1>1 DEF Released
<1>3. \A t \in Threads(sh) : ts[t] \in Thread BY <1>1 DEF Thread
<1>4. ts \in [Threads(sh) -> Thread] BY <1>3
<1>5. \A t \in Threads(sh) : IF Cta(t) = b THEN ts[t].pc = c.ts[t].pc + 1 /\ ts[t].r = c.ts[t].r
                             ELSE ts[t] = c.ts[t]
    OBVIOUS
<1> HIDE DEF d, ts
<1>6. d.ts = ts /\ d.mem = c.mem /\ d.ph = [c.ph EXCEPT ![b] = c.ph[b] + 1] BY <1>2
<1>7. d.ph \in [0 .. sh.grid - 1 -> Nat]
    <2>1. c.ph[b] \in Nat BY <1>1
    <2>2. c.ph[b] + 1 \in Nat BY <2>1
    <2> QED BY <1>1, <1>6, <2>2
<1>8. d \in Cfgs(sh) BY <1>1, <1>2, <1>4, <1>6, <1>7 DEF Cfgs
<1>9. d.ph[b] = c.ph[b] + 1 /\ \A e \in 0 .. sh.grid - 1 : e # b => d.ph[e] = c.ph[e] BY <1>1, <1>6
<1> QED BY <1>5, <1>6, <1>8, <1>9 DEF d

LEMMA LaunchedIs ==
    ASSUME NEW sh \in Shapes
    PROVE  /\ Launched(sh) \in Cfgs(sh)
           /\ \A t \in Threads(sh) : Launched(sh).ts[t].pc = 1 /\ Launched(sh).ts[t].r = 0
           /\ \A w \in Words(sh) : Launched(sh).mem[w] = 0
           /\ \A b \in 0 .. sh.grid - 1 : Launched(sh).ph[b] = 0
<1>1. [pc |-> 1, r |-> 0] \in Thread /\ 0 \in Numbers BY LaunchesAssumption DEF Thread, Numbers
<1> QED BY <1>1 DEF Launched, Cfgs

-----------------------------------------------------------------------------
(* The search. Its record, and how far its threads are.                        *)
Events(sh) == [t : Threads(sh), phase : Nat, access : Accesses, prefix : Nat, within : Nat]
Choices(sh) == [do : {"run"}, t : Threads(sh), n : Nat] \cup [do : {"release"}, b : 0 .. sh.grid - 1]
Searches(sh) ==
    [cfg : Cfgs(sh), events : Seq(Events(sh)), choices : Seq(Choices(sh)),
     cta : Nat, turn : 0 .. sh.block, within : Nat, end : {"running", "fault", "done"}]

SearchTypes ==
    /\ kernel \in Bodies /\ shape \in Shapes /\ run \in Searches(shape)
    /\ run.end = "running" => run.cta \in 0 .. shape.grid - 1

Stopped(t) == Ends(kernel, run.cfg, t) \in {"wait", "halted"}
SearchTurns ==
    /\ run.turn = shape.block => run.within = 0
    /\ run.end # "running" => run.within = 0
    /\ run.end # "fault" =>
         \A t \in Threads(shape) :
             /\ Cta(t) < run.cta => Ends(kernel, run.cfg, t) = "halted"
             /\ Cta(t) = run.cta /\ t[2] < run.turn => Stopped(t)
    /\ run.end = "done" => run.cta = shape.grid
    /\ run.end = "fault" => Faults(kernel, shape, run.cfg)

LEMMA SearchFields ==
    ASSUME SearchTypes
    PROVE  /\ run.cfg \in Cfgs(shape) /\ run.events \in Seq(Events(shape))
           /\ run.choices \in Seq(Choices(shape)) /\ run.cta \in Nat /\ run.turn \in 0 .. shape.block
           /\ run.within \in Nat /\ run.end \in {"running", "fault", "done"}
           /\ shape.grid \in Nat \ {0} /\ shape.block \in Nat \ {0}
           /\ run = [cfg |-> run.cfg, events |-> run.events, choices |-> run.choices,
                     cta |-> run.cta, turn |-> run.turn, within |-> run.within, end |-> run.end]
BY LaunchesAssumption DEF SearchTypes, Searches

LEMMA TurnIsThread ==
    ASSUME SearchTypes, InTurn
    PROVE  Turn \in Threads(shape) /\ Cta(Turn) = run.cta /\ Turn[1] = run.cta /\ Turn[2] = run.turn
<1>1. run.cta \in 0 .. shape.grid - 1 BY DEF SearchTypes, InTurn
<1>2. run.turn \in 0 .. shape.block - 1 BY SearchFields DEF InTurn
<1> QED BY <1>1, <1>2 DEF Turn, Threads, Cta

(* The parts of the search that each step changes.                             *)
LEMMA AdvanceIs ==
    ASSUME SearchTypes, Advance
    PROVE  LET a == Pending(kernel, Turn, run.cfg.ts[Turn])
               e == [t |-> Turn, phase |-> run.cfg.ph[run.cta], access |-> a,
                     prefix |-> Len(run.choices), within |-> run.within]
           IN  /\ run'.cfg = Moved(kernel, run.cfg, Turn) /\ run'.within = run.within + 1
               /\ run'.events = IF a = NoAccess THEN run.events ELSE Append(run.events, e)
               /\ run'.choices = run.choices /\ run'.cta = run.cta /\ run'.turn = run.turn
               /\ run'.end = run.end /\ run.end = "running" /\ run.turn < shape.block
               /\ Turn \in Threads(shape) /\ Ends(kernel, run.cfg, Turn) = "ok"
               /\ a # NoAccess => a \in Accesses /\ e \in Events(shape)
               /\ run' \in Searches(shape) /\ UNCHANGED <<kernel, shape, cfg>>
<1> DEFINE a == Pending(kernel, Turn, run.cfg.ts[Turn])
           e == [t |-> Turn, phase |-> run.cfg.ph[run.cta], access |-> a,
                 prefix |-> Len(run.choices), within |-> run.within]
           evs == IF a = NoAccess THEN run.events ELSE Append(run.events, e)
<1>1. /\ InTurn /\ Ends(kernel, run.cfg, Turn) = "ok" /\ UNCHANGED <<kernel, shape, cfg>>
      /\ run' = [run EXCEPT !.cfg = Moved(kernel, @, Turn), !.within = @ + 1, !.events = evs]
    BY DEF Advance
<1>2. kernel \in Bodies /\ shape \in Shapes BY DEF SearchTypes
<1>3. Turn \in Threads(shape) /\ Turn[1] = run.cta BY <1>1, TurnIsThread
<1>4. Moved(kernel, run.cfg, Turn) \in Cfgs(shape) BY <1>1, <1>2, <1>3, SearchFields, MovedIs
<1>5. run.cfg.ts[Turn] \in Thread BY <1>3, SearchFields DEF Cfgs
<1>6. run.cfg.ph[run.cta] \in Nat /\ Len(run.choices) \in Nat
    <2>1. run.cta \in 0 .. shape.grid - 1 BY <1>1 DEF SearchTypes, InTurn
    <2> QED BY <2>1, SearchFields DEF Cfgs
<1>7. ASSUME a # NoAccess PROVE a \in Accesses /\ e \in Events(shape)
    <2>1. a \in Accesses BY <1>2, <1>3, <1>5, <1>7, PendingIs
    <2> HIDE DEF a
    <2> QED BY <1>3, <1>6, <2>1, SearchFields DEF Events
<1> HIDE DEF a, e
<1>8. evs \in Seq(Events(shape)) BY <1>7, SearchFields
<1> HIDE DEF evs
<1>9. run' = [cfg |-> Moved(kernel, run.cfg, Turn), events |-> evs, choices |-> run.choices,
              cta |-> run.cta, turn |-> run.turn, within |-> run.within + 1, end |-> run.end]
    BY <1>1, SearchFields
<1>10. run' \in Searches(shape) BY <1>4, <1>8, <1>9, SearchFields DEF Searches
<1> QED BY <1>1, <1>3, <1>7, <1>9, <1>10 DEF a, e, evs, InTurn

LEMMA EndTurnIs ==
    ASSUME SearchTypes, EndTurn
    PROVE  LET ch == RunThread(Turn, run.within)
           IN  /\ run'.cfg = run.cfg /\ run'.within = 0 /\ run'.events = run.events
               /\ run'.choices = Append(run.choices, ch) /\ ch \in Choices(shape)
               /\ run'.cta = run.cta /\ run'.turn = run.turn + 1
               /\ run'.end = IF Ends(kernel, run.cfg, Turn) = "fault" THEN "fault" ELSE "running"
               /\ run.end = "running" /\ run.turn < shape.block
               /\ Turn \in Threads(shape) /\ Ends(kernel, run.cfg, Turn) # "ok"
               /\ run' \in Searches(shape) /\ UNCHANGED <<kernel, shape, cfg>>
<1> DEFINE ch == RunThread(Turn, run.within)
           end == IF Ends(kernel, run.cfg, Turn) = "fault" THEN "fault" ELSE run.end
<1>1. /\ InTurn /\ Ends(kernel, run.cfg, Turn) # "ok" /\ UNCHANGED <<kernel, shape, cfg>>
      /\ run' = [run EXCEPT !.choices = Append(@, ch), !.turn = @ + 1, !.within = 0, !.end = end]
    BY DEF EndTurn
<1>2. Turn \in Threads(shape) BY <1>1, TurnIsThread
<1>3. ch \in Choices(shape) BY <1>2, SearchFields DEF RunThread, Choices
<1>4. end \in {"running", "fault"} /\ run.end = "running" /\ run.turn < shape.block BY <1>1 DEF InTurn
<1> HIDE DEF ch, end
<1>5. run' = [cfg |-> run.cfg, events |-> run.events, choices |-> Append(run.choices, ch),
              cta |-> run.cta, turn |-> run.turn + 1, within |-> 0, end |-> end]
    BY <1>1, SearchFields
<1>6. Append(run.choices, ch) \in Seq(Choices(shape)) BY <1>3, SearchFields
<1>7. run.turn + 1 \in 0 .. shape.block BY <1>4, SearchFields
<1>8. run' \in Searches(shape) BY <1>4, <1>5, <1>6, <1>7, SearchFields DEF Searches
<1> QED BY <1>1, <1>2, <1>3, <1>4, <1>5, <1>8 DEF ch, end

LEMMA EndRoundIs ==
    ASSUME SearchTypes, EndRound
    PROVE  LET b == run.cta IN
           /\ run'.within = run.within /\ run'.events = run.events /\ run'.cta = run.cta
           /\ run.end = "running" /\ run.turn = shape.block /\ Waits
           /\ b \in 0 .. shape.grid - 1 /\ Release(b) \in Choices(shape)
           /\ BarReady(kernel, shape, run.cfg, b) =>
                /\ run'.cfg = Released(shape, run.cfg, b) /\ run'.turn = 0 /\ run'.end = "running"
                /\ run'.choices = Append(run.choices, Release(b))
           /\ ~BarReady(kernel, shape, run.cfg, b) =>
                /\ run'.cfg = run.cfg /\ run'.turn = run.turn /\ run'.end = "fault"
                /\ run'.choices = run.choices
           /\ run' \in Searches(shape) /\ UNCHANGED <<kernel, shape, cfg>>
<1> DEFINE b == run.cta
           ready == BarReady(kernel, shape, run.cfg, b)
<1>1. /\ RoundOver /\ Waits /\ UNCHANGED <<kernel, shape, cfg>>
      /\ run' = IF ready THEN [run EXCEPT !.cfg = Released(shape, @, b), !.turn = 0,
                                          !.choices = Append(@, Release(b))]
                ELSE [run EXCEPT !.end = "fault"]
    BY DEF EndRound
<1>2. run.end = "running" /\ run.turn = shape.block BY <1>1 DEF RoundOver
<1>3. b \in 0 .. shape.grid - 1 /\ shape \in Shapes BY <1>2 DEF SearchTypes
<1>4. Release(b) \in Choices(shape) BY <1>3 DEF Release, Choices
<1>5. Released(shape, run.cfg, b) \in Cfgs(shape) BY <1>3, SearchFields, ReleasedIs
<1>6. Append(run.choices, Release(b)) \in Seq(Choices(shape)) BY <1>4, SearchFields
<1> HIDE DEF ready
<1>7. CASE ready
    <2>1. run' = [cfg |-> Released(shape, run.cfg, b), events |-> run.events,
                  choices |-> Append(run.choices, Release(b)), cta |-> run.cta, turn |-> 0,
                  within |-> run.within, end |-> run.end]
        BY <1>1, <1>7, SearchFields
    <2>2. run' \in Searches(shape) BY <1>5, <1>6, <2>1, SearchFields DEF Searches
    <2> QED BY <1>1, <1>2, <1>3, <1>4, <1>7, <2>1, <2>2 DEF ready
<1>8. CASE ~ready
    <2>1. run' = [cfg |-> run.cfg, events |-> run.events, choices |-> run.choices, cta |-> run.cta,
                  turn |-> run.turn, within |-> run.within, end |-> "fault"]
        BY <1>1, <1>8, SearchFields
    <2>2. run' \in Searches(shape) BY <2>1, SearchFields DEF Searches
    <2> QED BY <1>1, <1>2, <1>3, <1>4, <1>8, <2>1, <2>2 DEF ready
<1> QED BY <1>7, <1>8

LEMMA EndCtaIs ==
    ASSUME SearchTypes, EndCta
    PROVE  /\ run'.cfg = run.cfg /\ run'.within = run.within /\ run'.events = run.events
           /\ run'.choices = run.choices /\ run'.cta = run.cta + 1 /\ run'.turn = 0
           /\ run'.end = IF run.cta + 1 = shape.grid THEN "done" ELSE "running"
           /\ run.end = "running" /\ run.turn = shape.block /\ ~Waits
           /\ run' \in Searches(shape) /\ UNCHANGED <<kernel, shape, cfg>>
<1> DEFINE end == IF run.cta + 1 = shape.grid THEN "done" ELSE run.end
<1>1. /\ RoundOver /\ ~Waits /\ UNCHANGED <<kernel, shape, cfg>>
      /\ run' = [run EXCEPT !.cta = @ + 1, !.turn = 0, !.end = end]
    BY DEF EndCta
<1>2. run.end = "running" /\ run.turn = shape.block BY <1>1 DEF RoundOver
<1>3. end \in {"running", "done"} BY <1>2
<1> HIDE DEF end
<1>4. run' = [cfg |-> run.cfg, events |-> run.events, choices |-> run.choices,
              cta |-> run.cta + 1, turn |-> 0, within |-> run.within, end |-> end]
    BY <1>1, SearchFields
<1>5. run' \in Searches(shape) BY <1>3, <1>4, SearchFields DEF Searches
<1> QED BY <1>1, <1>2, <1>4, <1>5 DEF end

(* They are so at the start and after every step.                              *)
LEMMA SearchStarts ==
    ASSUME LaunchInit
    PROVE  SearchTypes /\ SearchTurns
<1>1. kernel \in Bodies /\ shape \in Shapes /\ run = SearchStart(shape) BY DEF LaunchInit
<1>2. shape.grid \in Nat \ {0} /\ shape.block \in Nat \ {0} BY <1>1, LaunchesAssumption
<1>3. Launched(shape) \in Cfgs(shape) BY <1>1, LaunchedIs
<1>4. /\ run.cfg = Launched(shape) /\ run.events = << >> /\ run.choices = << >>
      /\ run.cta = 0 /\ run.turn = 0 /\ run.within = 0 /\ run.end = "running"
    BY <1>1 DEF SearchStart
<1>5. run \in Searches(shape) BY <1>1, <1>2, <1>3 DEF SearchStart, Searches
<1>6. SearchTypes BY <1>1, <1>2, <1>4, <1>5 DEF SearchTypes
<1>7. ASSUME NEW t \in Threads(shape) PROVE ~(Cta(t) < 0) /\ ~(t[2] < 0)
    <2>1. Cta(t) \in Nat /\ t[2] \in Nat BY <1>1, ThreadIs
    <2> QED BY <2>1
<1>8. SearchTurns BY <1>2, <1>4, <1>7 DEF SearchTurns
<1> QED BY <1>6, <1>8

LEMMA SearchGoesOn ==
    ASSUME SearchTypes, SearchTurns, [LaunchNext]_launchVars
    PROVE  SearchTypes' /\ SearchTurns'
<1> USE DEF Stopped
<1>1. shape \in Shapes /\ kernel \in Bodies BY DEF SearchTypes
<1>2. \A t \in Threads(shape) : Cta(t) \in Nat /\ Cta(t) = t[1] /\ t[1] \in 0 .. shape.grid - 1
                                /\ t[2] \in 0 .. shape.block - 1 /\ t[2] \in Nat
    BY <1>1, ThreadIs
<1>3. CASE Advance
    <2>1. /\ run'.cfg = Moved(kernel, run.cfg, Turn) /\ run'.cta = run.cta /\ run'.turn = run.turn
          /\ run'.end = "running" /\ run.end = "running" /\ run.turn < shape.block
          /\ Turn \in Threads(shape) /\ Ends(kernel, run.cfg, Turn) = "ok"
          /\ run' \in Searches(shape) /\ kernel' = kernel /\ shape' = shape
        BY <1>3, AdvanceIs
    <2>2. SearchTypes' BY <1>1, <2>1 DEF SearchTypes
    <2>3. Turn[1] = run.cta /\ Turn[2] = run.turn BY DEF Turn
    <2>4. ASSUME NEW t \in Threads(shape), t # Turn PROVE Ends(kernel, run'.cfg, t) = Ends(kernel, run.cfg, t)
        BY <1>1, <2>1, <2>4, MovedIs, SearchFields DEF Ends
    <2>5. ASSUME NEW t \in Threads(shape), Cta(t) < run.cta \/ (Cta(t) = run.cta /\ t[2] < run.turn)
          PROVE  t # Turn
        BY <1>2, <2>1, <2>3, <2>5, SearchFields
    <2>6. \A t \in Threads(shape) :
              /\ Cta(t) < run.cta => Ends(kernel, run'.cfg, t) = "halted"
              /\ Cta(t) = run.cta /\ t[2] < run.turn => Ends(kernel, run'.cfg, t) \in {"wait", "halted"}
        BY <2>1, <2>4, <2>5 DEF SearchTurns
    <2>7. run.turn # shape.block BY <2>1, SearchFields
    <2>8. SearchTurns' BY <2>1, <2>6, <2>7 DEF SearchTurns
    <2> QED BY <2>2, <2>8
<1>4. CASE EndTurn
    <2>1. /\ run'.cfg = run.cfg /\ run'.within = 0 /\ run'.cta = run.cta /\ run'.turn = run.turn + 1
          /\ run'.end = IF Ends(kernel, run.cfg, Turn) = "fault" THEN "fault" ELSE "running"
          /\ run.end = "running" /\ run.turn < shape.block
          /\ Turn \in Threads(shape) /\ Ends(kernel, run.cfg, Turn) # "ok"
          /\ run' \in Searches(shape) /\ kernel' = kernel /\ shape' = shape
        BY <1>4, EndTurnIs
    <2>2. SearchTypes' BY <1>1, <2>1 DEF SearchTypes
    <2>3. run.cfg.ts[Turn] \in Thread BY <2>1, SearchFields DEF Cfgs
    <2>4. Ends(kernel, run.cfg, Turn) \in {"wait", "halted", "fault"} BY <1>1, <2>1, <2>3, EndIs DEF Ends
    <2>5. CASE Ends(kernel, run.cfg, Turn) = "fault"
        <3>1. Faults(kernel, shape, run.cfg) BY <2>1, <2>5 DEF Faults
        <3> QED BY <2>1, <2>2, <2>5, <3>1 DEF SearchTurns
    <2>6. CASE Ends(kernel, run.cfg, Turn) # "fault"
        <3>1. Ends(kernel, run.cfg, Turn) \in {"wait", "halted"} BY <2>4, <2>6
        <3>2. ASSUME NEW t \in Threads(shape), Cta(t) = run.cta, t[2] < run.turn + 1
              PROVE  Ends(kernel, run.cfg, t) \in {"wait", "halted"}
            <4>1. CASE t[2] < run.turn BY <2>1, <3>2, <4>1 DEF SearchTurns
            <4>2. CASE ~(t[2] < run.turn)
                <5>1. t[2] = run.turn /\ t[1] = run.cta BY <1>2, <3>2, <4>2, SearchFields
                <5>2. t = Turn BY <1>1, <5>1, ThreadIs DEF Turn
                <5> QED BY <3>1, <5>2
            <4> QED BY <4>1, <4>2
        <3>3. SearchTurns' BY <2>1, <2>6, <3>2 DEF SearchTurns
        <3> QED BY <2>2, <3>3
    <2> QED BY <2>5, <2>6
<1>5. CASE EndRound
    <2> DEFINE b == run.cta
    <2>1. /\ run'.within = run.within /\ run'.cta = run.cta
          /\ run.end = "running" /\ run.turn = shape.block /\ Waits /\ b \in 0 .. shape.grid - 1
          /\ run' \in Searches(shape) /\ kernel' = kernel /\ shape' = shape
        BY <1>5, EndRoundIs
    <2>2. run.within = 0 BY <2>1 DEF SearchTurns
    <2>3. SearchTypes' BY <1>1, <2>1 DEF SearchTypes
    <2>4. CASE BarReady(kernel, shape, run.cfg, b)
        <3>1. run'.cfg = Released(shape, run.cfg, b) /\ run'.turn = 0 /\ run'.end = "running"
            BY <1>5, <2>4, EndRoundIs
        <3>2. ASSUME NEW t \in Threads(shape), Cta(t) < b PROVE Ends(kernel, run'.cfg, t) = "halted"
            <4>1. Cta(t) # b BY <1>2, <2>1, <3>2
            <4>2. run'.cfg.ts[t] = run.cfg.ts[t] BY <1>1, <2>1, <3>1, <4>1, ReleasedIs, SearchFields
            <4> QED BY <2>1, <3>2, <4>2 DEF SearchTurns, Ends
        <3>3. \A t \in Threads(shape) : ~(t[2] < 0) BY <1>2
        <3>4. SearchTurns' BY <2>1, <2>2, <3>1, <3>2, <3>3 DEF SearchTurns
        <3> QED BY <2>3, <3>4
    <2>5. CASE ~BarReady(kernel, shape, run.cfg, b)
        <3>1. run'.cfg = run.cfg /\ run'.turn = run.turn /\ run'.end = "fault" BY <1>5, <2>5, EndRoundIs
        <3>2. \A t \in InCta(shape, b) : t \in Threads(shape) /\ Ends(kernel, run.cfg, t) \in {"wait", "halted"}
            <4> SUFFICES ASSUME NEW t \in InCta(shape, b)
                         PROVE  t \in Threads(shape) /\ Ends(kernel, run.cfg, t) \in {"wait", "halted"}
                OBVIOUS
            <4>1. t \in Threads(shape) /\ Cta(t) = b BY DEF InCta
            <4>2. t[2] < run.turn BY <1>2, <2>1, <4>1, SearchFields
            <4> QED BY <2>1, <4>1, <4>2 DEF SearchTurns
        <3>3. PICK t \in InCta(shape, b) : Ends(kernel, run.cfg, t) = "wait" BY <2>1 DEF Waits
        <3>4. PICK u \in InCta(shape, b), v \in InCta(shape, b) :
                  ~(Ends(kernel, run.cfg, u) = "wait" /\ run.cfg.ts[u].pc = run.cfg.ts[v].pc)
            BY <2>5 DEF BarReady
        <3>5. \A y, z \in InCta(shape, b) : Cta(y) = Cta(z) BY DEF InCta
        <3>6. Diverged(kernel, shape, run.cfg)
            <4>1. CASE Ends(kernel, run.cfg, u) = "halted"
                BY <3>2, <3>3, <3>5, <4>1 DEF Diverged
            <4>2. CASE Ends(kernel, run.cfg, v) = "halted"
                BY <3>2, <3>3, <3>5, <4>2 DEF Diverged
            <4>3. CASE Ends(kernel, run.cfg, u) # "halted" /\ Ends(kernel, run.cfg, v) # "halted"
                <5>1. Ends(kernel, run.cfg, u) = "wait" /\ Ends(kernel, run.cfg, v) = "wait" BY <3>2, <4>3
                <5>2. run.cfg.ts[u].pc # run.cfg.ts[v].pc BY <3>4, <5>1
                <5> QED BY <3>2, <3>5, <5>1, <5>2 DEF Diverged
            <4> QED BY <4>1, <4>2, <4>3
        <3>7. Faults(kernel, shape, run.cfg) BY <3>6 DEF Faults
        <3>8. SearchTurns' BY <2>1, <2>2, <3>1, <3>7 DEF SearchTurns
        <3> QED BY <2>3, <3>8
    <2> QED BY <2>4, <2>5
<1>6. CASE EndCta
    <2>1. /\ run'.cfg = run.cfg /\ run'.within = run.within /\ run'.cta = run.cta + 1 /\ run'.turn = 0
          /\ run'.end = IF run.cta + 1 = shape.grid THEN "done" ELSE "running"
          /\ run.end = "running" /\ run.turn = shape.block /\ ~Waits
          /\ run' \in Searches(shape) /\ kernel' = kernel /\ shape' = shape
        BY <1>6, EndCtaIs
    <2>2. run.within = 0 BY <2>1 DEF SearchTurns
    <2>3. run.cta \in 0 .. shape.grid - 1 BY <2>1 DEF SearchTypes
    <2>4. run.cta + 1 # shape.grid => run.cta + 1 \in 0 .. shape.grid - 1 BY <2>3, SearchFields
    <2>5. SearchTypes' BY <1>1, <2>1, <2>4 DEF SearchTypes
    <2>6. ASSUME NEW t \in Threads(shape), Cta(t) < run.cta + 1 PROVE Ends(kernel, run.cfg, t) = "halted"
        <3>1. CASE Cta(t) < run.cta BY <2>1, <3>1 DEF SearchTurns
        <3>2. CASE ~(Cta(t) < run.cta)
            <4>1. Cta(t) = run.cta BY <1>2, <2>3, <2>6, <3>2
            <4>2. t[2] < run.turn BY <1>2, <2>1, SearchFields
            <4>3. Ends(kernel, run.cfg, t) \in {"wait", "halted"} BY <2>1, <4>1, <4>2 DEF SearchTurns
            <4>4. Ends(kernel, run.cfg, t) # "wait" BY <2>1, <4>1 DEF Waits, InCta
            <4> QED BY <4>3, <4>4
        <3> QED BY <3>1, <3>2
    <2>7. \A t \in Threads(shape) : ~(t[2] < 0) BY <1>2
    <2>8. shape.block # 0 BY SearchFields
    <2>9. SearchTurns' BY <2>1, <2>2, <2>6, <2>7, <2>8 DEF SearchTurns
    <2> QED BY <2>5, <2>9
<1>7. CASE \E t \in Threads(shape) : Step(t)
    <2>1. UNCHANGED <<kernel, shape, run>> BY <1>7 DEF Step
    <2> QED BY <2>1 DEF SearchTypes, SearchTurns
<1>8. CASE \E b \in 0 .. shape.grid - 1 : Barrier(b)
    <2>1. UNCHANGED <<kernel, shape, run>> BY <1>8 DEF Barrier
    <2> QED BY <2>1 DEF SearchTypes, SearchTurns
<1>9. CASE UNCHANGED launchVars
    BY <1>9 DEF launchVars, SearchTypes, SearchTurns
<1> QED BY <1>3, <1>4, <1>5, <1>6, <1>7, <1>8, <1>9 DEF LaunchNext

-----------------------------------------------------------------------------
(* The choices made so far and the steps of the turn lead, as legal steps, to  *)
(* where the search is; those before an access to a configuration that is      *)
(* about to make it.                                                           *)
Replayed(cs, t, n) == Chosen(kernel, shape, Exec(kernel, shape, cs), RunThread(t, n))
LeadsTo(e, s) == s.legal /\ Pending(kernel, e.t, s.cfg.ts[e.t]) = e.access /\ s.cfg.ph[Cta(e.t)] = e.phase
SearchReplays ==
    /\ Replayed(run.choices, Turn, run.within) = [legal |-> TRUE, cfg |-> run.cfg]
    /\ \A i \in DOMAIN run.events :
           LET e == run.events[i] IN
           /\ e.prefix <= Len(run.choices) /\ e.access # NoAccess
           /\ LeadsTo(e, Exec(kernel, shape, Prefix(run.choices, e)))

LEMMA ReplayStarts ==
    ASSUME LaunchInit
    PROVE  SearchReplays
<1>1. /\ run.cfg = Launched(shape) /\ run.events = << >> /\ run.choices = << >> /\ run.within = 0
    BY DEF LaunchInit, SearchStart
<1>2. Replayed(<< >>, Turn, 0) = [legal |-> TRUE, cfg |-> Launched(shape)]
    BY TurnBegins, ExecNothing DEF Replayed, Begun
<1> QED BY <1>1, <1>2 DEF SearchReplays

(* A turn that is over is one choice more.                                     *)
LEMMA TurnIsChoice ==
    ASSUME SearchTypes, NEW t \in Threads(shape), NEW n \in Nat
    PROVE  Exec(kernel, shape, Append(run.choices, RunThread(t, n))) = Replayed(run.choices, t, n)
<1>1. RunThread(t, n) \in Choices(shape) BY DEF RunThread, Choices
<1> QED BY <1>1, SearchFields, ExecOneMore DEF Replayed

LEMMA PrefixKept ==
    ASSUME NEW S, NEW cs \in Seq(S), NEW ch \in S, NEW e, e.prefix \in Nat, e.prefix <= Len(cs)
    PROVE  Prefix(Append(cs, ch), e) = Prefix(cs, e)
<1>1. PICK n \in Nat : n = e.prefix /\ n <= Len(cs) OBVIOUS
<1>2. SubSeq(Append(cs, ch), 1, n) = SubSeq(cs, 1, n)
    <2>1. Len(cs) \in Nat /\ Len(Append(cs, ch)) = Len(cs) + 1 OBVIOUS
    <2>2. \A i \in 1 .. n : Append(cs, ch)[i] = cs[i] BY <1>1, <2>1
    <2>3. SubSeq(Append(cs, ch), 1, n) = [i \in 1 .. n |-> Append(cs, ch)[i]] BY <1>1, <2>1
    <2>4. SubSeq(cs, 1, n) = [i \in 1 .. n |-> cs[i]] BY <1>1, <2>1
    <2> QED BY <2>2, <2>3, <2>4
<1> QED BY <1>1, <1>2 DEF Prefix

LEMMA EventsReplay ==
    ASSUME SearchTypes, SearchReplays, NEW ch \in Choices(shape), NEW i \in DOMAIN run.events
    PROVE  LET e == run.events[i]
               cs == Append(run.choices, ch)
           IN  e.prefix <= Len(cs) /\ e.access # NoAccess /\ LeadsTo(e, Exec(kernel, shape, Prefix(cs, e)))
<1> DEFINE e == run.events[i]
           cs == Append(run.choices, ch)
<1>1. e \in Events(shape) BY SearchFields
<1>2. e.prefix \in Nat BY <1>1 DEF Events
<1>3. /\ e.prefix <= Len(run.choices) /\ e.access # NoAccess
      /\ LeadsTo(e, Exec(kernel, shape, Prefix(run.choices, e)))
    BY DEF SearchReplays
<1>4. Len(cs) = Len(run.choices) + 1 /\ Len(run.choices) \in Nat BY SearchFields
<1> HIDE DEF e
<1>5. Prefix(cs, e) = Prefix(run.choices, e) BY <1>2, <1>3, SearchFields, PrefixKept
<1> HIDE DEF cs
<1> QED BY <1>2, <1>3, <1>4, <1>5 DEF e, cs

LEMMA ReplayGoesOn ==
    ASSUME SearchTypes, SearchTurns, SearchReplays, [LaunchNext]_launchVars
    PROVE  SearchReplays'
<1> DEFINE Now(c) == [legal |-> TRUE, cfg |-> c]
<1>1. shape \in Shapes /\ kernel \in Bodies BY DEF SearchTypes
<1>2. CASE Advance
    <2> DEFINE a == Pending(kernel, Turn, run.cfg.ts[Turn])
               e == [t |-> Turn, phase |-> run.cfg.ph[run.cta], access |-> a,
                     prefix |-> Len(run.choices), within |-> run.within]
    <2>1. /\ run'.cfg = Moved(kernel, run.cfg, Turn) /\ run'.within = run.within + 1
          /\ run'.events = IF a = NoAccess THEN run.events ELSE Append(run.events, e)
          /\ run'.choices = run.choices /\ run'.cta = run.cta /\ run'.turn = run.turn
          /\ Turn \in Threads(shape) /\ Ends(kernel, run.cfg, Turn) = "ok"
          /\ a # NoAccess => e \in Events(shape)
          /\ kernel' = kernel /\ shape' = shape
        BY <1>2, AdvanceIs
    <2>2. Turn' = Turn BY <2>1 DEF Turn
    <2>3. Replayed(run.choices, Turn, run.within) = Now(run.cfg) BY DEF SearchReplays
    <2>12. run.within \in Nat BY SearchFields
    <2>13. Replayed(run.choices, Turn, run.within + 1)
           = Stepped(kernel, Replayed(run.choices, Turn, run.within), Turn)
        BY <2>12, TurnGoesOn DEF Replayed
    <2>4. Replayed(run.choices, Turn, run.within + 1) = Stepped(kernel, Now(run.cfg), Turn)
        BY <2>3, <2>13
    <2>5. Stepped(kernel, Now(run.cfg), Turn) = Now(Moved(kernel, run.cfg, Turn)) BY <2>1 DEF Stepped
    <2>6. Replayed(run'.choices, Turn, run'.within)
          = Now(run'.cfg)
        BY <2>1, <2>4, <2>5
    <2>7. Replayed(run.choices, Turn, run.within)' = Replayed(run'.choices, Turn, run'.within)
        BY <2>1, <2>2 DEF Replayed
    <2>8. \A i \in DOMAIN run.events :
              LET d == run.events[i] IN
              /\ d.prefix <= Len(run.choices) /\ d.access # NoAccess
              /\ LeadsTo(d, Exec(kernel, shape, Prefix(run.choices, d)))
        BY DEF SearchReplays
    <2>9. ASSUME a # NoAccess
          PROVE  /\ e.prefix <= Len(run.choices) /\ e.access # NoAccess
                 /\ LeadsTo(e, Exec(kernel, shape, Prefix(run.choices, e)))
        <3>1. /\ e.prefix = Len(run.choices) /\ e.within = run.within /\ e.t = Turn /\ e.access = a
              /\ e.phase = run.cfg.ph[run.cta]
            OBVIOUS
        <3>2. SubSeq(run.choices, 1, Len(run.choices)) = run.choices BY SearchFields
        <3> HIDE DEF e
        <3>3. Prefix(run.choices, e) = Append(run.choices, RunThread(Turn, run.within))
            BY <3>1, <3>2 DEF Prefix
        <3>4. Exec(kernel, shape, Prefix(run.choices, e)) = Now(run.cfg)
            BY <2>1, <2>3, <3>3, TurnIsChoice, SearchFields
        <3>5. Len(run.choices) \in Nat BY SearchFields
        <3>6. Cta(Turn) = run.cta BY DEF Cta, Turn
        <3>7. LeadsTo(e, Now(run.cfg)) BY <3>1, <3>6 DEF LeadsTo
        <3> QED BY <2>9, <3>1, <3>4, <3>5, <3>7
    <2>10. \A i \in DOMAIN run'.events :
              LET d == run'.events[i] IN
              /\ d.prefix <= Len(run.choices) /\ d.access # NoAccess
              /\ LeadsTo(d, Exec(kernel, shape, Prefix(run.choices, d)))
        <3> HIDE DEF e, a
        <3>1. CASE a = NoAccess BY <2>1, <2>8, <3>1
        <3>2. CASE a # NoAccess
            <4>1. run'.events = Append(run.events, e) BY <2>1, <3>2
            <4>2. run.events \in Seq(Events(shape)) BY SearchFields
            <4>3. DOMAIN run'.events = 1 .. Len(run.events) + 1 /\ DOMAIN run.events = 1 .. Len(run.events)
                  /\ Len(run.events) \in Nat
                BY <4>1, <4>2
            <4> SUFFICES ASSUME NEW i \in DOMAIN run'.events
                         PROVE  LET d == run'.events[i] IN
                                /\ d.prefix <= Len(run.choices) /\ d.access # NoAccess
                                /\ LeadsTo(d, Exec(kernel, shape, Prefix(run.choices, d)))
                OBVIOUS
            <4>4. CASE i = Len(run.events) + 1
                <5>1. run'.events[i] = e BY <4>1, <4>2, <4>4
                <5> QED BY <2>9, <3>2, <5>1
            <4>5. CASE i # Len(run.events) + 1
                <5>1. i \in DOMAIN run.events BY <4>3, <4>5
                <5>2. run'.events[i] = run.events[i] BY <4>1, <4>2, <4>3, <4>5
                <5> QED BY <2>8, <5>1, <5>2
            <4> QED BY <4>4, <4>5
        <3> QED BY <3>1, <3>2
    <2> HIDE DEF e, a
    <2>11. \A d, s : LeadsTo(d, s)' = LeadsTo(d, s)
        BY <2>1 DEF LeadsTo
    <2> QED BY <2>1, <2>6, <2>7, <2>10 DEF SearchReplays, LeadsTo
<1>3. CASE EndTurn
    <2>1. /\ run'.cfg = run.cfg /\ run'.within = 0 /\ run'.events = run.events
          /\ run'.choices = Append(run.choices, RunThread(Turn, run.within))
          /\ RunThread(Turn, run.within) \in Choices(shape) /\ Turn \in Threads(shape)
          /\ kernel' = kernel /\ shape' = shape
        BY <1>3, EndTurnIs
    <2>2. Exec(kernel, shape, run'.choices) = Now(run.cfg)
        BY <2>1, TurnIsChoice, SearchFields DEF SearchReplays
    <2>3. Replayed(run.choices, Turn, run.within)' = Now(run.cfg) BY <2>1, <2>2, TurnBegins DEF Replayed
    <2> QED BY <2>1, <2>3, EventsReplay DEF SearchReplays, LeadsTo
<1>4. CASE EndRound
    <2> DEFINE b == run.cta
    <2>1. /\ run'.within = run.within /\ run'.events = run.events /\ run'.cta = run.cta
          /\ run.end = "running" /\ run.turn = shape.block
          /\ Release(b) \in Choices(shape) /\ kernel' = kernel /\ shape' = shape
        BY <1>4, EndRoundIs
    <2>2. run.within = 0 BY <2>1 DEF SearchTurns
    <2>3. Exec(kernel, shape, run.choices) = Now(run.cfg) BY <2>2, TurnBegins DEF SearchReplays, Replayed
    <2>4. CASE BarReady(kernel, shape, run.cfg, b)
        <3>1. /\ run'.cfg = Released(shape, run.cfg, b)
              /\ run'.choices = Append(run.choices, Release(b))
            BY <1>4, <2>4, EndRoundIs
        <3>2. Release(b).do = "release" /\ Release(b).b = b BY DEF Release
        <3>6. Exec(kernel, shape, Append(run.choices, Release(b)))
              = Chosen(kernel, shape, Exec(kernel, shape, run.choices), Release(b))
            <4>1. run.choices \in Seq(Choices(shape)) /\ Release(b) \in Choices(shape)
                BY <2>1, SearchFields
            <4> HIDE DEF b
            <4> QED BY <4>1, ExecOneMore
        <3>3. Exec(kernel, shape, run'.choices) = Chosen(kernel, shape, Now(run.cfg), Release(b))
            BY <2>3, <3>1, <3>6
        <3>4. Chosen(kernel, shape, Now(run.cfg), Release(b)) = Now(run'.cfg)
            BY <2>4, <3>1, <3>2 DEF Chosen
        <3>5. Replayed(run.choices, Turn, run.within)' = Now(run'.cfg)
            BY <2>1, <2>2, <3>3, <3>4, TurnBegins DEF Replayed
        <3> QED BY <2>1, <3>1, <3>5, EventsReplay DEF SearchReplays, LeadsTo
    <2>5. CASE ~BarReady(kernel, shape, run.cfg, b)
        <3>1. run'.cfg = run.cfg /\ run'.choices = run.choices BY <1>4, <2>5, EndRoundIs
        <3>2. Replayed(run.choices, Turn, run.within)' = Now(run.cfg)
            BY <2>1, <2>2, <2>3, <3>1, TurnBegins DEF Replayed
        <3> QED BY <2>1, <3>1, <3>2 DEF SearchReplays, LeadsTo
    <2> QED BY <2>4, <2>5
<1>5. CASE EndCta
    <2>1. /\ run'.cfg = run.cfg /\ run'.within = run.within /\ run'.events = run.events
          /\ run'.choices = run.choices /\ run.end = "running" /\ run.turn = shape.block
          /\ kernel' = kernel /\ shape' = shape
        BY <1>5, EndCtaIs
    <2>2. run.within = 0 BY <2>1 DEF SearchTurns
    <2>3. Exec(kernel, shape, run.choices) = Now(run.cfg) BY <2>2, TurnBegins DEF SearchReplays, Replayed
    <2>4. Replayed(run.choices, Turn, run.within)' = Now(run.cfg)
        BY <2>1, <2>2, <2>3, TurnBegins DEF Replayed
    <2> QED BY <2>1, <2>4 DEF SearchReplays, LeadsTo
<1>6. CASE UNCHANGED <<kernel, shape, run>>
    BY <1>6 DEF SearchReplays, LeadsTo, Replayed, Turn
<1>7. CASE \E t \in Threads(shape) : Step(t) BY <1>6, <1>7 DEF Step
<1>8. CASE \E b \in 0 .. shape.grid - 1 : Barrier(b) BY <1>6, <1>8 DEF Barrier
<1>9. CASE UNCHANGED launchVars BY <1>6, <1>9 DEF launchVars
<1> QED BY <1>2, <1>3, <1>4, <1>5, <1>7, <1>8, <1>9 DEF LaunchNext

(* Races that are found have a first one.                                      *)
LEMMA FirstIsRace ==
    ASSUME NEW S, NEW evs \in Seq(S), Races(evs) # {}
    PROVE  FirstRace(evs) \in Races(evs)
<1> DEFINE R == Races(evs)
           L == {p[1] : p \in R}
<1>1. \A p \in R : p \in (1 .. Len(evs)) \X (1 .. Len(evs)) /\ p[1] \in Nat /\ p[2] \in Nat
    <2>1. DOMAIN evs = 1 .. Len(evs) /\ Len(evs) \in Nat OBVIOUS
    <2>2. \A p \in R : p \in (1 .. Len(evs)) \X (1 .. Len(evs)) BY <2>1 DEF Races
    <2> QED BY <2>1, <2>2
<1> HIDE DEF R
<1>2. L \in SUBSET Nat /\ L # {} BY <1>1 DEF R
<1>3. PICK i \in L : \A j \in L : i <= j BY <1>2, LeastOf
<1> DEFINE M == {p[2] : p \in {q \in R : q[1] = i}}
<1>4. M \in SUBSET Nat /\ M # {} BY <1>1, <1>3
<1>5. PICK m \in M : \A j \in M : m <= j BY <1>4, LeastOf
<1>6. PICK p \in R : p[1] = i /\ p[2] = m BY <1>5
<1>7. \A q \in R : p[1] < q[1] \/ (p[1] = q[1] /\ p[2] <= q[2])
    <2> TAKE q \in R
    <2>1. q[1] \in Nat /\ q[2] \in Nat /\ i \in Nat BY <1>1, <1>2
    <2>2. i <= q[1] BY <1>3
    <2>3. CASE q[1] = i
        <3>1. q[2] \in M BY <2>3
        <3>2. m <= q[2] BY <1>5, <3>1
        <3> QED BY <1>6, <2>3, <3>2
    <2>4. CASE q[1] # i BY <1>6, <2>1, <2>2, <2>4
    <2> QED BY <2>3, <2>4
<1>8. FirstRace(evs) = CHOOSE p2 \in R : \A q \in R : p2[1] < q[1] \/ (p2[1] = q[1] /\ p2[2] <= q[2])
    BY DEF FirstRace, R
<1>9. FirstRace(evs) \in R BY <1>6, <1>7, <1>8
<1> QED BY <1>9 DEF R

LEMMA WitnessesLead ==
    ASSUME SearchTypes, SearchTurns, SearchReplays
    PROVE  WitnessesReplay
<1>1. ASSUME Raced
      PROVE  LET p == FirstRace(run.events)
                 a == run.events[p[1]]
                 b == run.events[p[2]]
                 s == Exec(kernel, shape, Prefix(run.choices, a))
                 s2 == Exec(kernel, shape, Prefix(run.choices, b))
             IN  /\ s.legal /\ Pending(kernel, a.t, s.cfg.ts[a.t]) = a.access
                 /\ s2.legal /\ Pending(kernel, b.t, s2.cfg.ts[b.t]) = b.access
                 /\ RaceAt(kernel, s.cfg, a.t, s2.cfg, b.t)
    <2>1. PICK p : p = FirstRace(run.events) OBVIOUS
    <2>2. p \in Races(run.events) BY <1>1, <2>1, SearchFields, FirstIsRace DEF Raced
    <2>3. p[1] \in DOMAIN run.events /\ p[2] \in DOMAIN run.events /\ Race(run.events[p[1]], run.events[p[2]])
        BY <2>2 DEF Races
    <2>4. PICK a : a = run.events[p[1]] OBVIOUS
    <2>5. PICK b : b = run.events[p[2]] OBVIOUS
    <2>6. PICK s : s = Exec(kernel, shape, Prefix(run.choices, a)) OBVIOUS
    <2>7. PICK s2 : s2 = Exec(kernel, shape, Prefix(run.choices, b)) OBVIOUS
    <2>8. LeadsTo(a, s) /\ a.access # NoAccess BY <2>3, <2>4, <2>6 DEF SearchReplays
    <2>9. LeadsTo(b, s2) /\ b.access # NoAccess BY <2>3, <2>5, <2>7 DEF SearchReplays
    <2>10. Race(a, b) BY <2>3, <2>4, <2>5
    <2>11. RaceAt(kernel, s.cfg, a.t, s2.cfg, b.t)
        BY <2>8, <2>9, <2>10 DEF Race, RaceAt, LeadsTo, Conflict, Separated
    <2>12. /\ s.legal /\ Pending(kernel, a.t, s.cfg.ts[a.t]) = a.access
           /\ s2.legal /\ Pending(kernel, b.t, s2.cfg.ts[b.t]) = b.access
        BY <2>8, <2>9 DEF LeadsTo
    <2> QED BY <2>1, <2>4, <2>5, <2>6, <2>7, <2>11, <2>12
<1>2. ASSUME run.end = "fault"
      PROVE  LET s == Exec(kernel, shape, run.choices)
             IN  s.legal /\ Faults(kernel, shape, s.cfg)
    <2>1. run.within = 0 /\ Faults(kernel, shape, run.cfg) BY <1>2 DEF SearchTurns
    <2>2. Exec(kernel, shape, run.choices) = [legal |-> TRUE, cfg |-> run.cfg]
        BY <2>1, TurnBegins DEF SearchReplays, Replayed
    <2> QED BY <2>1, <2>2
<1> QED BY <1>1, <1>2 DEF WitnessesReplay

(* What is reported can be replayed: the choices recorded for a race are legal *)
(* steps that lead its two threads to a race, and those of a fault to a fault  *)
(* (blocksearch.rs:198-274, 310-321).                                          *)
THEOREM WitnessesAlwaysReplay == LaunchSpec => []WitnessesReplay
<1> DEFINE Replaying == SearchTypes /\ SearchTurns /\ SearchReplays
<1>1. LaunchInit => Replaying BY SearchStarts, ReplayStarts
<1>2. Replaying /\ [LaunchNext]_launchVars => Replaying' BY SearchGoesOn, ReplayGoesOn
<1>3. Replaying => WitnessesReplay BY WitnessesLead
<1> QED BY <1>1, <1>2, <1>3, PTL DEF LaunchSpec

-----------------------------------------------------------------------------
(* What an execution of a kernel has done: a history of it gives each place, a *)
(* thread and one of its instructions, the register and the phase it comes     *)
(* with, and its position among the accesses.                                  *)
Places == Threads(shape) \X (Nat \ {0})
Histories == [r : [Places -> Numbers], ph : [Places -> Nat], pos : [Places -> Nat]]

At(h, z) == [pc |-> z[2], r |-> h.r[z]]
Acc(h, z) == Pending(kernel, z[1], At(h, z))
WordOf(h, z) == Word(z[1], Acc(h, z))
Writers(h, E, w) == {z \in E : Acc(h, z).kind \in {"write", "atomic"} /\ WordOf(h, z) = w}
Makes(h, z, v) == Written(z[1], At(h, z), Acc(h, z), v)

(* Of one word: f says what it holds at each position when the accesses E come *)
(* at theirs, and v is what it holds in the end.                               *)
Traces(h, E, w, f) ==
    /\ f \in [Nat -> Numbers] /\ f[0] = 0
    /\ \A p \in Nat :
         /\ (\A z \in Writers(h, E, w) : h.pos[z] # p) => f[p + 1] = f[p]
         /\ \A z \in Writers(h, E, w) : h.pos[z] = p => f[p + 1] = Makes(h, z, f[p])
Leaves(h, E, w, v) ==
    \E f, n : Traces(h, E, w, f) /\ n \in Nat /\ \A p \in Nat : n <= p => f[p] = v

LEMMA LeavesOne ==
    ASSUME NEW h \in Histories, NEW E \in SUBSET Places, NEW w, NEW v1, NEW v2,
           Leaves(h, E, w, v1), Leaves(h, E, w, v2)
    PROVE  v1 = v2
<1>1. PICK f, m : Traces(h, E, w, f) /\ m \in Nat /\ \A p \in Nat : m <= p => f[p] = v1 BY DEF Leaves
<1>2. PICK g, n : Traces(h, E, w, g) /\ n \in Nat /\ \A p \in Nat : n <= p => g[p] = v2 BY DEF Leaves
<1> DEFINE Same == {p \in Nat : f[p] = g[p]}
<1>3. 0 \in Same BY <1>1, <1>2 DEF Traces
<1>4. ASSUME NEW p \in Nat, p \in Same PROVE p + 1 \in Same
    <2>1. f[p] = g[p] BY <1>4
    <2>2. f[p + 1] = g[p + 1]
        <3>1. CASE \A z \in Writers(h, E, w) : h.pos[z] # p BY <1>1, <1>2, <2>1, <3>1 DEF Traces
        <3>2. CASE \E z \in Writers(h, E, w) : h.pos[z] = p BY <1>1, <1>2, <2>1, <3>2 DEF Traces
        <3> QED BY <3>1, <3>2
    <2> QED BY <2>2
<1> HIDE DEF Same
<1>5. Nat \subseteq Same BY <1>3, <1>4, AllNumbers
<1>6. m + n \in Nat /\ m <= m + n /\ n <= m + n BY <1>1, <1>2
<1>7. f[m + n] = g[m + n] BY <1>5, <1>6 DEF Same
<1> QED BY <1>1, <1>2, <1>6, <1>7

(* It is the same for histories and accesses that agree on what writes it.     *)
LEMMA LeavesSame ==
    ASSUME NEW h, NEW g, NEW E, NEW F, NEW w, NEW v,
           Writers(h, E, w) = Writers(g, F, w),
           \A z \in Writers(h, E, w) : h.pos[z] = g.pos[z] /\ h.r[z] = g.r[z],
           Leaves(h, E, w, v)
    PROVE  Leaves(g, F, w, v)
<1>1. PICK f, n : Traces(h, E, w, f) /\ n \in Nat /\ \A p \in Nat : n <= p => f[p] = v BY DEF Leaves
<1>2. \A z \in Writers(h, E, w) : \A x : Makes(h, z, x) = Makes(g, z, x) BY DEF Makes, At, Acc
<1>3. Traces(g, F, w, f) BY <1>1, <1>2 DEF Traces
<1> QED BY <1>1, <1>3 DEF Leaves

LEMMA NothingLeaves ==
    ASSUME NEW h, NEW E, NEW w, Writers(h, E, w) = {}
    PROVE  Leaves(h, E, w, 0)
<1> DEFINE f == [p \in Nat |-> 0]
<1>1. 0 \in Numbers BY LaunchesAssumption DEF Numbers
<1>2. f \in [Nat -> Numbers] /\ \A p \in Nat : f[p] = 0 BY <1>1
<1> HIDE DEF f
<1>3. Traces(h, E, w, f) BY <1>2 DEF Traces
<1> QED BY <1>2, <1>3 DEF Leaves

(* One more access that comes after all that are not atomics like it makes of  *)
(* what they leave what it makes: the atomics like it commute with it.         *)
LEMMA LeavesMore ==
    ASSUME NEW h \in Histories, NEW E \in SUBSET Places, NEW w, NEW x \in Places, NEW F, NEW v,
           Leaves(h, E, w, v), Writers(h, F, w) = Writers(h, E, w) \cup {x},
           \A u \in Numbers : Makes(h, x, u) \in Numbers,
           \A z \in Writers(h, E, w) :
               /\ h.pos[z] # h.pos[x]
               /\ h.pos[z] < h.pos[x] \/ \A u \in Numbers :
                     Makes(h, x, Makes(h, z, u)) = Makes(h, z, Makes(h, x, u))
    PROVE  Leaves(h, F, w, Makes(h, x, v))
<1>1. PICK f, n : Traces(h, E, w, f) /\ n \in Nat /\ \A p \in Nat : n <= p => f[p] = v BY DEF Leaves
<1> DEFINE q == h.pos[x]
           g == [p \in Nat |-> IF p <= q THEN f[p] ELSE Makes(h, x, f[p])]
<1>2. q \in Nat /\ \A z \in Writers(h, E, w) : h.pos[z] \in Nat BY DEF Histories, Writers
<1>3. f \in [Nat -> Numbers] /\ f[0] = 0 BY <1>1 DEF Traces
<1>4. g \in [Nat -> Numbers] /\ g[0] = 0 BY <1>2, <1>3
<1>5. /\ \A p \in Nat : p <= q => g[p] = f[p]
      /\ \A p \in Nat : ~(p <= q) => g[p] = Makes(h, x, f[p])
    OBVIOUS
<1> HIDE DEF g
<1>6. ASSUME NEW p \in Nat
      PROVE  /\ (\A z \in Writers(h, F, w) : h.pos[z] # p) => g[p + 1] = g[p]
             /\ \A z \in Writers(h, F, w) : h.pos[z] = p => g[p + 1] = Makes(h, z, g[p])
    <2>1. /\ (\A z \in Writers(h, E, w) : h.pos[z] # p) => f[p + 1] = f[p]
          /\ \A z \in Writers(h, E, w) : h.pos[z] = p => f[p + 1] = Makes(h, z, f[p])
        BY <1>1 DEF Traces
    <2>2. CASE p < q
        <3>1. g[p] = f[p] /\ g[p + 1] = f[p + 1] /\ p # q BY <1>2, <1>5, <2>2
        <3> QED BY <2>1, <3>1
    <2>3. CASE p = q
        <3>1. f[p + 1] = f[p] BY <2>1, <2>3
        <3>2. g[p] = f[p] /\ g[p + 1] = Makes(h, x, f[p]) BY <1>2, <1>5, <2>3, <3>1
        <3>3. \A z \in Writers(h, F, w) : h.pos[z] = p => z = x BY <2>3
        <3>4. x \in Writers(h, F, w) OBVIOUS
        <3> QED BY <2>3, <3>2, <3>3, <3>4
    <2>4. CASE q < p
        <3>1. g[p] = Makes(h, x, f[p]) /\ g[p + 1] = Makes(h, x, f[p + 1]) BY <1>2, <1>5, <2>4
        <3>2. ASSUME NEW z \in Writers(h, F, w), h.pos[z] = p PROVE g[p + 1] = Makes(h, z, g[p])
            <4>1. z \in Writers(h, E, w) BY <1>2, <2>4, <3>2
            <4>2. f[p + 1] = Makes(h, z, f[p]) BY <2>1, <3>2, <4>1
            <4>3. ~(h.pos[z] < q) BY <1>2, <2>4, <3>2
            <4>4. f[p] \in Numbers BY <1>3
            <4>5. Makes(h, x, Makes(h, z, f[p])) = Makes(h, z, Makes(h, x, f[p])) BY <4>1, <4>3, <4>4
            <4> QED BY <3>1, <4>2, <4>5
        <3> QED BY <2>1, <3>1, <3>2
    <2> QED BY <1>2, <2>2, <2>3, <2>4
<1>7. Traces(h, F, w, g) BY <1>4, <1>6 DEF Traces
<1>8. n + q + 1 \in Nat /\ \A p \in Nat : n + q + 1 <= p => g[p] = Makes(h, x, v)
    <2>1. n + q + 1 \in Nat BY <1>1, <1>2
    <2>2. ASSUME NEW p \in Nat, n + q + 1 <= p PROVE g[p] = Makes(h, x, v)
        <3>1. n <= p /\ ~(p <= q) BY <1>1, <1>2, <2>2
        <3> QED BY <1>1, <1>5, <3>1
    <2> QED BY <2>1, <2>2
<1> HIDE DEF q
<1> QED BY <1>7, <1>8 DEF Leaves

-----------------------------------------------------------------------------
(* The places an execution has left behind, and those it has come to.          *)
Before(c) == {z \in Places : z[2] < c.ts[z[1]].pc}
Reached(c) == {z \in Places : z[2] <= c.ts[z[1]].pc}
NextPlace(z) == <<z[1], z[2] + 1>>
EndOf(h, z) == End(kernel, z[1], At(h, z))
Place(c, t) == <<t, c.ts[t].pc>>
Earlier(h, E, z) == {y \in E : h.pos[y] < h.pos[z]}

(* h is the history of c: where its threads came from and are,                 *)
Starts(h) == \A t \in Threads(shape) : h.r[<<t, 1>>] = 0 /\ h.ph[<<t, 1>>] = 0
IsAt(h, c) ==
    \A t \in Threads(shape) : c.ts[t].r = h.r[Place(c, t)] /\ c.ph[Cta(t)] = h.ph[Place(c, t)]

(* that each place goes on to the next of its thread, with what it read,       *)
GoesOn(h, E, z) ==
    /\ EndOf(h, z) \in {"ok", "wait"}
    /\ h.ph[NextPlace(z)] = h.ph[z] + (IF EndOf(h, z) = "wait" THEN 1 ELSE 0)
    /\ Acc(h, z).kind # "read" => h.r[NextPlace(z)] = h.r[z]
    /\ Acc(h, z).kind = "read" => Leaves(h, Earlier(h, E, z), WordOf(h, z), h.r[NextPlace(z)])

(* that phases rise along a thread and accesses come in the order of threads   *)
(* and phases,                                                                 *)
Rises(h, c) ==
    \A y, z \in Reached(c) : y[1] = z[1] /\ y[2] <= z[2] => h.ph[y] <= h.ph[z]
InLine(h, y, z) ==
    /\ y[1] = z[1] /\ y[2] < z[2] => h.pos[y] < h.pos[z]
    /\ Cta(y[1]) = Cta(z[1]) /\ h.ph[y] < h.ph[z] => h.pos[y] < h.pos[z]
    /\ h.pos[y] = h.pos[z] => y = z

(* and that the threads of a CTA come to a barrier together.                   *)
Aligned(h, E, z) ==
    EndOf(h, z) = "wait" =>
        \A u \in Threads(shape) : Cta(u) = Cta(z[1]) =>
            <<u, z[2]>> \in E /\ EndOf(h, <<u, z[2]>>) = "wait" /\ h.ph[<<u, z[2]>>] = h.ph[z]

Accessed(h, E) == {z \in E : Acc(h, z) # NoAccess}

HistoryOf(h, n, c) ==
    /\ Starts(h) /\ IsAt(h, c) /\ Rises(h, c)
    /\ \A z \in Before(c) : GoesOn(h, Before(c), z) /\ Aligned(h, Before(c), z)
    /\ \A z \in Accessed(h, Before(c)) : h.pos[z] < n
    /\ \A y, z \in Accessed(h, Before(c)) : InLine(h, y, z)
    /\ \A w \in Words(shape) : Leaves(h, Before(c), w, c.mem[w])

Recorded(h, E, evs) ==
    \A z \in Accessed(h, E) : \E i \in DOMAIN evs :
        evs[i].t = z[1] /\ evs[i].phase = h.ph[z] /\ evs[i].access = Acc(h, z)

LEMMA PlaceIs ==
    ASSUME shape \in Shapes, NEW c \in Cfgs(shape), NEW t \in Threads(shape)
    PROVE  /\ c.ts[t].pc \in Nat \ {0} /\ c.ts[t].r \in Numbers /\ c.ts[t] \in Thread
           /\ c.ts[t] = [pc |-> c.ts[t].pc, r |-> c.ts[t].r]
           /\ Place(c, t) \in Places /\ Place(c, t)[1] = t /\ Place(c, t)[2] = c.ts[t].pc
           /\ Place(c, t) \in Reached(c) /\ Place(c, t) \notin Before(c)
           /\ NextPlace(Place(c, t)) \in Places
<1>1. c.ts[t] \in Thread BY DEF Cfgs
<1>2. c.ts[t].pc \in Nat \ {0} /\ c.ts[t].r \in Numbers /\ c.ts[t] = [pc |-> c.ts[t].pc, r |-> c.ts[t].r]
    BY <1>1 DEF Thread
<1>3. Place(c, t) \in Places /\ Place(c, t)[1] = t /\ Place(c, t)[2] = c.ts[t].pc
    BY <1>2 DEF Place, Places
<1>4. NextPlace(Place(c, t)) \in Places BY <1>2, <1>3 DEF NextPlace, Places
<1> QED BY <1>1, <1>2, <1>3, <1>4 DEF Reached, Before

LEMMA PlacesAre ==
    ASSUME shape \in Shapes, NEW z \in Places
    PROVE  /\ z[1] \in Threads(shape) /\ z[2] \in Nat \ {0} /\ z = <<z[1], z[2]>>
           /\ NextPlace(z) \in Places /\ NextPlace(z)[1] = z[1] /\ NextPlace(z)[2] = z[2] + 1
BY DEF Places, NextPlace

LEMMA AtIs ==
    ASSUME shape \in Shapes, NEW h \in Histories, NEW z \in Places
    PROVE  At(h, z) \in Thread /\ At(h, z).pc = z[2] /\ At(h, z).r = h.r[z] /\ h.r[z] \in Numbers
           /\ h.ph[z] \in Nat /\ h.pos[z] \in Nat
BY PlacesAre DEF At, Thread, Histories

(* Where a thread of an execution is, its history says what it is about to do. *)
LEMMA ThreadAt ==
    ASSUME shape \in Shapes, NEW c \in Cfgs(shape), NEW t \in Threads(shape), NEW h,
           c.ts[t].r = h.r[Place(c, t)]
    PROVE  /\ At(h, Place(c, t)) = c.ts[t] /\ EndOf(h, Place(c, t)) = Ends(kernel, c, t)
           /\ Acc(h, Place(c, t)) = Pending(kernel, t, c.ts[t])
<1>1. /\ c.ts[t] = [pc |-> c.ts[t].pc, r |-> c.ts[t].r]
      /\ Place(c, t)[1] = t /\ Place(c, t)[2] = c.ts[t].pc
    BY PlaceIs
<1>2. At(h, Place(c, t)) = c.ts[t] BY <1>1 DEF At
<1> QED BY <1>1, <1>2 DEF EndOf, Ends, Acc

(* A history that gains places keeps what it says of those it had.             *)
Prolongs(h, g, c) ==
    /\ \A z \in Reached(c) : g.r[z] = h.r[z] /\ g.ph[z] = h.ph[z]
    /\ \A z \in Before(c) : g.pos[z] = h.pos[z]

LEMMA ReachedIs ==
    ASSUME shape \in Shapes, NEW c \in Cfgs(shape), NEW z \in Before(c)
    PROVE  z \in Places /\ z \in Reached(c) /\ NextPlace(z) \in Reached(c)
<1>1. z \in Places /\ z[2] < c.ts[z[1]].pc BY DEF Before
<1>2. z[1] \in Threads(shape) /\ z[2] \in Nat \ {0} BY <1>1, PlacesAre
<1>3. c.ts[z[1]].pc \in Nat BY <1>2, PlaceIs
<1>4. NextPlace(z) \in Places /\ NextPlace(z)[1] = z[1] /\ NextPlace(z)[2] = z[2] + 1 BY <1>1, PlacesAre
<1> QED BY <1>1, <1>2, <1>3, <1>4 DEF Reached

LEMMA SameThere ==
    ASSUME NEW h, NEW g, NEW c, Prolongs(h, g, c), NEW z \in Reached(c)
    PROVE  At(g, z) = At(h, z) /\ Acc(g, z) = Acc(h, z) /\ EndOf(g, z) = EndOf(h, z)
           /\ WordOf(g, z) = WordOf(h, z) /\ g.ph[z] = h.ph[z] /\ g.r[z] = h.r[z]
BY DEF Prolongs, At, Acc, EndOf, WordOf

LEMMA LeavesKept ==
    ASSUME shape \in Shapes, NEW c \in Cfgs(shape), NEW h, NEW g, Prolongs(h, g, c),
           NEW E \in SUBSET Before(c), NEW F,
           \A z \in (E \ F) \cup (F \ E) : Acc(g, z).kind \in {"none", "read"},
           NEW w, NEW v, Leaves(h, E, w, v)
    PROVE  Leaves(g, F, w, v)
<1>1. \A z \in E : Acc(g, z) = Acc(h, z) /\ WordOf(g, z) = WordOf(h, z) /\ g.pos[z] = h.pos[z] /\ g.r[z] = h.r[z]
    <2> TAKE z \in E
    <2>1. z \in Before(c) OBVIOUS
    <2>2. z \in Reached(c) BY <2>1, ReachedIs
    <2>3. Acc(g, z) = Acc(h, z) /\ WordOf(g, z) = WordOf(h, z) /\ g.r[z] = h.r[z] BY <2>2, SameThere
    <2>4. g.pos[z] = h.pos[z] BY <2>1 DEF Prolongs
    <2> QED BY <2>3, <2>4
<1>2. Writers(h, E, w) = Writers(g, F, w) BY <1>1 DEF Writers
<1>3. Writers(h, E, w) \subseteq E BY DEF Writers
<1> QED BY <1>1, <1>2, <1>3, LeavesSame

LEMMA HistoryKept ==
    ASSUME shape \in Shapes, NEW c \in Cfgs(shape), NEW d \in Cfgs(shape),
           NEW h \in Histories, NEW g \in Histories, NEW n \in Nat, HistoryOf(h, n, c), Prolongs(h, g, c),
           Before(c) \subseteq Before(d),
           \A z \in Before(d) \ Before(c) : Acc(g, z) # NoAccess => g.pos[z] = n
    PROVE  /\ Starts(g)
           /\ \A z \in Before(c) : GoesOn(g, Before(d), z) /\ Aligned(g, Before(d), z)
           /\ \A z \in Accessed(g, Before(c)) : g.pos[z] < n
           /\ \A y, z \in Accessed(g, Before(c)) : InLine(g, y, z)
           /\ \A y, z \in Reached(c) : y[1] = z[1] /\ y[2] <= z[2] => g.ph[y] <= g.ph[z]
           /\ \A w \in Words(shape) : Leaves(g, Before(c), w, c.mem[w])
<1>1. \A z \in Reached(c) : /\ At(g, z) = At(h, z) /\ Acc(g, z) = Acc(h, z) /\ EndOf(g, z) = EndOf(h, z)
                            /\ WordOf(g, z) = WordOf(h, z) /\ g.ph[z] = h.ph[z] /\ g.r[z] = h.r[z]
    BY SameThere
<1>2. \A z \in Before(c) : z \in Places /\ z \in Reached(c) /\ NextPlace(z) \in Reached(c) /\ g.pos[z] = h.pos[z]
    BY ReachedIs DEF Prolongs
<1>3. Starts(g)
    <2> SUFFICES ASSUME NEW t \in Threads(shape) PROVE g.r[<<t, 1>>] = 0 /\ g.ph[<<t, 1>>] = 0 BY DEF Starts
    <2>1. <<t, 1>> \in Reached(c)
        <3>1. c.ts[t].pc \in Nat \ {0} BY PlaceIs
        <3> QED BY <3>1 DEF Reached, Places
    <2>2. h.r[<<t, 1>>] = 0 /\ h.ph[<<t, 1>>] = 0 BY DEF HistoryOf, Starts
    <2> QED BY <1>1, <2>1, <2>2
<1>4. Accessed(g, Before(c)) = Accessed(h, Before(c)) BY <1>1, <1>2 DEF Accessed
<1>5. \A z \in Accessed(g, Before(c)) : g.pos[z] < n
    BY <1>2, <1>4 DEF Accessed, HistoryOf
<1>6. ASSUME NEW y \in Accessed(g, Before(c)), NEW z \in Accessed(g, Before(c)) PROVE InLine(g, y, z)
    <2>1. InLine(h, y, z) BY <1>4 DEF HistoryOf
    <2>2. y \in Before(c) /\ z \in Before(c) BY DEF Accessed
    <2> QED BY <1>1, <1>2, <2>1, <2>2 DEF InLine
<1>7. \A y, z \in Reached(c) : y[1] = z[1] /\ y[2] <= z[2] => g.ph[y] <= g.ph[z]
    BY <1>1 DEF HistoryOf, Rises
<1>8. ASSUME NEW w \in Words(shape) PROVE Leaves(g, Before(c), w, c.mem[w])
    <2>1. Leaves(h, Before(c), w, c.mem[w]) BY DEF HistoryOf
    <2> QED BY <2>1, LeavesKept
<1>9. ASSUME NEW z \in Before(c) PROVE GoesOn(g, Before(d), z)
    <2>1. GoesOn(h, Before(c), z) BY DEF HistoryOf
    <2>2. z \in Places /\ z \in Reached(c) /\ NextPlace(z) \in Reached(c) BY <1>2
    <2>3. ASSUME Acc(g, z).kind = "read" PROVE Leaves(g, Earlier(g, Before(d), z), WordOf(g, z), g.r[NextPlace(z)])
        <3> DEFINE E == Earlier(h, Before(c), z)
                   F == Earlier(g, Before(d), z)
        <3>1. Leaves(h, E, WordOf(h, z), h.r[NextPlace(z)]) BY <1>1, <2>1, <2>2, <2>3 DEF GoesOn
        <3>2. E \in SUBSET Before(c) BY DEF Earlier
        <3>3. Acc(g, z) # NoAccess BY <2>3 DEF NoAccess
        <3>4. g.pos[z] < n BY <1>5, <3>3 DEF Accessed
        <3>5. E \ F = {} BY <1>2 DEF Earlier
        <3>6. ASSUME NEW y \in F \ E PROVE Acc(g, y).kind = "none"
            <4>1. y \in Before(d) /\ g.pos[y] < g.pos[z] BY DEF Earlier
            <4>2. y \notin Before(c) BY <1>2, <4>1 DEF Earlier
            <4>3. y \in Places BY <4>1 DEF Before
            <4>4. g.pos[y] \in Nat /\ g.pos[z] \in Nat BY <2>2, <4>3 DEF Histories
            <4>5. g.pos[y] # n BY <3>4, <4>1, <4>4
            <4>6. Acc(g, y) = NoAccess BY <4>1, <4>2, <4>5
            <4> QED BY <4>6 DEF NoAccess
        <3> HIDE DEF E, F
        <3>7. Leaves(g, F, WordOf(h, z), h.r[NextPlace(z)]) BY <3>1, <3>2, <3>5, <3>6, LeavesKept
        <3>8. WordOf(g, z) = WordOf(h, z) /\ g.r[NextPlace(z)] = h.r[NextPlace(z)] BY <1>1, <2>2
        <3> QED BY <3>7, <3>8 DEF F
    <2> QED BY <1>1, <2>1, <2>2, <2>3 DEF GoesOn
<1>10. ASSUME NEW z \in Before(c) PROVE Aligned(g, Before(d), z)
    <2>1. Aligned(h, Before(c), z) BY DEF HistoryOf
    <2>2. z \in Reached(c) BY <1>2
    <2>3. ASSUME EndOf(g, z) = "wait", NEW u \in Threads(shape), Cta(u) = Cta(z[1])
          PROVE  <<u, z[2]>> \in Before(d) /\ EndOf(g, <<u, z[2]>>) = "wait" /\ g.ph[<<u, z[2]>>] = g.ph[z]
        <3>1. <<u, z[2]>> \in Before(c) /\ EndOf(h, <<u, z[2]>>) = "wait" /\ h.ph[<<u, z[2]>>] = h.ph[z]
            BY <1>1, <2>1, <2>2, <2>3 DEF Aligned
        <3>2. <<u, z[2]>> \in Reached(c) BY <1>2, <3>1
        <3> QED BY <1>1, <2>2, <3>1, <3>2
    <2> QED BY <2>3 DEF Aligned
<1> QED BY <1>3, <1>5, <1>6, <1>7, <1>8, <1>9, <1>10

(* Without atomics that return what they found, only loads read.               *)
LEMMA OnlyLoadsRead ==
    ASSUME shape \in Shapes, kernel \in Bodies, ~Old(kernel), NEW t \in Threads(shape), NEW x \in Thread
    PROVE  Reads(kernel, t, x) <=> Pending(kernel, t, x).kind = "read"
<1> DEFINE i == Instr(kernel, x)
           a == Pending(kernel, t, x)
<1>1. CASE a = NoAccess
    <2>1. a.kind # "read" BY <1>1 DEF NoAccess
    <2> QED BY <1>1, <2>1 DEF Reads
<1>2. CASE a # NoAccess
    <2>1. a.kind = Kind(i) /\ x.pc <= Len(kernel) /\ i.op \in {"ld", "st", "red", "atom"} BY <1>2, PendingIs
    <2>2. x.pc \in 1 .. Len(kernel) /\ i = kernel[x.pc] /\ DOMAIN kernel = 1 .. Len(kernel) BY <2>1, InstrIs
    <2>3. i.op # "atom" BY <2>2 DEF Old
    <2> HIDE DEF i
    <2>4. Kind(i) = "read" <=> i.op = "ld" BY <2>1 DEF Kind
    <2> QED BY <1>2, <2>1, <2>3, <2>4 DEF Reads, i
<1> QED BY <1>1, <1>2

(* And all atomics are those of red.                                           *)
LEMMA OnlyReds ==
    ASSUME shape \in Shapes, kernel \in Bodies, ~Old(kernel), NEW t \in Threads(shape), NEW x \in Thread,
           Pending(kernel, t, x).kind = "atomic"
    PROVE  Pending(kernel, t, x).by \in Reds
<1>1. Pending(kernel, t, x) # NoAccess BY DEF NoAccess
<1>2. x.pc <= Len(kernel) BY <1>1, PendingIs
<1>3. x.pc \in 1 .. Len(kernel) /\ Instr(kernel, x) = kernel[x.pc] /\ DOMAIN kernel = 1 .. Len(kernel)
    BY <1>2, InstrIs
<1>4. Instr(kernel, x).op # "atom" BY <1>3 DEF Old
<1> QED BY <1>1, <1>4, PendingIs

(* The places of an execution when one thread steps.                           *)
LEMMA OnePlaceMore ==
    ASSUME shape \in Shapes, NEW c \in Cfgs(shape), NEW d \in Cfgs(shape), NEW t \in Threads(shape),
           d.ts[t].pc = c.ts[t].pc + 1, \A u \in Threads(shape) : u # t => d.ts[u] = c.ts[u]
    PROVE  /\ Before(d) = Before(c) \cup {Place(c, t)}
           /\ Reached(d) = Reached(c) \cup {NextPlace(Place(c, t))}
           /\ Place(d, t) = NextPlace(Place(c, t)) /\ NextPlace(Place(c, t)) \notin Reached(c)
           /\ \A u \in Threads(shape) : u # t => Place(d, u) = Place(c, u)
<1> DEFINE x == Place(c, t)
<1>1. /\ x \in Places /\ x[1] = t /\ x[2] = c.ts[t].pc /\ x = <<t, c.ts[t].pc>> /\ c.ts[t].pc \in Nat \ {0}
      /\ NextPlace(x) \in Places /\ NextPlace(x) = <<t, c.ts[t].pc + 1>>
    BY PlaceIs DEF Place, NextPlace
<1>2. ASSUME NEW z \in Places
      PROVE  /\ z \in Before(d) <=> (z \in Before(c) \/ z = x)
             /\ z \in Reached(d) <=> (z \in Reached(c) \/ z = NextPlace(x))
    <2>1. z[1] \in Threads(shape) /\ z[2] \in Nat \ {0} /\ z = <<z[1], z[2]>> BY PlacesAre
    <2>2. CASE z[1] = t
        <3>1. z = x <=> z[2] = c.ts[t].pc BY <1>1, <2>1, <2>2
        <3>2. z = NextPlace(x) <=> z[2] = c.ts[t].pc + 1 BY <1>1, <2>1, <2>2
        <3> QED BY <1>1, <2>1, <2>2, <3>1, <3>2 DEF Before, Reached
    <2>3. CASE z[1] # t
        <3>1. z # x /\ z # NextPlace(x) BY <1>1, <2>1, <2>3
        <3> QED BY <2>1, <2>3, <3>1 DEF Before, Reached
    <2> QED BY <2>2, <2>3
<1>3. Before(d) = Before(c) \cup {x} BY <1>1, <1>2 DEF Before
<1>4. Reached(d) = Reached(c) \cup {NextPlace(x)} BY <1>1, <1>2 DEF Reached
<1>5. NextPlace(x) \notin Reached(c) BY <1>1 DEF Reached
<1> QED BY <1>1, <1>3, <1>4, <1>5 DEF Place

(* What one more access leaves.                                                *)
LEMMA OneAccessMore ==
    ASSUME shape \in Shapes, kernel \in Bodies, ~Old(kernel), NEW c \in Cfgs(shape),
           NEW t \in Threads(shape), Ends(kernel, c, t) = "ok", NEW g \in Histories, NEW E \in SUBSET Places,
           NEW x \in Places \ E, x = Place(c, t), c.ts[t].r = g.r[x],
           NEW w \in Words(shape), Leaves(g, E, w, c.mem[w]),
           \A z \in E : /\ Acc(g, z).kind \in {"write", "atomic"} /\ WordOf(g, z) = w
                        /\ Acc(g, x).kind \in {"write", "atomic"} /\ WordOf(g, x) = w
                        => /\ g.pos[z] # g.pos[x]
                           /\ ~Alike(Acc(g, z), Acc(g, x)) => g.pos[z] < g.pos[x]
    PROVE  Leaves(g, E \cup {x}, w, Moved(kernel, c, t).mem[w])
<1> DEFINE a == Pending(kernel, t, c.ts[t])
           d == Moved(kernel, c, t)
           F == E \cup {x}
<1>1. Acc(g, x) = a /\ WordOf(g, x) = Word(t, a) /\ x[1] = t
    <2>4. Place(c, t)[1] = t BY DEF Place
    <2>1. x[1] = t BY <2>4
    <2>2. c.ts[t].r = g.r[Place(c, t)] OBVIOUS
    <2>3. Acc(g, Place(c, t)) = a BY <2>2, ThreadAt
    <2> QED BY <2>1, <2>3 DEF WordOf
<1>2. /\ a = NoAccess => d.mem = c.mem
      /\ a # NoAccess => /\ a \in Accesses
                         /\ d.mem[Word(t, a)] = Written(t, c.ts[t], a, c.mem[Word(t, a)])
                         /\ \A v \in Words(shape) : v # Word(t, a) => d.mem[v] = c.mem[v]
    BY MovedIs
<1>3. a = NoAccess => a.kind = "none" BY DEF NoAccess
<1>4. a # NoAccess => a.kind \in {"read", "write", "atomic"} BY <1>2 DEF Accesses
<1> HIDE DEF a, d
<1>5. CASE a.kind \in {"none", "read"} \/ Word(t, a) # w
    <2>1. Writers(g, F, w) = Writers(g, E, w) BY <1>1, <1>5 DEF Writers
    <2>2. Leaves(g, F, w, c.mem[w]) BY <2>1, LeavesSame
    <2>3. d.mem[w] = c.mem[w]
        <3>1. CASE a = NoAccess BY <1>2, <3>1
        <3>2. CASE a # NoAccess /\ Word(t, a) # w BY <1>2, <3>2
        <3>3. CASE a # NoAccess /\ Word(t, a) = w
            <4>1. a.kind = "read" BY <1>4, <1>5, <3>3
            <4> QED BY <1>2, <3>3, <4>1 DEF Written
        <3> QED BY <3>1, <3>2, <3>3
    <2> QED BY <2>2, <2>3 DEF d
<1>6. CASE a.kind \in {"write", "atomic"} /\ Word(t, a) = w
    <2>1. Writers(g, F, w) = Writers(g, E, w) \cup {x} BY <1>1, <1>6 DEF Writers
    <2>2. a # NoAccess BY <1>3, <1>6
    <2>3. x \in Places BY PlaceIs
    <2>4. At(g, x) = c.ts[t] /\ c.ts[t] \in Thread
        <3>1. c.ts[t].r = g.r[Place(c, t)] OBVIOUS
        <3>2. At(g, Place(c, t)) = c.ts[t] BY <3>1, ThreadAt
        <3>3. c.ts[t] \in Thread BY PlaceIs
        <3> QED BY <3>2, <3>3
    <2>5. \A u : Makes(g, x, u) = Written(t, c.ts[t], a, u) BY <1>1, <2>4 DEF Makes
    <2>6. ASSUME NEW u \in Numbers PROVE Makes(g, x, u) \in Numbers
        <3>1. a.kind = "atomic" => a.by \in Atoms BY <2>2, <2>4, PendingIs DEF a
        <3>2. t \in (0 .. shape.grid - 1) \X (0 .. shape.block - 1) BY DEF Threads
        <3> QED BY <1>2, <2>2, <2>4, <2>5, <3>1, <3>2, WrittenIs
    <2>7. ASSUME NEW z \in Writers(g, E, w)
          PROVE  /\ g.pos[z] # g.pos[x]
                 /\ g.pos[z] < g.pos[x] \/ \A u \in Numbers :
                       Makes(g, x, Makes(g, z, u)) = Makes(g, z, Makes(g, x, u))
        <3>1. z \in E /\ z \in Places /\ Acc(g, z).kind \in {"write", "atomic"} /\ WordOf(g, z) = w
            BY DEF Writers
        <3>2. g.pos[z] # g.pos[x] /\ (~Alike(Acc(g, z), a) => g.pos[z] < g.pos[x])
            BY <1>1, <1>6, <3>1
        <3>3. ASSUME Alike(Acc(g, z), a), NEW u \in Numbers
              PROVE  Makes(g, x, Makes(g, z, u)) = Makes(g, z, Makes(g, x, u))
            <4>1. PICK s \in Threads(shape) : s = z[1] BY <3>1, PlacesAre
            <4>2. PICK y \in Thread : y = At(g, z) BY <3>1, AtIs
            <4>3. a.kind = "atomic" /\ Acc(g, z).kind = "atomic" /\ Acc(g, z).by = a.by
                BY <3>3 DEF Alike
            <4>4. a.by \in Reds BY <2>4, <4>3, OnlyReds DEF a
            <4>5. \A v : Makes(g, x, v) = AtomVal(a.by, v, Operand(t, c.ts[t]))
                BY <2>5, <4>3 DEF Written
            <4>6. \A v : Makes(g, z, v) = AtomVal(a.by, v, Operand(s, y))
                BY <4>1, <4>2, <4>3 DEF Makes, Written
            <4>7. a \in Accesses BY <1>2, <2>2
            <4>8. t \in (0 .. shape.grid - 1) \X (0 .. shape.block - 1)
                  /\ s \in (0 .. shape.grid - 1) \X (0 .. shape.block - 1)
                BY DEF Threads
            <4>9. a.by \in Atoms BY <4>4 DEF Atoms
            <4>10. Operand(t, c.ts[t]) \in Numbers BY <2>4, <4>7, <4>8, <4>9, WrittenIs
            <4>11. Operand(s, y) \in Numbers BY <4>7, <4>8, <4>9, WrittenIs
            <4> QED BY <4>4, <4>5, <4>6, <4>10, <4>11, AtomValsCommute
        <3> QED BY <3>2, <3>3
    <2>8. Leaves(g, F, w, Makes(g, x, c.mem[w])) BY <2>1, <2>3, <2>6, <2>7, LeavesMore
    <2>9. d.mem[w] = Makes(g, x, c.mem[w]) BY <1>2, <1>6, <2>2, <2>5
    <2> QED BY <2>8, <2>9 DEF d
<1> QED BY <1>3, <1>4, <1>5, <1>6

(* A thread that steps makes the history longer.                               *)
LEMMA StepHistory ==
    ASSUME shape \in Shapes, kernel \in Bodies, ~Old(kernel), NEW c \in Cfgs(shape),
           NEW t \in Threads(shape), Ends(kernel, c, t) = "ok",
           NEW h \in Histories, NEW n \in Nat, HistoryOf(h, n, c)
    PROVE  \E g \in Histories : /\ Prolongs(h, g, c) /\ HistoryOf(g, n + 1, Moved(kernel, c, t))
                                /\ Before(Moved(kernel, c, t)) = Before(c) \cup {Place(c, t)}
<1> DEFINE d == Moved(kernel, c, t)
           a == Pending(kernel, t, c.ts[t])
           x == Place(c, t)
           y == NextPlace(x)
           g == [r |-> [h.r EXCEPT ![y] = d.ts[t].r], ph |-> [h.ph EXCEPT ![y] = h.ph[x]],
                 pos |-> [h.pos EXCEPT ![x] = n]]
<1>1. /\ d \in Cfgs(shape) /\ d.ph = c.ph /\ \A u \in Threads(shape) : u # t => d.ts[u] = c.ts[u]
      /\ d.ts[t].pc = c.ts[t].pc + 1
      /\ ~Reads(kernel, t, c.ts[t]) => d.ts[t].r = c.ts[t].r
      /\ Reads(kernel, t, c.ts[t]) => d.ts[t].r = c.mem[Word(t, a)]
      /\ a # NoAccess => Word(t, a) \in Words(shape)
    BY MovedIs
<1>2. /\ x \in Places /\ x[1] = t /\ x[2] = c.ts[t].pc /\ x \in Reached(c) /\ x \notin Before(c)
      /\ y \in Places /\ c.ts[t] \in Thread /\ c.ts[t].pc \in Nat \ {0} /\ d.ts[t].r \in Numbers
      /\ y[1] = t /\ y[2] = c.ts[t].pc + 1
    <2>1. /\ x \in Places /\ x[1] = t /\ x[2] = c.ts[t].pc /\ x \in Reached(c) /\ x \notin Before(c)
          /\ y \in Places /\ c.ts[t] \in Thread /\ c.ts[t].pc \in Nat \ {0}
        BY PlaceIs
    <2>2. d.ts[t].r \in Numbers BY <1>1, PlaceIs
    <2> HIDE DEF x
    <2>3. y[1] = x[1] /\ y[2] = x[2] + 1 BY DEF NextPlace
    <2> QED BY <2>1, <2>2, <2>3
<1> HIDE DEF d, x, y
<1>3. /\ Before(d) = Before(c) \cup {x} /\ Reached(d) = Reached(c) \cup {y} /\ Place(d, t) = y
      /\ y \notin Reached(c) /\ \A u \in Threads(shape) : u # t => Place(d, u) = Place(c, u)
    BY <1>1, OnePlaceMore DEF x, y
<1>4. g \in Histories
    <2>1. /\ h.r \in [Places -> Numbers] /\ h.ph \in [Places -> Nat] /\ h.pos \in [Places -> Nat]
        BY DEF Histories
    <2>2. h.ph[x] \in Nat BY <1>2, <2>1
    <2> QED BY <1>2, <2>1, <2>2 DEF Histories
<1>5. /\ \A z \in Places : z # y => g.r[z] = h.r[z] /\ g.ph[z] = h.ph[z]
      /\ \A z \in Places : z # x => g.pos[z] = h.pos[z]
      /\ g.r[y] = d.ts[t].r /\ g.ph[y] = h.ph[x] /\ g.pos[x] = n
    BY <1>2 DEF Histories
<1> HIDE DEF g
<1>6. Prolongs(h, g, c)
    <2>1. \A z \in Reached(c) : z \in Places /\ z # y BY <1>3 DEF Reached
    <2>2. \A z \in Before(c) : z \in Places /\ z # x BY <1>2 DEF Before
    <2> QED BY <1>5, <2>1, <2>2 DEF Prolongs
<1>7. Before(c) \subseteq Before(d) /\ \A z \in Before(d) \ Before(c) : z = x BY <1>3
<1>8. /\ Starts(g)
      /\ \A z \in Before(c) : GoesOn(g, Before(d), z) /\ Aligned(g, Before(d), z)
      /\ \A z \in Accessed(g, Before(c)) : g.pos[z] < n
      /\ \A v, z \in Accessed(g, Before(c)) : InLine(g, v, z)
      /\ \A v, z \in Reached(c) : v[1] = z[1] /\ v[2] <= z[2] => g.ph[v] <= g.ph[z]
      /\ \A w \in Words(shape) : Leaves(g, Before(c), w, c.mem[w])
    BY <1>1, <1>4, <1>5, <1>6, <1>7, HistoryKept
<1>9. /\ c.ts[t].r = h.r[x] /\ c.ph[Cta(t)] = h.ph[x] /\ g.r[x] = h.r[x] /\ g.ph[x] = h.ph[x]
    BY <1>2, <1>6 DEF HistoryOf, IsAt, x, Prolongs
<1>10. /\ At(g, x) = c.ts[t] /\ EndOf(g, x) = "ok" /\ Acc(g, x) = a /\ WordOf(g, x) = Word(t, a)
    BY <1>2, <1>9, ThreadAt DEF x, WordOf
<1>11. IsAt(g, d)
    <2> SUFFICES ASSUME NEW u \in Threads(shape)
                 PROVE  d.ts[u].r = g.r[Place(d, u)] /\ d.ph[Cta(u)] = g.ph[Place(d, u)]
        BY DEF IsAt
    <2>1. CASE u = t BY <1>1, <1>3, <1>5, <1>9, <2>1
    <2>2. CASE u # t
        <3>1. Place(c, u) \in Reached(c) BY PlaceIs
        <3>2. c.ts[u].r = h.r[Place(c, u)] /\ c.ph[Cta(u)] = h.ph[Place(c, u)] BY DEF HistoryOf, IsAt
        <3> QED BY <1>1, <1>3, <1>6, <2>2, <3>1, <3>2 DEF Prolongs
    <2> QED BY <2>1, <2>2
<1>12. Rises(g, d)
    <2> SUFFICES ASSUME NEW v \in Reached(d), NEW z \in Reached(d), v[1] = z[1], v[2] <= z[2]
                 PROVE  g.ph[v] <= g.ph[z]
        BY DEF Rises
    <2>1. v \in Places /\ z \in Places /\ v[2] \in Nat /\ z[2] \in Nat BY PlacesAre DEF Reached
    <2>2. g.ph[v] \in Nat /\ g.ph[z] \in Nat /\ g.ph[x] \in Nat BY <1>2, <1>4, <2>1 DEF Histories
    <2>3. CASE v \in Reached(c) /\ z \in Reached(c) BY <1>8, <2>3
    <2>4. CASE v \in Reached(c) /\ z = y
        <3>1. v[1] = x[1] /\ v[2] <= x[2] BY <1>2, <2>4 DEF Reached
        <3>2. g.ph[v] <= g.ph[x] BY <1>2, <1>8, <2>4, <3>1
        <3> QED BY <1>5, <1>9, <2>4, <3>2
    <2>5. CASE v = y /\ z \in Reached(c)
        <3>1. z[2] <= c.ts[t].pc BY <1>2, <2>5 DEF Reached
        <3> QED BY <1>2, <2>1, <2>5, <3>1
    <2>6. CASE v = y /\ z = y BY <2>2, <2>6
    <2> QED BY <1>3, <2>3, <2>4, <2>5, <2>6
<1>13. GoesOn(g, Before(d), x)
    <2>1. g.ph[y] = g.ph[x] /\ g.ph[x] \in Nat BY <1>2, <1>4, <1>5, <1>9 DEF Histories
    <2>2. Reads(kernel, t, c.ts[t]) <=> a.kind = "read" BY <1>2, OnlyLoadsRead
    <2>3. a.kind # "read" => g.r[y] = g.r[x] BY <1>1, <1>5, <1>9, <2>2
    <2>4. ASSUME a.kind = "read" PROVE Leaves(g, Earlier(g, Before(d), x), Word(t, a), g.r[y])
        <3> DEFINE w == Word(t, a)
                   F == Earlier(g, Before(d), x)
        <3>1. a # NoAccess BY <2>4 DEF NoAccess
        <3>2. w \in Words(shape) /\ g.r[y] = c.mem[w] BY <1>1, <1>5, <2>2, <2>4, <3>1
        <3>3. Leaves(h, Before(c), w, c.mem[w]) BY <3>2 DEF HistoryOf
        <3>4. F \subseteq Before(c)
            <4>1. ~(g.pos[x] < g.pos[x]) BY <1>5
            <4> QED BY <1>3, <4>1 DEF Earlier
        <3>5. ASSUME NEW z \in Before(c) \ F PROVE Acc(g, z).kind = "none"
            <4>1. ~(g.pos[z] < n) BY <1>3, <1>5, <3>5 DEF Earlier
            <4>2. Acc(g, z) = NoAccess BY <1>8, <4>1 DEF Accessed
            <4> QED BY <4>2 DEF NoAccess
        <3> HIDE DEF w, F
        <3>6. (Before(c) \ F) \cup (F \ Before(c)) = Before(c) \ F BY <3>4
        <3>7. Leaves(g, F, w, c.mem[w]) BY <1>6, <3>3, <3>5, <3>6, LeavesKept
        <3> QED BY <3>2, <3>7 DEF F, w
    <2> HIDE DEF a
    <2>5. g.ph[y] = g.ph[x] + 0 BY <2>1
    <2> QED BY <1>10, <2>3, <2>4, <2>5 DEF GoesOn, y
<1>14. Aligned(g, Before(d), x) BY <1>10 DEF Aligned
<1>15. ASSUME NEW z \in Accessed(g, Before(d)) PROVE g.pos[z] < n + 1
    <2>1. z \in Places BY DEF Accessed, Before
    <2>2. g.pos[z] \in Nat BY <1>4, <2>1 DEF Histories
    <2>3. CASE z = x BY <1>5, <2>3
    <2>4. CASE z # x
        <3>1. z \in Accessed(g, Before(c)) BY <1>3, <2>4 DEF Accessed
        <3>2. g.pos[z] < n BY <1>8, <3>1
        <3> QED BY <2>2, <3>2
    <2> QED BY <2>3, <2>4
<1>16. ASSUME NEW v \in Accessed(g, Before(d)), NEW z \in Accessed(g, Before(d)) PROVE InLine(g, v, z)
    <2>1. v \in Places /\ z \in Places /\ v[2] \in Nat /\ z[2] \in Nat BY PlacesAre DEF Accessed, Before
    <2>2. g.ph[v] \in Nat /\ g.ph[z] \in Nat /\ g.pos[v] \in Nat /\ g.pos[z] \in Nat
        BY <1>4, <2>1 DEF Histories
    <2>3. v = x \/ v \in Accessed(g, Before(c)) BY <1>3 DEF Accessed
    <2>4. z = x \/ z \in Accessed(g, Before(c)) BY <1>3 DEF Accessed
    <2>5. CASE v \in Accessed(g, Before(c)) /\ z \in Accessed(g, Before(c)) BY <1>8, <2>5
    <2>6. CASE v \in Accessed(g, Before(c)) /\ z = x
        <3>1. g.pos[v] < g.pos[z] BY <1>5, <1>8, <2>6
        <3> QED BY <2>2, <3>1 DEF InLine
    <2>7. CASE v = x /\ z \in Accessed(g, Before(c))
        <3>1. z \in Before(c) BY <2>7 DEF Accessed
        <3>2. z[2] < c.ts[z[1]].pc BY <3>1 DEF Before
        <3>3. ~(v[1] = z[1] /\ v[2] < z[2]) BY <1>2, <2>1, <2>7, <3>2
        <3>4. ASSUME Cta(v[1]) = Cta(z[1]) PROVE ~(g.ph[v] < g.ph[z])
            <4>1. z[1] \in Threads(shape) BY <2>1, PlacesAre
            <4>9. PICK p : p = Place(c, z[1]) OBVIOUS
            <4>2. p \in Reached(c) /\ p[1] = z[1] /\ p[2] = c.ts[z[1]].pc /\ p \in Places /\ p[2] \in Nat
                <5>1. PICK u \in Threads(shape) : u = z[1] BY <4>1
                <5>2. /\ Place(c, u) \in Reached(c) /\ Place(c, u)[1] = u /\ Place(c, u)[2] = c.ts[u].pc
                      /\ Place(c, u) \in Places /\ c.ts[u].pc \in Nat
                    BY PlaceIs
                <5> QED BY <4>9, <5>1, <5>2
            <4>3. h.ph[p] = c.ph[Cta(z[1])] BY <4>1, <4>9 DEF HistoryOf, IsAt
            <4>4. g.ph[p] = h.ph[p] BY <1>6, <4>2 DEF Prolongs
            <4>5. z \in Reached(c) BY <3>1, ReachedIs
            <4>6. z[2] <= p[2] BY <2>1, <3>2, <4>2
            <4>7. g.ph[z] <= g.ph[p] BY <1>8, <4>2, <4>5, <4>6
            <4>8. g.ph[p] = g.ph[x] BY <1>2, <1>9, <2>7, <3>4, <4>3, <4>4
            <4> QED BY <2>2, <2>7, <4>7, <4>8
        <3>5. g.pos[v] # g.pos[z] BY <1>5, <1>8, <2>2, <2>7
        <3> QED BY <3>3, <3>4, <3>5 DEF InLine
    <2>8. CASE v = x /\ z = x
        <3>1. ~(v[2] < z[2]) /\ ~(g.ph[v] < g.ph[z]) BY <2>1, <2>2, <2>8
        <3> QED BY <2>8, <3>1 DEF InLine
    <2> QED BY <2>3, <2>4, <2>5, <2>6, <2>7, <2>8
<1>17. ASSUME NEW w \in Words(shape) PROVE Leaves(g, Before(d), w, d.mem[w])
    <2>2. Before(c) \in SUBSET Places BY DEF Before
    <2>4. \A z \in Before(c) : Acc(g, z).kind \in {"write", "atomic"} => g.pos[z] < n
        BY <1>8 DEF Accessed, NoAccess
    <2>5. Leaves(g, Before(c), w, c.mem[w]) BY <1>8
    <2>6. x \in Places \ Before(c) BY <1>2
    <2>7. c.ts[t].r = g.r[x] /\ x = Place(c, t) BY <1>9 DEF x
    <2>8. \A z \in Before(c) : /\ Acc(g, z).kind \in {"write", "atomic"} /\ WordOf(g, z) = w
                               /\ Acc(g, x).kind \in {"write", "atomic"} /\ WordOf(g, x) = w
                               => /\ g.pos[z] # g.pos[x]
                                  /\ ~Alike(Acc(g, z), Acc(g, x)) => g.pos[z] < g.pos[x]
        BY <1>4, <1>5, <2>2, <2>4 DEF Histories
    <2>9. Leaves(g, Before(c) \cup {x}, w, Moved(kernel, c, t).mem[w])
        BY <1>4, <2>2, <2>5, <2>6, <2>7, <2>8, OneAccessMore
    <2> QED BY <1>3, <2>9 DEF d
<1>18. \A z \in Before(d) : GoesOn(g, Before(d), z) /\ Aligned(g, Before(d), z)
    BY <1>7, <1>8, <1>13, <1>14
<1>19. HistoryOf(g, n + 1, d) BY <1>8, <1>11, <1>12, <1>15, <1>16, <1>17, <1>18 DEF HistoryOf
<1> QED BY <1>3, <1>4, <1>6, <1>19 DEF d, x

(* So does a CTA that is released.                                             *)
LEMMA ReleaseHistory ==
    ASSUME shape \in Shapes, kernel \in Bodies, NEW c \in Cfgs(shape), NEW b \in 0 .. shape.grid - 1,
           BarReady(kernel, shape, c, b),
           NEW h \in Histories, NEW n \in Nat, HistoryOf(h, n, c)
    PROVE  \E g \in Histories :
               /\ Prolongs(h, g, c) /\ HistoryOf(g, n, Released(shape, c, b))
               /\ \A z \in Before(Released(shape, c, b)) \ Before(c) : Acc(g, z) = NoAccess
<1> DEFINE d == Released(shape, c, b)
           Opens(z) == Cta(z[1]) = b /\ z[2] = c.ts[z[1]].pc + 1
           g == [r |-> [z \in Places |-> IF Opens(z) THEN h.r[Place(c, z[1])] ELSE h.r[z]],
                 ph |-> [z \in Places |-> IF Opens(z) THEN h.ph[Place(c, z[1])] + 1 ELSE h.ph[z]],
                 pos |-> h.pos]
<1>1. /\ d \in Cfgs(shape) /\ d.mem = c.mem
      /\ \A t \in Threads(shape) : IF Cta(t) = b
                                   THEN d.ts[t].pc = c.ts[t].pc + 1 /\ d.ts[t].r = c.ts[t].r
                                   ELSE d.ts[t] = c.ts[t]
      /\ d.ph[b] = c.ph[b] + 1 /\ \A e \in 0 .. shape.grid - 1 : e # b => d.ph[e] = c.ph[e]
    BY ReleasedIs
<1>2. ASSUME NEW t \in Threads(shape), Cta(t) = b, NEW u \in Threads(shape), Cta(u) = b
      PROVE  Ends(kernel, c, t) = "wait" /\ c.ts[t].pc = c.ts[u].pc
    BY <1>2 DEF BarReady, InCta
<1>3. \A t \in Threads(shape) :
          /\ c.ts[t].pc \in Nat \ {0} /\ c.ts[t].r \in Numbers /\ Place(c, t) \in Places
          /\ Place(c, t)[1] = t /\ Place(c, t)[2] = c.ts[t].pc /\ Place(c, t) = <<t, c.ts[t].pc>>
          /\ Place(c, t) \in Reached(c) /\ Cta(t) \in 0 .. shape.grid - 1
    <2> TAKE t \in Threads(shape)
    <2>1. Cta(t) \in 0 .. shape.grid - 1 BY ThreadIs
    <2>2. Place(c, t) = <<t, c.ts[t].pc>> BY DEF Place
    <2> QED BY <2>1, <2>2, PlaceIs
<1>4. \A z \in Places : z[1] \in Threads(shape) /\ z[2] \in Nat \ {0} /\ z = <<z[1], z[2]>> BY PlacesAre
<1> HIDE DEF d
<1>5. \A t \in Threads(shape) : d.ts[t].pc = IF Cta(t) = b THEN c.ts[t].pc + 1 ELSE c.ts[t].pc BY <1>1
<1>6. ASSUME NEW z \in Places
      PROVE  /\ z \in Before(d) <=> (z \in Before(c) \/ (Cta(z[1]) = b /\ z = Place(c, z[1])))
             /\ z \in Reached(d) <=> (z \in Reached(c) \/ Opens(z))
             /\ Opens(z) => z \notin Reached(c)
    <2>1. z[1] \in Threads(shape) /\ z[2] \in Nat \ {0} /\ z = <<z[1], z[2]>> BY <1>4
    <2>2. c.ts[z[1]].pc \in Nat \ {0} /\ Place(c, z[1]) = <<z[1], c.ts[z[1]].pc>> BY <1>3, <2>1
    <2>3. z = Place(c, z[1]) <=> z[2] = c.ts[z[1]].pc BY <2>1, <2>2
    <2>4. d.ts[z[1]].pc = IF Cta(z[1]) = b THEN c.ts[z[1]].pc + 1 ELSE c.ts[z[1]].pc BY <1>5, <2>1
    <2> QED BY <2>1, <2>2, <2>3, <2>4 DEF Before, Reached
<1>7. g \in Histories
    <2>1. /\ h.r \in [Places -> Numbers] /\ h.ph \in [Places -> Nat] /\ h.pos \in [Places -> Nat]
        BY DEF Histories
    <2>2. \A z \in Places : /\ h.r[Place(c, z[1])] \in Numbers /\ h.ph[Place(c, z[1])] \in Nat
                            /\ h.r[z] \in Numbers /\ h.ph[z] \in Nat
        BY <1>3, <1>4, <2>1
    <2> HIDE DEF Opens
    <2> QED BY <2>1, <2>2 DEF Histories
<1>8. /\ \A z \in Places : ~Opens(z) => g.r[z] = h.r[z] /\ g.ph[z] = h.ph[z]
      /\ \A z \in Places : Opens(z) => g.r[z] = h.r[Place(c, z[1])] /\ g.ph[z] = h.ph[Place(c, z[1])] + 1
      /\ g.pos = h.pos
    OBVIOUS
<1> HIDE DEF g, Opens
<1>9. Prolongs(h, g, c)
    <2>1. \A z \in Reached(c) : z \in Places /\ ~Opens(z) BY <1>6 DEF Reached
    <2> QED BY <1>8, <2>1 DEF Prolongs
<1>10. \A z \in Before(d) \ Before(c) : z \in Places /\ Cta(z[1]) = b /\ z = Place(c, z[1]) /\ z[1] \in Threads(shape)
    <2> TAKE z \in Before(d) \ Before(c)
    <2>1. z \in Places BY DEF Before
    <2> QED BY <1>4, <1>6, <2>1
<1>11. Before(c) \subseteq Before(d)
    <2>1. \A z \in Before(c) : z \in Places BY DEF Before
    <2> QED BY <1>6, <2>1
<1>12. ASSUME NEW t \in Threads(shape)
       PROVE  /\ At(g, Place(c, t)) = c.ts[t] /\ EndOf(g, Place(c, t)) = Ends(kernel, c, t)
              /\ Acc(g, Place(c, t)) = Pending(kernel, t, c.ts[t])
              /\ g.r[Place(c, t)] = c.ts[t].r /\ g.ph[Place(c, t)] = c.ph[Cta(t)]
              /\ h.r[Place(c, t)] = c.ts[t].r /\ h.ph[Place(c, t)] = c.ph[Cta(t)]
    <2>1. h.r[Place(c, t)] = c.ts[t].r /\ h.ph[Place(c, t)] = c.ph[Cta(t)] BY DEF HistoryOf, IsAt
    <2>2. g.r[Place(c, t)] = c.ts[t].r /\ g.ph[Place(c, t)] = c.ph[Cta(t)]
        BY <1>3, <1>9, <2>1 DEF Prolongs
    <2> QED BY <2>1, <2>2, ThreadAt
<1>13. ASSUME NEW z \in Before(d) \ Before(c) PROVE EndOf(g, z) = "wait" /\ Acc(g, z) = NoAccess
    <2>1. PICK t \in Threads(shape) : t = z[1] /\ Cta(t) = b /\ z = Place(c, t) BY <1>10
    <2>2. Ends(kernel, c, t) = "wait" BY <1>2, <2>1
    <2>3. c.ts[t] \in Thread BY DEF Cfgs
    <2>4. Pending(kernel, t, c.ts[t]) = NoAccess BY <2>2, <2>3, EndIs DEF Ends
    <2> QED BY <1>12, <2>1, <2>2, <2>4
<1>14. /\ Starts(g)
       /\ \A z \in Before(c) : GoesOn(g, Before(d), z) /\ Aligned(g, Before(d), z)
       /\ \A z \in Accessed(g, Before(c)) : g.pos[z] < n
       /\ \A v, z \in Accessed(g, Before(c)) : InLine(g, v, z)
       /\ \A v, z \in Reached(c) : v[1] = z[1] /\ v[2] <= z[2] => g.ph[v] <= g.ph[z]
       /\ \A w \in Words(shape) : Leaves(g, Before(c), w, c.mem[w])
    BY <1>1, <1>7, <1>9, <1>11, <1>13, HistoryKept
<1>15. Accessed(g, Before(d)) = Accessed(g, Before(c)) BY <1>11, <1>13 DEF Accessed
<1>16. ASSUME NEW t \in Threads(shape), Cta(t) = b
       PROVE  Opens(Place(d, t)) /\ Place(d, t) \in Places /\ Place(d, t) = <<t, c.ts[t].pc + 1>>
              /\ Place(d, t)[1] = t
    <2>1. Place(d, t) = <<t, c.ts[t].pc + 1>> /\ c.ts[t].pc \in Nat BY <1>3, <1>5, <1>16 DEF Place
    <2> QED BY <1>16, <2>1 DEF Opens, Places
<1>17. IsAt(g, d)
    <2> SUFFICES ASSUME NEW u \in Threads(shape)
                 PROVE  d.ts[u].r = g.r[Place(d, u)] /\ d.ph[Cta(u)] = g.ph[Place(d, u)]
        BY DEF IsAt
    <2>1. CASE Cta(u) = b BY <1>1, <1>8, <1>12, <1>16, <2>1
    <2>2. CASE Cta(u) # b
        <3>1. d.ts[u] = c.ts[u] /\ Place(d, u) = Place(c, u) BY <1>1, <2>2 DEF Place
        <3> QED BY <1>1, <1>3, <1>12, <2>2, <3>1
    <2> QED BY <2>1, <2>2
<1>18. Rises(g, d)
    <2> SUFFICES ASSUME NEW v \in Reached(d), NEW z \in Reached(d), v[1] = z[1], v[2] <= z[2]
                 PROVE  g.ph[v] <= g.ph[z]
        BY DEF Rises
    <2>1. v \in Places /\ z \in Places BY DEF Reached
    <2>2. g.ph[v] \in Nat /\ g.ph[z] \in Nat BY <1>7, <2>1 DEF Histories
    <2>3. v[2] \in Nat /\ z[2] \in Nat /\ v[1] \in Threads(shape) BY <1>4, <2>1
    <2>4. PICK t \in Threads(shape) : t = v[1] /\ t = z[1] BY <2>3
    <2>5. PICK p \in Reached(c) : p = Place(c, t) /\ p[1] = t /\ p[2] = c.ts[t].pc /\ p[2] \in Nat
        BY <1>3
    <2>6. p \in Places /\ g.ph[p] \in Nat /\ g.ph[p] = h.ph[p] BY <1>7, <1>12, <2>5 DEF Histories, Reached
    <2>7. CASE v \in Reached(c) /\ z \in Reached(c) BY <1>14, <2>7
    <2>8. CASE v \in Reached(c) /\ Opens(z)
        <3>1. v[2] <= p[2] BY <2>4, <2>5, <2>8 DEF Reached
        <3>2. g.ph[v] <= g.ph[p] BY <1>14, <2>4, <2>5, <2>8, <3>1
        <3>3. g.ph[z] = g.ph[p] + 1 BY <1>8, <2>1, <2>4, <2>5, <2>6, <2>8
        <3> QED BY <2>2, <2>6, <3>2, <3>3
    <2>9. CASE Opens(v) /\ z \in Reached(c)
        <3>1. v[2] = p[2] + 1 /\ z[2] <= p[2] BY <2>4, <2>5, <2>9 DEF Reached, Opens
        <3> QED BY <2>3, <2>5, <3>1
    <2>10. CASE Opens(v) /\ Opens(z)
        <3>1. v[2] = z[2] BY <2>4, <2>10 DEF Opens
        <3>2. v = z BY <1>4, <2>1, <2>4, <3>1
        <3> QED BY <2>2, <3>2
    <2> QED BY <1>6, <2>1, <2>7, <2>8, <2>9, <2>10
<1>19. ASSUME NEW z \in Before(d) \ Before(c) PROVE GoesOn(g, Before(d), z) /\ Aligned(g, Before(d), z)
    <2>1. PICK t \in Threads(shape) : t = z[1] /\ Cta(t) = b /\ z = Place(c, t) BY <1>10
    <2>2. EndOf(g, z) = "wait" /\ Acc(g, z) = NoAccess BY <1>13
    <2>3. Acc(g, z).kind = "none" BY <2>2 DEF NoAccess
    <2>4. NextPlace(z) = Place(d, t) BY <1>3, <1>16, <2>1 DEF NextPlace
    <2>5. Opens(Place(d, t)) /\ Place(d, t) \in Places /\ Place(d, t)[1] = t BY <1>16, <2>1
    <2>6. g.r[NextPlace(z)] = g.r[z] /\ g.ph[NextPlace(z)] = g.ph[z] + 1
        <3>1. g.r[Place(d, t)] = h.r[Place(c, t)] /\ g.ph[Place(d, t)] = h.ph[Place(c, t)] + 1
            BY <1>8, <2>5
        <3>2. g.r[Place(c, t)] = h.r[Place(c, t)] /\ g.ph[Place(c, t)] = h.ph[Place(c, t)] BY <1>12
        <3> QED BY <2>1, <2>4, <3>1, <3>2
    <2>7. GoesOn(g, Before(d), z) BY <2>2, <2>3, <2>6 DEF GoesOn
    <2>8. ASSUME NEW u \in Threads(shape), Cta(u) = Cta(z[1])
          PROVE  <<u, z[2]>> \in Before(d) /\ EndOf(g, <<u, z[2]>>) = "wait" /\ g.ph[<<u, z[2]>>] = g.ph[z]
        <3>1. Cta(u) = b BY <2>1, <2>8
        <3>2. c.ts[u].pc = c.ts[t].pc /\ Ends(kernel, c, u) = "wait" BY <1>2, <2>1, <3>1
        <3>3. <<u, z[2]>> = Place(c, u) /\ Place(c, u) \in Places /\ Place(c, u)[1] = u
            BY <1>3, <2>1, <3>2
        <3>4. Place(c, u) \in Before(d) BY <1>6, <3>1, <3>3
        <3> QED BY <1>12, <2>1, <3>1, <3>2, <3>3, <3>4
    <2>9. Aligned(g, Before(d), z) BY <2>8 DEF Aligned
    <2> QED BY <2>7, <2>9
<1>20. ASSUME NEW w \in Words(shape) PROVE Leaves(g, Before(d), w, d.mem[w])
    <2>1. Leaves(g, Before(c), w, c.mem[w]) BY <1>14
    <2>2. \A z \in Before(d) \ Before(c) : Acc(g, z).kind = "none" BY <1>13 DEF NoAccess
    <2>3. Writers(g, Before(c), w) = Writers(g, Before(d), w) BY <1>11, <2>2 DEF Writers
    <2>5. Leaves(g, Before(d), w, c.mem[w]) BY <2>1, <2>3, LeavesSame
    <2> QED BY <1>1, <2>5
<1>21. \A z \in Before(d) : GoesOn(g, Before(d), z) /\ Aligned(g, Before(d), z) BY <1>14, <1>19
<1>22. HistoryOf(g, n, d) BY <1>14, <1>15, <1>17, <1>18, <1>20, <1>21 DEF HistoryOf
<1> QED BY <1>7, <1>9, <1>13, <1>22 DEF d

(* An interleaving of a kernel whose one schedule passed: it is on the way to  *)
(* where that schedule ended, and has the history in common with it.           *)
Follows(h, c, d) ==
    /\ IsAt(h, d)
    /\ \A t \in Threads(shape) : d.ts[t].pc <= c.ts[t].pc
    /\ \A w \in Words(shape) : Leaves(h, Before(d), w, d.mem[w])

(* All of this is about the kernel and the launch, which stay.                 *)
LEMMA SamePast ==
    ASSUME UNCHANGED <<kernel, shape>>
    PROVE  /\ Places' = Places /\ Histories' = Histories
           /\ \A h, n, c : HistoryOf(h, n, c)' <=> HistoryOf(h, n, c)
           /\ \A h, c, evs : Recorded(h, Before(c), evs)' <=> Recorded(h, Before(c), evs)
           /\ \A h, c, d : Follows(h, c, d)' <=> Follows(h, c, d)
<1>1. kernel' = kernel /\ shape' = shape OBVIOUS
<1>2. Places' = Places /\ Histories' = Histories BY <1>1 DEF Places, Histories
<1>3. \A c : Before(c)' = Before(c) /\ Reached(c)' = Reached(c) BY <1>2 DEF Before, Reached
<1>4. \A h, z : Acc(h, z)' = Acc(h, z) /\ EndOf(h, z)' = EndOf(h, z) /\ WordOf(h, z)' = WordOf(h, z)
    BY <1>1 DEF Acc, EndOf, WordOf, At
<1>5. /\ \A h, E, w : Writers(h, E, w)' = Writers(h, E, w)
      /\ \A h, z, v : Makes(h, z, v)' = Makes(h, z, v)
    BY <1>4 DEF Writers, Makes, At
<1>6. \A h, E, w, v : Leaves(h, E, w, v)' <=> Leaves(h, E, w, v)
    <2> SUFFICES ASSUME NEW h, NEW E, NEW w, NEW v PROVE Leaves(h, E, w, v)' <=> Leaves(h, E, w, v)
        OBVIOUS
    <2>1. \A f : Traces(h, E, w, f)' <=> Traces(h, E, w, f) BY <1>5 DEF Traces
    <2> QED BY <2>1 DEF Leaves
<1>7. \A h, E, z : /\ GoesOn(h, E, z)' <=> GoesOn(h, E, z)
                   /\ Aligned(h, E, z)' <=> Aligned(h, E, z)
                   /\ Accessed(h, E)' = Accessed(h, E)
    BY <1>1, <1>4, <1>6 DEF GoesOn, Aligned, Accessed, Earlier
<1>8. \A h, c : /\ Starts(h)' <=> Starts(h)
                /\ IsAt(h, c)' <=> IsAt(h, c)
                /\ Rises(h, c)' <=> Rises(h, c)
    BY <1>1, <1>3 DEF Starts, IsAt, Rises, Place
<1>9. \A h, n, c : HistoryOf(h, n, c)' <=> HistoryOf(h, n, c)
    BY <1>1, <1>3, <1>6, <1>7, <1>8 DEF HistoryOf, InLine
<1>10. \A h, c, evs : Recorded(h, Before(c), evs)' <=> Recorded(h, Before(c), evs)
    BY <1>3, <1>4, <1>7 DEF Recorded
<1>11. \A h, c, d : Follows(h, c, d)' <=> Follows(h, c, d)
    BY <1>1, <1>3, <1>6, <1>8 DEF Follows
<1> QED BY <1>2, <1>9, <1>10, <1>11

(* The search keeps a history, and its record has every access of it.          *)
Logged ==
    ~Old(kernel) =>
        \E h \in Histories, n \in Nat :
            HistoryOf(h, n, run.cfg) /\ Recorded(h, Before(run.cfg), run.events)

(* Before the first step nothing has happened.                                 *)
LEMMA NothingYet ==
    ASSUME shape \in Shapes
    PROVE  /\ Before(Launched(shape)) = {}
           /\ \A z \in Reached(Launched(shape)) : z[2] = 1
<1>1. \A t \in Threads(shape) : Launched(shape).ts[t].pc = 1 BY LaunchedIs
<1>2. \A z \in Places : z[1] \in Threads(shape) /\ z[2] \in Nat \ {0} BY PlacesAre
<1>3. \A z \in Places : ~(z[2] < 1) /\ (z[2] <= 1 => z[2] = 1) BY <1>2
<1> QED BY <1>1, <1>2, <1>3 DEF Before, Reached

LEMMA HistoryStarts ==
    ASSUME shape \in Shapes
    PROVE  \E h \in Histories : HistoryOf(h, 0, Launched(shape))
<1> DEFINE c == Launched(shape)
           h == [r |-> [z \in Places |-> 0], ph |-> [z \in Places |-> 0], pos |-> [z \in Places |-> 0]]
<1>1. /\ c \in Cfgs(shape) /\ \A t \in Threads(shape) : c.ts[t].pc = 1 /\ c.ts[t].r = 0
      /\ \A w \in Words(shape) : c.mem[w] = 0
      /\ \A b \in 0 .. shape.grid - 1 : c.ph[b] = 0
    <2>1. /\ Launched(shape) \in Cfgs(shape)
          /\ \A t \in Threads(shape) : Launched(shape).ts[t].pc = 1 /\ Launched(shape).ts[t].r = 0
          /\ \A w \in Words(shape) : Launched(shape).mem[w] = 0
          /\ \A b \in 0 .. shape.grid - 1 : Launched(shape).ph[b] = 0
        BY LaunchedIs
    <2> QED BY <2>1
<1>2. Before(c) = {} /\ \A z \in Reached(c) : z \in Places BY NothingYet DEF Reached
<1>3. h \in Histories
    <2>1. 0 \in Numbers BY LaunchesAssumption DEF Numbers
    <2> QED BY <2>1 DEF Histories
<1>4. \A z \in Places : h.r[z] = 0 /\ h.ph[z] = 0 /\ h.pos[z] = 0 OBVIOUS
<1> HIDE DEF c, h
<1>5. \A t \in Threads(shape) : <<t, 1>> \in Places BY DEF Places
<1>6. Starts(h) BY <1>4, <1>5 DEF Starts
<1>7. IsAt(h, c)
    <2> SUFFICES ASSUME NEW t \in Threads(shape)
                 PROVE  c.ts[t].r = h.r[Place(c, t)] /\ c.ph[Cta(t)] = h.ph[Place(c, t)]
        BY DEF IsAt
    <2>1. Place(c, t) \in Places BY <1>1, PlaceIs
    <2>2. Cta(t) \in 0 .. shape.grid - 1 BY ThreadIs
    <2> QED BY <1>1, <1>4, <2>1, <2>2
<1>8. Rises(h, c) BY <1>2, <1>4 DEF Rises
<1>9. ASSUME NEW w \in Words(shape) PROVE Leaves(h, Before(c), w, c.mem[w])
    <2>1. Writers(h, {}, w) = {} BY DEF Writers
    <2> QED BY <1>1, <1>2, <2>1, NothingLeaves
<1>10. Accessed(h, Before(c)) = {} BY <1>2 DEF Accessed
<1>11. HistoryOf(h, 0, c) BY <1>2, <1>6, <1>7, <1>8, <1>9, <1>10 DEF HistoryOf
<1> QED BY <1>3, <1>11 DEF c

LEMMA LoggedAtStart ==
    ASSUME LaunchInit
    PROVE  Logged
<1>1. shape \in Shapes /\ run.cfg = Launched(shape) BY DEF LaunchInit, SearchStart
<1>2. PICK h \in Histories : HistoryOf(h, 0, run.cfg) BY <1>1, HistoryStarts
<1>3. Accessed(h, Before(run.cfg)) = {} BY <1>1, NothingYet DEF Accessed
<1>4. Recorded(h, Before(run.cfg), run.events) BY <1>3 DEF Recorded
<1> QED BY <1>2, <1>4 DEF Logged

LEMMA LoggedOn ==
    ASSUME SearchTypes, SearchTurns, Logged, [LaunchNext]_launchVars
    PROVE  Logged'
<1> SUFFICES ASSUME ~Old(kernel)' PROVE Logged' BY DEF Logged
<1>1. shape \in Shapes /\ kernel \in Bodies BY DEF SearchTypes
<1>2. kernel' = kernel /\ shape' = shape
    BY AdvanceIs, EndTurnIs, EndRoundIs, EndCtaIs DEF LaunchNext, Step, Barrier, launchVars
<1>3. ~Old(kernel) BY <1>2 DEF Old
<1>4. PICK h \in Histories, n \in Nat : HistoryOf(h, n, run.cfg) /\ Recorded(h, Before(run.cfg), run.events)
    BY <1>3 DEF Logged
<1>5. ASSUME NEW g \in Histories, NEW m \in Nat, HistoryOf(g, m, run'.cfg),
             Recorded(g, Before(run'.cfg), run'.events)
      PROVE  Logged'
    <2>1. Histories' = Histories BY <1>2, SamePast
    <2>2. HistoryOf(g, m, run.cfg)' /\ Recorded(g, Before(run.cfg), run.events)' BY <1>2, <1>5, SamePast
    <2> QED BY <2>1, <2>2 DEF Logged
<1>6. CASE run'.cfg = run.cfg /\ run'.events = run.events BY <1>4, <1>5, <1>6
<1>7. CASE Advance
    <2> DEFINE a == Pending(kernel, Turn, run.cfg.ts[Turn])
               x == Place(run.cfg, Turn)
               e == [t |-> Turn, phase |-> run.cfg.ph[run.cta], access |-> a,
                     prefix |-> Len(run.choices), within |-> run.within]
    <2>1. /\ run'.cfg = Moved(kernel, run.cfg, Turn) /\ Ends(kernel, run.cfg, Turn) = "ok"
          /\ run'.events = IF a = NoAccess THEN run.events ELSE Append(run.events, e)
          /\ Turn \in Threads(shape) /\ run.cfg \in Cfgs(shape) /\ run.events \in Seq(Events(shape))
          /\ a # NoAccess => e \in Events(shape)
        BY <1>7, AdvanceIs, SearchFields
    <2>2. Cta(Turn) = run.cta BY DEF Turn, Cta
    <2>3. PICK g \in Histories : /\ Prolongs(h, g, run.cfg) /\ HistoryOf(g, n + 1, run'.cfg)
                                 /\ Before(run'.cfg) = Before(run.cfg) \cup {x}
        BY <1>1, <1>3, <1>4, <2>1, StepHistory
    <2>4. run.cfg.ts[Turn].r = h.r[x] /\ h.ph[x] = run.cfg.ph[run.cta] /\ x \in Reached(run.cfg) /\ x[1] = Turn
        BY <1>1, <1>4, <2>1, <2>2, PlaceIs DEF HistoryOf, IsAt
    <2>5. g.ph[x] = run.cfg.ph[run.cta] /\ Acc(g, x) = a
        <3>1. Acc(h, x) = a BY <1>1, <2>1, <2>4, ThreadAt
        <3> QED BY <2>3, <2>4, <3>1, SameThere
    <2> HIDE DEF a, x
    <2>6. ASSUME NEW z \in Accessed(g, Before(run'.cfg))
          PROVE  \E i \in DOMAIN run'.events :
                     /\ run'.events[i].t = z[1] /\ run'.events[i].phase = g.ph[z]
                     /\ run'.events[i].access = Acc(g, z)
        <3>1. CASE z = x
            <4>1. a # NoAccess BY <2>5, <2>6, <3>1 DEF Accessed
            <4>2. run'.events = Append(run.events, e) BY <2>1, <4>1
            <4>3. Len(run.events) + 1 \in DOMAIN run'.events /\ run'.events[Len(run.events) + 1] = e
                <5> HIDE DEF e
                <5>1. e \in Events(shape) BY <2>1, <4>1
                <5> QED BY <2>1, <4>2, <5>1
            <4>4. e.t = Turn /\ e.phase = run.cfg.ph[run.cta] /\ e.access = a OBVIOUS
            <4> QED BY <2>4, <2>5, <3>1, <4>3, <4>4
        <3>2. CASE z # x
            <4>1. z \in Before(run.cfg) BY <2>3, <3>2 DEF Accessed
            <4>2. z \in Reached(run.cfg) BY <1>1, <2>1, <4>1, ReachedIs
            <4>3. Acc(g, z) = Acc(h, z) /\ g.ph[z] = h.ph[z] BY <2>3, <4>2, SameThere
            <4>4. z \in Accessed(h, Before(run.cfg)) BY <4>1, <4>3 DEF Accessed
            <4>5. PICK i \in DOMAIN run.events :
                      run.events[i].t = z[1] /\ run.events[i].phase = h.ph[z] /\ run.events[i].access = Acc(h, z)
                BY <1>4, <4>4 DEF Recorded
            <4>6. i \in DOMAIN run'.events /\ run'.events[i] = run.events[i]
                <5>1. CASE a = NoAccess BY <2>1, <5>1
                <5>2. CASE a # NoAccess
                    <6> HIDE DEF e
                    <6> QED BY <2>1, <5>2
                <5> QED BY <5>1, <5>2
            <4> QED BY <4>3, <4>5, <4>6
        <3> QED BY <3>1, <3>2
    <2>7. Recorded(g, Before(run'.cfg), run'.events) BY <2>6 DEF Recorded
    <2> QED BY <1>5, <2>3, <2>7
<1>8. CASE EndRound /\ BarReady(kernel, shape, run.cfg, run.cta)
    <2>1. /\ run'.cfg = Released(shape, run.cfg, run.cta) /\ run'.events = run.events
          /\ run.cta \in 0 .. shape.grid - 1 /\ run.cfg \in Cfgs(shape)
        BY <1>8, EndRoundIs, SearchFields
    <2>2. PICK g \in Histories : /\ Prolongs(h, g, run.cfg) /\ HistoryOf(g, n, run'.cfg)
                                 /\ \A z \in Before(run'.cfg) \ Before(run.cfg) : Acc(g, z) = NoAccess
        BY <1>1, <1>4, <1>8, <2>1, ReleaseHistory
    <2>3. ASSUME NEW z \in Accessed(g, Before(run'.cfg))
          PROVE  z \in Accessed(h, Before(run.cfg)) /\ Acc(g, z) = Acc(h, z) /\ g.ph[z] = h.ph[z]
        <3>1. z \in Before(run.cfg) BY <2>2 DEF Accessed
        <3>2. z \in Reached(run.cfg) BY <1>1, <2>1, <3>1, ReachedIs
        <3>3. Acc(g, z) = Acc(h, z) /\ g.ph[z] = h.ph[z] BY <2>2, <3>2, SameThere
        <3> QED BY <3>1, <3>3 DEF Accessed
    <2>4. Recorded(g, Before(run'.cfg), run'.events)
        <3> SUFFICES ASSUME NEW z \in Accessed(g, Before(run'.cfg))
                     PROVE  \E i \in DOMAIN run.events :
                                /\ run.events[i].t = z[1] /\ run.events[i].phase = g.ph[z]
                                /\ run.events[i].access = Acc(g, z)
            BY <2>1 DEF Recorded
        <3> QED BY <1>4, <2>3 DEF Recorded
    <2> QED BY <1>5, <2>2, <2>4
<1>9. CASE EndRound /\ ~BarReady(kernel, shape, run.cfg, run.cta) BY <1>6, <1>9, EndRoundIs
<1>10. CASE EndTurn BY <1>6, <1>10, EndTurnIs
<1>11. CASE EndCta BY <1>6, <1>11, EndCtaIs
<1>12. CASE \E t \in Threads(shape) : Step(t)
    <2>1. run' = run BY <1>12 DEF Step
    <2> QED BY <1>6, <2>1
<1>13. CASE \E b \in 0 .. shape.grid - 1 : Barrier(b)
    <2>1. run' = run BY <1>13 DEF Barrier
    <2> QED BY <1>6, <2>1
<1>14. CASE UNCHANGED launchVars BY <1>6, <1>14 DEF launchVars
<1> QED BY <1>7, <1>8, <1>9, <1>10, <1>11, <1>12, <1>13, <1>14 DEF LaunchNext

(* Accesses of two threads that could race are apart.                          *)
Apart(h, E) ==
    \A y, z \in Accessed(h, E) :
        /\ y[1] # z[1] /\ WordOf(h, y) = WordOf(h, z)
        /\ ~(Acc(h, y).kind = "read" /\ Acc(h, z).kind = "read")
        /\ ~Alike(Acc(h, y), Acc(h, z))
        => Cta(y[1]) = Cta(z[1]) /\ h.ph[y] # h.ph[z]

LEMMA RecordsAreApart ==
    ASSUME SearchTypes, Races(run.events) = {}, ~Mingled(run.events), NEW h, NEW E,
           Recorded(h, E, run.events)
    PROVE  Apart(h, E)
<1> DEFINE evs == run.events
<1>1. SUFFICES ASSUME NEW y \in Accessed(h, E), NEW z \in Accessed(h, E),
                      y[1] # z[1], WordOf(h, y) = WordOf(h, z),
                      ~(Acc(h, y).kind = "read" /\ Acc(h, z).kind = "read"),
                      ~Alike(Acc(h, y), Acc(h, z))
               PROVE  Cta(y[1]) = Cta(z[1]) /\ h.ph[y] # h.ph[z]
    BY DEF Apart
<1>2. PICK i \in DOMAIN evs : evs[i].t = y[1] /\ evs[i].phase = h.ph[y] /\ evs[i].access = Acc(h, y)
    BY DEF Recorded
<1>3. PICK j \in DOMAIN evs : evs[j].t = z[1] /\ evs[j].phase = h.ph[z] /\ evs[j].access = Acc(h, z)
    BY DEF Recorded
<1>4. i \in Nat /\ j \in Nat BY SearchFields
<1>5. i < j \/ j < i BY <1>1, <1>2, <1>3, <1>4
<1>6. ~Race(evs[i], evs[j]) \/ ~Race(evs[j], evs[i])
    <2>1. ASSUME NEW p \in DOMAIN evs, NEW q \in DOMAIN evs, p < q, Race(evs[p], evs[q]) PROVE FALSE
        <3>1. <<p, q>> \in Races(evs) BY <2>1 DEF Races
        <3> QED BY <3>1
    <2> QED BY <1>5, <2>1
<1>7. /\ Acc(h, y).sp = Acc(h, z).sp /\ Acc(h, y).addr = Acc(h, z).addr
      /\ Acc(h, y).sp = "shared" => Cta(y[1]) = Cta(z[1])
    BY <1>1 DEF WordOf, Word
<1>8. Separated(evs[i], evs[j]) \/ Separated(evs[j], evs[i])
    <2>1. CASE Acc(h, y).kind = "atomic" /\ Acc(h, z).kind = "atomic"
        <3>1. Word(evs[i].t, evs[i].access) = Word(evs[j].t, evs[j].access) BY <1>1, <1>2, <1>3 DEF WordOf
        <3> QED BY <1>1, <1>2, <1>3, <2>1, <3>1 DEF Mingled
    <2>2. CASE ~(Acc(h, y).kind = "atomic" /\ Acc(h, z).kind = "atomic")
        BY <1>1, <1>2, <1>3, <1>6, <1>7, <2>2 DEF Race
    <2> QED BY <2>1, <2>2
<1> QED BY <1>2, <1>3, <1>8 DEF Separated

(* At the end of the schedule every thread has halted.                         *)
LEMMA DoneIsHalted ==
    ASSUME SearchTypes, SearchTurns, run.end = "done", NEW t \in Threads(shape)
    PROVE  Ends(kernel, run.cfg, t) = "halted"
<1>1. run.cta = shape.grid /\ run.end # "fault" BY DEF SearchTurns
<1>2. Cta(t) \in 0 .. shape.grid - 1 /\ shape.grid \in Nat BY ThreadIs DEF SearchTypes
<1>3. Cta(t) < run.cta BY <1>1, <1>2
<1> QED BY <1>1, <1>3 DEF SearchTurns

(* What a thread of the interleaving is about to do, it did in the schedule.   *)
LEMMA FollowsIs ==
    ASSUME shape \in Shapes, kernel \in Bodies, NEW c \in Cfgs(shape), NEW d \in Cfgs(shape),
           NEW h \in Histories, NEW n \in Nat, HistoryOf(h, n, c), Follows(h, c, d),
           \A u \in Threads(shape) : Ends(kernel, c, u) = "halted",
           NEW t \in Threads(shape)
    PROVE  /\ EndOf(h, Place(d, t)) = Ends(kernel, d, t)
           /\ Acc(h, Place(d, t)) = Pending(kernel, t, d.ts[t])
           /\ d.ts[t].r = h.r[Place(d, t)] /\ d.ph[Cta(t)] = h.ph[Place(d, t)]
           /\ Place(d, t) \in Reached(c) /\ Before(d) \subseteq Before(c)
           /\ Ends(kernel, d, t) = "halted" <=> d.ts[t].pc = c.ts[t].pc
           /\ Ends(kernel, d, t) # "halted" =>
                Place(d, t) \in Before(c) /\ Ends(kernel, d, t) \in {"ok", "wait"}
<1> DEFINE x == Place(d, t)
<1>1. d.ts[t].r = h.r[x] /\ d.ph[Cta(t)] = h.ph[x] /\ d.ts[t].pc <= c.ts[t].pc
    BY DEF Follows, IsAt
<1>2. At(h, x) = d.ts[t] /\ EndOf(h, x) = Ends(kernel, d, t) /\ Acc(h, x) = Pending(kernel, t, d.ts[t])
    BY <1>1, ThreadAt
<1>3. x \in Places /\ x[1] = t /\ x[2] = d.ts[t].pc /\ d.ts[t].pc \in Nat /\ c.ts[t].pc \in Nat
    BY PlaceIs
<1>4. x \in Reached(c) BY <1>1, <1>3 DEF Reached
<1>5. Before(d) \subseteq Before(c)
    <2> SUFFICES ASSUME NEW z \in Before(d) PROVE z \in Before(c) OBVIOUS
    <2>1. z \in Places /\ z[2] < d.ts[z[1]].pc BY DEF Before
    <2>2. z[1] \in Threads(shape) /\ z[2] \in Nat BY <2>1, PlacesAre
    <2>3. d.ts[z[1]].pc \in Nat /\ c.ts[z[1]].pc \in Nat BY <2>2, PlaceIs
    <2>4. d.ts[z[1]].pc <= c.ts[z[1]].pc BY <2>2 DEF Follows
    <2> QED BY <2>1, <2>2, <2>3, <2>4 DEF Before
<1>6. ASSUME d.ts[t].pc = c.ts[t].pc PROVE Ends(kernel, d, t) = "halted"
    <2>1. x = Place(c, t) BY <1>6 DEF Place
    <2>2. c.ts[t].r = h.r[Place(c, t)] BY DEF HistoryOf, IsAt
    <2>3. EndOf(h, Place(c, t)) = Ends(kernel, c, t) BY <2>2, ThreadAt
    <2> QED BY <1>2, <2>1, <2>3
<1>7. ASSUME d.ts[t].pc # c.ts[t].pc PROVE x \in Before(c) /\ Ends(kernel, d, t) \in {"ok", "wait"}
    <2>1. x \in Before(c) BY <1>1, <1>3, <1>7 DEF Before
    <2>2. EndOf(h, x) \in {"ok", "wait"} BY <2>1 DEF HistoryOf, GoesOn
    <2> QED BY <1>2, <2>1, <2>2
<1> QED BY <1>1, <1>2, <1>4, <1>5, <1>6, <1>7

(* What the interleaving has done of an access that could race is what the     *)
(* schedule had done of it.                                                    *)
LEMMA InOrder ==
    ASSUME shape \in Shapes, kernel \in Bodies, NEW c \in Cfgs(shape), NEW d \in Cfgs(shape),
           NEW h \in Histories, NEW n \in Nat, HistoryOf(h, n, c), Follows(h, c, d),
           Apart(h, Before(c)), NEW t \in Threads(shape), NEW x \in Accessed(h, Before(c)),
           x = Place(d, t), NEW z \in Accessed(h, Before(c)), WordOf(h, x) = WordOf(h, z),
           ~(Acc(h, x).kind = "read" /\ Acc(h, z).kind = "read"),
           ~Alike(Acc(h, x), Acc(h, z))
    PROVE  z \in Before(d) <=> h.pos[z] < h.pos[x]
<1>1. /\ x \in Places /\ z \in Places /\ x \in Reached(c) /\ z \in Reached(c)
      /\ x \in Before(c) /\ z \in Before(c)
    BY ReachedIs DEF Accessed
<1>2. /\ x[1] = t /\ x[2] = d.ts[t].pc /\ x[2] \in Nat /\ z[2] \in Nat /\ z[1] \in Threads(shape)
      /\ x = <<x[1], x[2]>> /\ z = <<z[1], z[2]>>
    <2>1. Place(d, t)[1] = t /\ Place(d, t)[2] = d.ts[t].pc BY DEF Place
    <2>2. x[2] \in Nat /\ z[2] \in Nat /\ z[1] \in Threads(shape) /\ x = <<x[1], x[2]>> /\ z = <<z[1], z[2]>>
        BY <1>1, PlacesAre
    <2> QED BY <2>1, <2>2
<1>3. /\ h.ph[x] \in Nat /\ h.ph[z] \in Nat /\ h.pos[x] \in Nat /\ h.pos[z] \in Nat
    BY <1>1 DEF Histories
<1>4. InLine(h, x, z) /\ InLine(h, z, x) BY DEF HistoryOf
<1>5. CASE z[1] = x[1]
    <2>1. z \in Before(d) <=> z[2] < x[2] BY <1>1, <1>2, <1>5 DEF Before
    <2>2. z[2] = x[2] => z = x BY <1>2, <1>5
    <2> QED BY <1>2, <1>3, <1>4, <1>5, <2>1, <2>2 DEF InLine
<1>6. CASE z[1] # x[1]
    <2>1. Cta(x[1]) = Cta(z[1]) /\ h.ph[x] # h.ph[z] BY <1>6 DEF Apart
    <2>2. PICK u \in Threads(shape) : u = z[1] BY <1>2
    <2>3. PICK p : p = Place(d, u) OBVIOUS
    <2>4. p[1] = u /\ p[2] = d.ts[u].pc /\ p[2] \in Nat /\ p \in Places
        <3>1. Place(d, u)[1] = u /\ Place(d, u)[2] = d.ts[u].pc BY DEF Place
        <3>2. d.ts[u] \in Thread BY DEF Cfgs
        <3>3. d.ts[u].pc \in Nat \ {0} BY <3>2 DEF Thread
        <3> QED BY <2>3, <3>1, <3>3 DEF Place, Places
    <2>5. h.ph[p] = d.ph[Cta(u)] /\ h.ph[x] = d.ph[Cta(t)] BY <2>3 DEF Follows, IsAt
    <2>6. h.ph[p] = h.ph[x] BY <1>2, <2>1, <2>2, <2>5
    <2>7. p \in Reached(c)
        <3>1. d.ts[u].pc <= c.ts[u].pc BY DEF Follows
        <3> QED BY <2>4, <3>1 DEF Reached
    <2>8. z \in Before(d) <=> z[2] < p[2] BY <1>1, <2>2, <2>4 DEF Before
    <2>9. z[2] <= p[2] => h.ph[z] <= h.ph[p] BY <1>1, <2>2, <2>4, <2>7 DEF HistoryOf, Rises
    <2>10. p[2] <= z[2] => h.ph[p] <= h.ph[z] BY <1>1, <2>2, <2>4, <2>7 DEF HistoryOf, Rises
    <2>11. CASE h.ph[z] < h.ph[x]
        <3>1. h.pos[z] < h.pos[x] BY <1>4, <2>1, <2>11 DEF InLine
        <3>2. ~(p[2] <= z[2]) BY <1>3, <2>6, <2>10, <2>11
        <3>3. z[2] < p[2] BY <1>2, <2>4, <3>2
        <3> QED BY <2>8, <3>1, <3>3
    <2>12. CASE h.ph[x] < h.ph[z]
        <3>1. h.pos[x] < h.pos[z] BY <1>4, <2>1, <2>12 DEF InLine
        <3>2. ~(z[2] <= p[2]) BY <1>3, <2>6, <2>9, <2>12
        <3>3. ~(z[2] < p[2]) BY <1>2, <2>4, <3>2
        <3> QED BY <1>3, <2>8, <3>1, <3>3
    <2> QED BY <1>3, <2>1, <2>11, <2>12
<1> QED BY <1>5, <1>6

LEMMA FollowsStep ==
    ASSUME shape \in Shapes, kernel \in Bodies, ~Old(kernel),
           NEW c \in Cfgs(shape), NEW d \in Cfgs(shape),
           NEW h \in Histories, NEW n \in Nat, HistoryOf(h, n, c), Follows(h, c, d),
           Apart(h, Before(c)), \A u \in Threads(shape) : Ends(kernel, c, u) = "halted",
           NEW t \in Threads(shape), Ends(kernel, d, t) = "ok"
    PROVE  Follows(h, c, Moved(kernel, d, t))
<1> DEFINE e == Moved(kernel, d, t)
           a == Pending(kernel, t, d.ts[t])
           x == Place(d, t)
<1>1. /\ e \in Cfgs(shape) /\ e.ph = d.ph /\ \A u \in Threads(shape) : u # t => e.ts[u] = d.ts[u]
      /\ e.ts[t].pc = d.ts[t].pc + 1
      /\ ~Reads(kernel, t, d.ts[t]) => e.ts[t].r = d.ts[t].r
      /\ Reads(kernel, t, d.ts[t]) => e.ts[t].r = d.mem[Word(t, a)]
      /\ a # NoAccess => Word(t, a) \in Words(shape)
    BY MovedIs
<1>2. /\ EndOf(h, x) = "ok" /\ Acc(h, x) = a /\ d.ts[t].r = h.r[x] /\ d.ph[Cta(t)] = h.ph[x]
      /\ x \in Before(c) /\ Before(d) \subseteq Before(c) /\ d.ts[t].pc # c.ts[t].pc
    BY FollowsIs
<1>3. /\ x \in Places /\ x[1] = t /\ x[2] = d.ts[t].pc /\ x \notin Before(d) /\ d.ts[t] \in Thread
      /\ d.ts[t].pc \in Nat
    <2>1. /\ x \in Places /\ x[1] = t /\ x[2] = d.ts[t].pc /\ x \notin Before(d)
          /\ d.ts[t] \in Thread /\ d.ts[t].pc \in Nat \ {0}
        BY PlaceIs
    <2> QED BY <2>1
<1> HIDE DEF e, x
<1>4. /\ Before(e) = Before(d) \cup {x} /\ Place(e, t) = NextPlace(x)
      /\ \A u \in Threads(shape) : u # t => Place(e, u) = Place(d, u)
    BY <1>1, OnePlaceMore DEF x
<1>5. GoesOn(h, Before(c), x) BY <1>2 DEF HistoryOf
<1>6. WordOf(h, x) = Word(t, a) BY <1>2, <1>3 DEF WordOf
<1>7. ASSUME NEW z \in Before(c), a # NoAccess, Acc(h, z).kind \in {"write", "atomic"},
             WordOf(h, z) = Word(t, a), ~Alike(Acc(h, x), Acc(h, z))
      PROVE  z \in Before(d) <=> h.pos[z] < h.pos[x]
    <2>1. x \in Accessed(h, Before(c)) BY <1>2, <1>7 DEF Accessed
    <2>2. z \in Accessed(h, Before(c)) BY <1>7 DEF Accessed, NoAccess
    <2>3. ~(Acc(h, x).kind = "read" /\ Acc(h, z).kind = "read") BY <1>7
    <2> QED BY <1>6, <1>7, <2>1, <2>2, <2>3, InOrder DEF x
<1>8. e.ts[t].r = h.r[NextPlace(x)]
    <2>1. Reads(kernel, t, d.ts[t]) <=> a.kind = "read" BY <1>3, OnlyLoadsRead
    <2>2. CASE a.kind # "read" BY <1>1, <1>2, <1>5, <2>1, <2>2 DEF GoesOn
    <2>3. CASE a.kind = "read"
        <3> DEFINE w == Word(t, a)
                   E == Earlier(h, Before(c), x)
        <3>1. a # NoAccess BY <2>3 DEF NoAccess
        <3>2. w \in Words(shape) /\ e.ts[t].r = d.mem[w] BY <1>1, <2>1, <2>3, <3>1
        <3>3. Leaves(h, E, w, h.r[NextPlace(x)]) BY <1>2, <1>5, <1>6, <2>3 DEF GoesOn
        <3>4. Leaves(h, Before(d), w, d.mem[w]) BY <3>2 DEF Follows
        <3>5. \A z \in Before(c) : Acc(h, z).kind \in {"write", "atomic"} /\ WordOf(h, z) = w =>
                  (z \in Before(d) <=> z \in E)
            <4>1. \A z : ~Alike(Acc(h, x), Acc(h, z)) BY <1>2, <2>3 DEF Alike
            <4> QED BY <1>7, <3>1, <4>1 DEF Earlier
        <3>6. E \subseteq Before(c) BY DEF Earlier
        <3> HIDE DEF E, w
        <3>7. Writers(h, E, w) = Writers(h, Before(d), w) BY <1>2, <3>5, <3>6 DEF Writers
        <3>9. Leaves(h, Before(d), w, h.r[NextPlace(x)]) BY <3>3, <3>7, LeavesSame
        <3>10. Before(d) \in SUBSET Places BY DEF Before
        <3>11. h.r[NextPlace(x)] = d.mem[w] BY <3>4, <3>9, <3>10, LeavesOne
        <3> QED BY <3>2, <3>11
    <2> QED BY <2>2, <2>3
<1>9. IsAt(h, e)
    <2> SUFFICES ASSUME NEW u \in Threads(shape)
                 PROVE  e.ts[u].r = h.r[Place(e, u)] /\ e.ph[Cta(u)] = h.ph[Place(e, u)]
        BY DEF IsAt
    <2>1. CASE u = t
        <3>1. h.ph[x] \in Nat BY <1>3 DEF Histories
        <3>2. h.ph[NextPlace(x)] = h.ph[x] BY <1>2, <1>5, <3>1 DEF GoesOn
        <3> QED BY <1>1, <1>2, <1>4, <1>8, <2>1, <3>2
    <2>2. CASE u # t
        <3>1. d.ts[u].r = h.r[Place(d, u)] /\ d.ph[Cta(u)] = h.ph[Place(d, u)] BY DEF Follows, IsAt
        <3> QED BY <1>1, <1>4, <2>2, <3>1
    <2> QED BY <2>1, <2>2
<1>10. ASSUME NEW u \in Threads(shape) PROVE e.ts[u].pc <= c.ts[u].pc
    <2>1. d.ts[u].pc <= c.ts[u].pc BY DEF Follows
    <2>2. c.ts[t].pc \in Nat BY PlaceIs
    <2> QED BY <1>1, <1>2, <1>3, <2>1, <2>2
<1>11. ASSUME NEW w \in Words(shape) PROVE Leaves(h, Before(e), w, e.mem[w])
    <2>1. Before(c) \in SUBSET Places /\ Before(d) \in SUBSET Places BY DEF Before
    <2>3. Leaves(h, Before(d), w, d.mem[w]) BY DEF Follows
    <2>4. x \in Places \ Before(d) /\ x = Place(d, t) BY <1>3 DEF x
    <2>5. ASSUME NEW z \in Before(d), Acc(h, z).kind \in {"write", "atomic"}, WordOf(h, z) = w,
                 Acc(h, x).kind \in {"write", "atomic"}, WordOf(h, x) = w
          PROVE  /\ h.pos[z] # h.pos[x]
                 /\ ~Alike(Acc(h, z), Acc(h, x)) => h.pos[z] < h.pos[x]
        <3>1. a # NoAccess BY <1>2, <2>5 DEF NoAccess
        <3>2. z \in Before(c) /\ WordOf(h, z) = Word(t, a) BY <1>2, <1>6, <2>5
        <3>3. ~Alike(Acc(h, z), Acc(h, x)) => ~Alike(Acc(h, x), Acc(h, z)) BY DEF Alike
        <3>4. x \in Accessed(h, Before(c)) /\ z \in Accessed(h, Before(c))
            BY <1>2, <2>5, <3>2 DEF Accessed, NoAccess
        <3>5. InLine(h, z, x) BY <3>4 DEF HistoryOf
        <3>6. z # x BY <1>3
        <3> QED BY <1>7, <2>5, <3>1, <3>2, <3>3, <3>5, <3>6 DEF InLine
    <2>6. Leaves(h, Before(d) \cup {x}, w, Moved(kernel, d, t).mem[w])
        BY <1>2, <2>1, <2>3, <2>4, <2>5, OneAccessMore
    <2> QED BY <1>4, <2>6 DEF e
<1>12. Follows(h, c, e) BY <1>9, <1>10, <1>11 DEF Follows
<1> QED BY <1>12 DEF e

LEMMA FollowsBarrier ==
    ASSUME shape \in Shapes, kernel \in Bodies,
           NEW c \in Cfgs(shape), NEW d \in Cfgs(shape),
           NEW h \in Histories, NEW n \in Nat, HistoryOf(h, n, c), Follows(h, c, d),
           \A u \in Threads(shape) : Ends(kernel, c, u) = "halted",
           NEW b \in 0 .. shape.grid - 1, BarReady(kernel, shape, d, b)
    PROVE  Follows(h, c, Released(shape, d, b))
<1> DEFINE e == Released(shape, d, b)
<1>1. /\ e \in Cfgs(shape) /\ e.mem = d.mem
      /\ \A t \in Threads(shape) : IF Cta(t) = b
                                   THEN e.ts[t].pc = d.ts[t].pc + 1 /\ e.ts[t].r = d.ts[t].r
                                   ELSE e.ts[t] = d.ts[t]
      /\ e.ph[b] = d.ph[b] + 1 /\ \A f \in 0 .. shape.grid - 1 : f # b => e.ph[f] = d.ph[f]
    BY ReleasedIs
<1> HIDE DEF e
<1>2. ASSUME NEW t \in Threads(shape)
      PROVE  /\ d.ts[t].pc \in Nat /\ c.ts[t].pc \in Nat /\ Place(d, t) \in Places
             /\ Place(d, t)[1] = t /\ Place(d, t)[2] = d.ts[t].pc /\ d.ts[t] \in Thread
             /\ d.ts[t].pc <= c.ts[t].pc /\ Cta(t) \in 0 .. shape.grid - 1
             /\ d.ts[t].r = h.r[Place(d, t)] /\ d.ph[Cta(t)] = h.ph[Place(d, t)]
    <2>1. d.ts[t].pc <= c.ts[t].pc BY DEF Follows
    <2>2. d.ts[t].r = h.r[Place(d, t)] /\ d.ph[Cta(t)] = h.ph[Place(d, t)] BY DEF Follows, IsAt
    <2>3. Cta(t) \in 0 .. shape.grid - 1 BY ThreadIs
    <2>4. c.ts[t].pc \in Nat BY PlaceIs
    <2>5. /\ d.ts[t].pc \in Nat /\ Place(d, t) \in Places /\ Place(d, t)[1] = t
          /\ Place(d, t)[2] = d.ts[t].pc /\ d.ts[t] \in Thread
        BY PlaceIs
    <2> QED BY <2>1, <2>2, <2>3, <2>4, <2>5
<1>3. ASSUME NEW t \in Threads(shape), Cta(t) = b
      PROVE  /\ Acc(h, Place(d, t)) = NoAccess /\ Place(d, t) \in Before(c)
             /\ e.ts[t].pc = d.ts[t].pc + 1 /\ e.ts[t].pc <= c.ts[t].pc
             /\ Place(e, t) = NextPlace(Place(d, t))
             /\ h.r[Place(e, t)] = d.ts[t].r /\ h.ph[Place(e, t)] = d.ph[b] + 1
    <2>1. Ends(kernel, d, t) = "wait" BY <1>3 DEF BarReady, InCta
    <2>2. Pending(kernel, t, d.ts[t]) = NoAccess BY <1>2, <2>1, EndIs DEF Ends
    <2>3. /\ EndOf(h, Place(d, t)) = "wait" /\ Acc(h, Place(d, t)) = NoAccess
          /\ Place(d, t) \in Before(c) /\ d.ts[t].pc # c.ts[t].pc
        BY <2>1, <2>2, FollowsIs
    <2>4. GoesOn(h, Before(c), Place(d, t)) BY <2>3 DEF HistoryOf
    <2>5. Acc(h, Place(d, t)).kind # "read" BY <2>3 DEF NoAccess
    <2>6. /\ h.r[NextPlace(Place(d, t))] = h.r[Place(d, t)]
          /\ h.ph[NextPlace(Place(d, t))] = h.ph[Place(d, t)] + 1
        BY <2>3, <2>4, <2>5 DEF GoesOn
    <2>7. e.ts[t].pc = d.ts[t].pc + 1 /\ e.ts[t].pc <= c.ts[t].pc BY <1>1, <1>2, <1>3, <2>3
    <2>8. Place(e, t) = NextPlace(Place(d, t)) BY <2>7 DEF Place, NextPlace
    <2> QED BY <1>2, <1>3, <2>3, <2>6, <2>7, <2>8
<1>4. ASSUME NEW t \in Threads(shape), Cta(t) # b PROVE e.ts[t] = d.ts[t] /\ Place(e, t) = Place(d, t)
    BY <1>1, <1>4 DEF Place
<1>5. IsAt(h, e)
    <2> SUFFICES ASSUME NEW t \in Threads(shape)
                 PROVE  e.ts[t].r = h.r[Place(e, t)] /\ e.ph[Cta(t)] = h.ph[Place(e, t)]
        BY DEF IsAt
    <2>1. CASE Cta(t) = b BY <1>1, <1>3, <2>1
    <2>2. CASE Cta(t) # b BY <1>1, <1>2, <1>4, <2>2
    <2> QED BY <2>1, <2>2
<1>6. \A t \in Threads(shape) : e.ts[t].pc <= c.ts[t].pc BY <1>2, <1>3, <1>4
<1>7. Before(d) \subseteq Before(e)
    <2> SUFFICES ASSUME NEW z \in Before(d) PROVE z \in Before(e) OBVIOUS
    <2>1. z \in Places /\ z[2] < d.ts[z[1]].pc BY DEF Before
    <2>2. PICK t \in Threads(shape) : t = z[1] BY <2>1, PlacesAre
    <2>3. z[2] \in Nat BY <2>1, PlacesAre
    <2>4. e.ts[t].pc = d.ts[t].pc \/ e.ts[t].pc = d.ts[t].pc + 1 BY <1>3, <1>4
    <2>5. z[2] < e.ts[t].pc BY <1>2, <2>1, <2>2, <2>3, <2>4
    <2> QED BY <2>1, <2>2, <2>5 DEF Before
<1>8. ASSUME NEW z \in Before(e) \ Before(d) PROVE Acc(h, z).kind = "none"
    <2>1. z \in Places /\ z[2] < e.ts[z[1]].pc BY DEF Before
    <2>2. PICK t \in Threads(shape) : t = z[1] BY <2>1, PlacesAre
    <2>3. z[2] \in Nat /\ z = <<z[1], z[2]>> BY <2>1, PlacesAre
    <2>4. ~(z[2] < d.ts[t].pc) BY <2>1, <2>2 DEF Before
    <2>5. Cta(t) = b BY <1>4, <2>1, <2>2, <2>4
    <2>6. z[2] = d.ts[t].pc BY <1>2, <1>3, <2>1, <2>2, <2>3, <2>4, <2>5
    <2>7. z = Place(d, t) BY <2>2, <2>3, <2>6 DEF Place
    <2> QED BY <1>3, <2>5, <2>7 DEF NoAccess
<1>9. ASSUME NEW w \in Words(shape) PROVE Leaves(h, Before(e), w, e.mem[w])
    <2>1. Writers(h, Before(d), w) = Writers(h, Before(e), w) BY <1>7, <1>8 DEF Writers
    <2>3. Leaves(h, Before(d), w, d.mem[w]) BY DEF Follows
    <2>4. Leaves(h, Before(e), w, d.mem[w]) BY <2>1, <2>3, LeavesSame
    <2> QED BY <1>1, <2>4
<1>10. Follows(h, c, e) BY <1>5, <1>6, <1>9 DEF Follows
<1> QED BY <1>10 DEF e

(* So nothing goes wrong on the way, and it ends where the schedule did.       *)
LEMMA FollowersPass ==
    ASSUME shape \in Shapes, kernel \in Bodies,
           NEW c \in Cfgs(shape), NEW d \in Cfgs(shape),
           NEW h \in Histories, NEW n \in Nat, HistoryOf(h, n, c), Follows(h, c, d),
           Apart(h, Before(c)), \A u \in Threads(shape) : Ends(kernel, c, u) = "halted"
    PROVE  /\ ~Faults(kernel, shape, d)
           /\ \A t, u \in Threads(shape) : ~RaceAt(kernel, d, t, d, u)
           /\ AllHalted(kernel, shape, d) => d.mem = c.mem
<1>1. ASSUME NEW t \in Threads(shape)
      PROVE  /\ EndOf(h, Place(d, t)) = Ends(kernel, d, t)
             /\ Acc(h, Place(d, t)) = Pending(kernel, t, d.ts[t])
             /\ d.ph[Cta(t)] = h.ph[Place(d, t)] /\ Place(d, t) \in Reached(c)
             /\ Ends(kernel, d, t) = "halted" <=> d.ts[t].pc = c.ts[t].pc
             /\ Ends(kernel, d, t) # "halted" =>
                  Place(d, t) \in Before(c) /\ Ends(kernel, d, t) \in {"ok", "wait"}
             /\ Place(d, t)[1] = t /\ Place(d, t)[2] = d.ts[t].pc /\ d.ts[t].pc \in Nat
             /\ Place(d, t) \in Places /\ d.ts[t] \in Thread
             /\ h.ph[Place(d, t)] \in Nat
    <2>1. /\ Place(d, t)[1] = t /\ Place(d, t)[2] = d.ts[t].pc /\ d.ts[t].pc \in Nat
          /\ Place(d, t) \in Places /\ d.ts[t] \in Thread
        BY PlaceIs
    <2>2. h.ph[Place(d, t)] \in Nat BY <2>1 DEF Histories
    <2> QED BY <2>1, <2>2, FollowsIs
<1>2. \A y, z \in Reached(c) : y[1] = z[1] /\ y[2] <= z[2] => h.ph[y] <= h.ph[z]
    BY DEF HistoryOf, Rises
<1>3. ASSUME NEW z \in Before(c), EndOf(h, z) = "wait"
      PROVE  /\ z \in Reached(c) /\ NextPlace(z) \in Reached(c) /\ h.ph[NextPlace(z)] = h.ph[z] + 1
             /\ NextPlace(z)[1] = z[1] /\ NextPlace(z)[2] = z[2] + 1 /\ z[2] \in Nat /\ h.ph[z] \in Nat
    <2>1. z \in Places /\ z \in Reached(c) /\ NextPlace(z) \in Reached(c) BY ReachedIs
    <2>2. h.ph[z] \in Nat BY <2>1 DEF Histories
    <2>3. GoesOn(h, Before(c), z) BY DEF HistoryOf
    <2> QED BY <1>3, <2>1, <2>2, <2>3, PlacesAre DEF GoesOn
<1>4. ASSUME NEW t \in Threads(shape), NEW u \in Threads(shape), Cta(t) = Cta(u),
             Ends(kernel, d, t) = "wait"
      PROVE  Ends(kernel, d, u) # "halted" /\ (Ends(kernel, d, u) = "wait" => d.ts[u].pc = d.ts[t].pc)
    <2>1. PICK x : x = Place(d, t) OBVIOUS
    <2>2. PICK y : y = Place(d, u) OBVIOUS
    <2>3. x \in Before(c) /\ EndOf(h, x) = "wait" /\ h.ph[x] = d.ph[Cta(t)] /\ x[1] = t /\ x[2] = d.ts[t].pc
        BY <1>1, <1>4, <2>1
    <2>4. y \in Reached(c) /\ h.ph[y] = d.ph[Cta(u)] /\ y[1] = u /\ y[2] = d.ts[u].pc /\ y[2] \in Nat
          /\ EndOf(h, y) = Ends(kernel, d, u) /\ y = <<u, y[2]>> /\ h.ph[y] \in Nat
        <3>1. y = <<u, d.ts[u].pc>> BY <2>2 DEF Place
        <3> QED BY <1>1, <2>2, <3>1
    <2>5. PICK q : q = <<u, x[2]>> OBVIOUS
    <2>6. q \in Before(c) /\ EndOf(h, q) = "wait" /\ h.ph[q] = h.ph[x] /\ q[1] = u /\ q[2] = x[2]
        <3>1. Aligned(h, Before(c), x) BY <2>3 DEF HistoryOf
        <3> QED BY <1>4, <2>3, <2>5, <3>1 DEF Aligned
    <2>7. h.ph[y] = h.ph[q] BY <1>4, <2>3, <2>4, <2>6
    <2>8. /\ NextPlace(q) \in Reached(c) /\ h.ph[NextPlace(q)] = h.ph[q] + 1 /\ NextPlace(q)[1] = u
          /\ NextPlace(q)[2] = q[2] + 1 /\ q[2] \in Nat /\ q \in Reached(c)
        BY <1>3, <2>6
    <2>9. ~(q[2] < y[2])
        <3> SUFFICES ASSUME q[2] < y[2] PROVE FALSE OBVIOUS
        <3>1. NextPlace(q)[2] <= y[2] BY <2>4, <2>8
        <3>2. h.ph[NextPlace(q)] <= h.ph[y] BY <1>2, <2>4, <2>8, <3>1
        <3> QED BY <2>4, <2>7, <2>8, <3>2
    <2>10. Ends(kernel, d, u) # "halted"
        <3> SUFFICES ASSUME Ends(kernel, d, u) = "halted" PROVE FALSE OBVIOUS
        <3>1. y[2] = c.ts[u].pc BY <1>1, <2>4
        <3>2. q[2] < c.ts[u].pc BY <2>6 DEF Before
        <3> QED BY <2>9, <3>1, <3>2
    <2>11. ASSUME Ends(kernel, d, u) = "wait" PROVE ~(y[2] < q[2])
        <3> SUFFICES ASSUME y[2] < q[2] PROVE FALSE OBVIOUS
        <3>1. y \in Before(c) /\ EndOf(h, y) = "wait" BY <1>1, <2>2, <2>4, <2>11
        <3>2. NextPlace(y) \in Reached(c) /\ h.ph[NextPlace(y)] = h.ph[y] + 1 /\ NextPlace(y)[1] = u /\ NextPlace(y)[2] = y[2] + 1
            BY <1>3, <2>4, <3>1
        <3>3. NextPlace(y)[2] <= q[2] BY <2>4, <2>8, <3>2
        <3>4. h.ph[NextPlace(y)] <= h.ph[q] BY <1>2, <2>6, <2>8, <3>2, <3>3
        <3> QED BY <2>4, <2>7, <3>2, <3>4
    <2>12. Ends(kernel, d, u) = "wait" => d.ts[u].pc = d.ts[t].pc
        BY <2>3, <2>4, <2>6, <2>8, <2>9, <2>11
    <2> QED BY <2>10, <2>12
<1>5. ~Faults(kernel, shape, d)
    <2>1. ~Diverged(kernel, shape, d) BY <1>4 DEF Diverged
    <2>2. \A t \in Threads(shape) : Ends(kernel, d, t) # "fault" BY <1>1
    <2> QED BY <2>1, <2>2 DEF Faults
<1>6. ASSUME NEW t \in Threads(shape), NEW u \in Threads(shape), RaceAt(kernel, d, t, d, u) PROVE FALSE
    <2>1. PICK x : x = Place(d, t) OBVIOUS
    <2>2. PICK y : y = Place(d, u) OBVIOUS
    <2>3. Acc(h, x) = Pending(kernel, t, d.ts[t]) /\ Acc(h, y) = Pending(kernel, u, d.ts[u])
          /\ x[1] = t /\ y[1] = u /\ h.ph[x] = d.ph[Cta(t)] /\ h.ph[y] = d.ph[Cta(u)]
        BY <1>1, <2>1, <2>2
    <2>4. /\ t # u /\ Acc(h, x) # NoAccess /\ Acc(h, y) # NoAccess
          /\ Conflict(t, Acc(h, x), u, Acc(h, y))
          /\ ~(Acc(h, x).kind = "atomic" /\ Acc(h, y).kind = "atomic")
          /\ Cta(t) = Cta(u) => d.ph[Cta(t)] = d.ph[Cta(u)]
        BY <1>6, <2>3 DEF RaceAt
    <2>5. Ends(kernel, d, t) # "halted" /\ Ends(kernel, d, u) # "halted"
        <3>1. Pending(kernel, t, d.ts[t]) # NoAccess /\ Pending(kernel, u, d.ts[u]) # NoAccess
            BY <2>3, <2>4
        <3>2. d.ts[t] \in Thread /\ d.ts[u] \in Thread BY <1>1
        <3> QED BY <3>1, <3>2, EndIs DEF Ends
    <2>6. x \in Accessed(h, Before(c)) /\ y \in Accessed(h, Before(c))
        BY <1>1, <2>1, <2>2, <2>4, <2>5 DEF Accessed
    <2>7. WordOf(h, x) = WordOf(h, y) BY <2>3, <2>4 DEF Conflict, WordOf, Word
    <2>8. ~(Acc(h, x).kind = "read" /\ Acc(h, y).kind = "read") BY <2>4 DEF Conflict
    <2>10. ~Alike(Acc(h, x), Acc(h, y)) BY <2>4 DEF Alike
    <2>9. Cta(x[1]) = Cta(y[1]) /\ h.ph[x] # h.ph[y] BY <2>3, <2>4, <2>6, <2>7, <2>8, <2>10 DEF Apart
    <2> QED BY <2>3, <2>4, <2>9
<1>7. ASSUME AllHalted(kernel, shape, d) PROVE d.mem = c.mem
    <2>1. \A t \in Threads(shape) : d.ts[t].pc = c.ts[t].pc BY <1>1, <1>7 DEF AllHalted
    <2>2. Before(d) = Before(c)
        <3>1. \A z \in Places : z[1] \in Threads(shape) BY PlacesAre
        <3> QED BY <2>1, <3>1 DEF Before
    <2>3. Before(c) \in SUBSET Places BY DEF Before
    <2>4. ASSUME NEW w \in Words(shape) PROVE d.mem[w] = c.mem[w]
        <3>1. Leaves(h, Before(c), w, d.mem[w]) BY <2>2 DEF Follows
        <3>2. Leaves(h, Before(c), w, c.mem[w]) BY DEF HistoryOf
        <3> QED BY <2>3, <3>1, <3>2, LeavesOne
    <2>5. d.mem \in [Words(shape) -> Numbers] /\ c.mem \in [Words(shape) -> Numbers] BY DEF Cfgs
    <2> QED BY <2>4, <2>5
<1> QED BY <1>5, <1>6, <1>7

LEMMA LaunchedFollows ==
    ASSUME shape \in Shapes, kernel \in Bodies, NEW c \in Cfgs(shape),
           NEW h \in Histories, NEW n \in Nat, HistoryOf(h, n, c)
    PROVE  Follows(h, c, Launched(shape))
<1>1. PICK d : d = Launched(shape) OBVIOUS
<1>2. /\ d \in Cfgs(shape) /\ \A t \in Threads(shape) : d.ts[t].pc = 1 /\ d.ts[t].r = 0
      /\ \A w \in Words(shape) : d.mem[w] = 0
      /\ \A b \in 0 .. shape.grid - 1 : d.ph[b] = 0
    BY <1>1, LaunchedIs
<1>3. IsAt(h, d)
    <2> SUFFICES ASSUME NEW t \in Threads(shape)
                 PROVE  d.ts[t].r = h.r[Place(d, t)] /\ d.ph[Cta(t)] = h.ph[Place(d, t)]
        BY DEF IsAt
    <2>1. Place(d, t) = <<t, 1>> BY <1>2 DEF Place
    <2>2. Cta(t) \in 0 .. shape.grid - 1 BY ThreadIs
    <2>3. h.r[<<t, 1>>] = 0 /\ h.ph[<<t, 1>>] = 0 BY DEF HistoryOf, Starts
    <2> QED BY <1>2, <2>1, <2>2, <2>3
<1>4. ASSUME NEW t \in Threads(shape) PROVE d.ts[t].pc <= c.ts[t].pc
    <2>1. c.ts[t].pc \in Nat \ {0} BY PlaceIs
    <2> QED BY <1>2, <2>1
<1>5. ASSUME NEW w \in Words(shape) PROVE Leaves(h, Before(d), w, d.mem[w])
    <2>1. Before(d) = {} BY <1>1, NothingYet
    <2>2. Writers(h, {}, w) = {} BY DEF Writers
    <2> QED BY <1>2, <2>1, <2>2, NothingLeaves
<1> QED BY <1>1, <1>3, <1>4, <1>5 DEF Follows

(* The launches that the verdict is about follow the schedule.                 *)
Following ==
    /\ cfg \in Cfgs(shape)
    /\ run.end = "running" => cfg = Launched(shape)
    /\ Passed /\ ~Old(kernel) /\ ~Mingled(run.events) =>
         \E h \in Histories, n \in Nat :
             /\ HistoryOf(h, n, run.cfg) /\ Recorded(h, Before(run.cfg), run.events)
             /\ Follows(h, run.cfg, cfg)

LEMMA FollowingStarts ==
    ASSUME LaunchInit
    PROVE  Following
<1>1. shape \in Shapes /\ cfg = Launched(shape) /\ run.end = "running" BY DEF LaunchInit, SearchStart
<1>2. cfg \in Cfgs(shape) BY <1>1, LaunchedIs
<1>3. ~Passed BY <1>1 DEF Passed
<1> QED BY <1>1, <1>2, <1>3 DEF Following

LEMMA FollowingOn ==
    ASSUME SearchTypes, SearchTurns, Logged, Following, [LaunchNext]_launchVars, SearchTypes', Logged'
    PROVE  Following'
<1>1. shape \in Shapes /\ kernel \in Bodies /\ run.cfg \in Cfgs(shape) /\ cfg \in Cfgs(shape)
    BY SearchFields DEF SearchTypes, Following
<1>2. kernel' = kernel /\ shape' = shape
    BY AdvanceIs, EndTurnIs, EndRoundIs, EndCtaIs DEF LaunchNext, Step, Barrier, launchVars
<1>3. Cfgs(shape)' = Cfgs(shape) /\ Launched(shape)' = Launched(shape) /\ Old(kernel)' = Old(kernel)
      /\ Histories' = Histories
    BY <1>2, SamePast DEF Cfgs, Launched, Old, Threads, Words
<1>4. CASE Advance \/ EndTurn \/ EndRound \/ EndCta
    <2>1. run.end = "running" /\ cfg' = cfg BY <1>4, AdvanceIs, EndTurnIs, EndRoundIs, EndCtaIs
    <2>2. cfg' = Launched(shape) BY <2>1 DEF Following
    <2>3. run'.cfg \in Cfgs(shape) BY <1>2, <1>3 DEF SearchTypes, Searches
    <2>4. ASSUME ~Old(kernel)
          PROVE  \E h \in Histories, n \in Nat :
                     /\ HistoryOf(h, n, run.cfg)' /\ Recorded(h, Before(run.cfg), run.events)'
                     /\ Follows(h, run.cfg, cfg)'
        <3>1. PICK h \in Histories, n \in Nat :
                  HistoryOf(h, n, run.cfg)' /\ Recorded(h, Before(run.cfg), run.events)'
            BY <1>3, <2>4 DEF Logged
        <3>2. HistoryOf(h, n, run'.cfg) BY <1>2, <3>1, SamePast
        <3>3. Follows(h, run'.cfg, cfg') BY <1>1, <2>2, <2>3, <3>2, LaunchedFollows
        <3>4. Follows(h, run.cfg, cfg)' BY <1>2, <3>3, SamePast
        <3> QED BY <3>1, <3>4
    <2> QED BY <1>1, <1>3, <2>1, <2>2, <2>4 DEF Following
<1>5. ASSUME run' = run, run.end # "running", NEW d \in Cfgs(shape), cfg' = d,
             \A h \in Histories, n \in Nat :
                 Passed /\ ~Old(kernel) /\ ~Mingled(run.events) /\ HistoryOf(h, n, run.cfg) /\ Apart(h, Before(run.cfg))
                 /\ Follows(h, run.cfg, cfg) /\ (\A u \in Threads(shape) : Ends(kernel, run.cfg, u) = "halted")
                 => Follows(h, run.cfg, d)
      PROVE  Following'
    <2>1. ASSUME Passed, ~Old(kernel), ~Mingled(run.events)
          PROVE  \E h \in Histories, n \in Nat :
                     /\ HistoryOf(h, n, run.cfg)' /\ Recorded(h, Before(run.cfg), run.events)'
                     /\ Follows(h, run.cfg, cfg)'
        <3>1. PICK h \in Histories, n \in Nat :
                  /\ HistoryOf(h, n, run.cfg) /\ Recorded(h, Before(run.cfg), run.events)
                  /\ Follows(h, run.cfg, cfg)
            BY <2>1 DEF Following
        <3>2. Apart(h, Before(run.cfg)) BY <2>1, <3>1, RecordsAreApart DEF Passed
        <3>3. \A u \in Threads(shape) : Ends(kernel, run.cfg, u) = "halted"
            BY <2>1, DoneIsHalted DEF Passed
        <3>4. Follows(h, run.cfg, d) BY <1>5, <2>1, <3>1, <3>2, <3>3
        <3>5. HistoryOf(h, n, run.cfg)' /\ Recorded(h, Before(run.cfg), run.events)'
            BY <1>2, <1>5, <3>1, SamePast
        <3>6. Follows(h, run.cfg, cfg)' BY <1>2, <1>5, <3>4, SamePast
        <3> QED BY <3>5, <3>6
    <2>2. Passed' = Passed /\ Mingled(run.events)' = Mingled(run.events) BY <1>5 DEF Passed
    <2> QED BY <1>3, <1>5, <2>1, <2>2 DEF Following
<1>6. ASSUME NEW t \in Threads(shape), Step(t) PROVE Following'
    <2>1. /\ run' = run /\ run.end # "running" /\ Ends(kernel, cfg, t) = "ok"
          /\ cfg' = Moved(kernel, cfg, t)
        BY <1>6 DEF Step
    <2>2. Moved(kernel, cfg, t) \in Cfgs(shape) BY <1>1, <2>1, MovedIs
    <2> QED BY <1>1, <1>5, <2>1, <2>2, FollowsStep
<1>7. ASSUME NEW b \in 0 .. shape.grid - 1, Barrier(b) PROVE Following'
    <2>1. /\ run' = run /\ run.end # "running" /\ BarReady(kernel, shape, cfg, b)
          /\ cfg' = Released(shape, cfg, b)
        BY <1>7 DEF Barrier
    <2>2. Released(shape, cfg, b) \in Cfgs(shape) BY <1>1, ReleasedIs
    <2> QED BY <1>1, <1>5, <2>1, <2>2, FollowsBarrier
<1>8. CASE UNCHANGED launchVars
    <2>1. run' = run /\ cfg' = cfg BY <1>8 DEF launchVars
    <2>2. Passed' = Passed /\ Mingled(run.events)' = Mingled(run.events) BY <2>1 DEF Passed
    <2>3. ASSUME NEW h \in Histories, NEW n \in Nat
          PROVE  /\ HistoryOf(h, n, run.cfg)' <=> HistoryOf(h, n, run.cfg)
                 /\ Recorded(h, Before(run.cfg), run.events)' <=> Recorded(h, Before(run.cfg), run.events)
                 /\ Follows(h, run.cfg, cfg)' <=> Follows(h, run.cfg, cfg)
        BY <1>2, <2>1, SamePast
    <2> QED BY <1>3, <2>1, <2>2, <2>3 DEF Following
<1> QED BY <1>4, <1>6, <1>7, <1>8 DEF LaunchNext

(* OneScheduleAlwaysEnough: for every kernel without atomics that return what  *)
(* they found, every launch and every interleaving of it: when the schedule of *)
(* blocksearch::run ends without a fault and its record without a race or two  *)
(* threads that combine into a word by different operations between the same   *)
(* barriers, no interleaving faults, diverges or comes to a race, and all that *)
(* end leave the memory that one left (blocksearch.rs:282-325 and 366-443,     *)
(* interp.rs:341-364 and 811-875).                                             *)
THEOREM OneScheduleAlwaysEnough == LaunchSpec => []OneScheduleIsEnough
<1>1. LaunchInit => SearchTypes /\ SearchTurns /\ Logged /\ Following
    BY SearchStarts, LoggedAtStart, FollowingStarts
<1>2. SearchTypes /\ SearchTurns /\ Logged /\ Following /\ [LaunchNext]_launchVars
      => SearchTypes' /\ SearchTurns' /\ Logged' /\ Following'
    <2> SUFFICES ASSUME SearchTypes, SearchTurns, Logged, Following, [LaunchNext]_launchVars
                 PROVE  SearchTypes' /\ SearchTurns' /\ Logged' /\ Following'
        OBVIOUS
    <2>1. SearchTypes' /\ SearchTurns' BY SearchGoesOn
    <2>2. Logged' BY LoggedOn
    <2>3. Following' BY <2>1, <2>2, FollowingOn
    <2> QED BY <2>1, <2>2, <2>3
<1>3. SearchTypes /\ SearchTurns /\ Following => OneScheduleIsEnough
    <2> SUFFICES ASSUME SearchTypes, SearchTurns, Following, Passed, ~Old(kernel), ~Mingled(run.events)
                 PROVE  /\ ~Faults(kernel, shape, cfg)
                        /\ \A t, u \in Threads(shape) : ~RaceAt(kernel, cfg, t, cfg, u)
                        /\ AllHalted(kernel, shape, cfg) => cfg.mem = run.cfg.mem
        BY DEF OneScheduleIsEnough
    <2>1. shape \in Shapes /\ kernel \in Bodies /\ run.cfg \in Cfgs(shape) /\ cfg \in Cfgs(shape)
        BY SearchFields DEF SearchTypes, Following
    <2>2. PICK h \in Histories, n \in Nat :
              /\ HistoryOf(h, n, run.cfg) /\ Recorded(h, Before(run.cfg), run.events)
              /\ Follows(h, run.cfg, cfg)
        BY DEF Following
    <2>3. Apart(h, Before(run.cfg)) BY <2>2, RecordsAreApart DEF Passed
    <2>4. \A u \in Threads(shape) : Ends(kernel, run.cfg, u) = "halted" BY DoneIsHalted DEF Passed
    <2> QED BY <2>1, <2>2, <2>3, <2>4, FollowersPass
<1> QED BY <1>1, <1>2, <1>3, PTL DEF LaunchSpec
=============================================================================
