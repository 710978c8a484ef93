------------------------- MODULE FirmwareJobProofs -------------------------
(***************************************************************************)
(* What a check of a firmware job proves, for every order of modules,      *)
(* every number of jobs, contents, edits and checks.                       *)
(*                                                                         *)
(* A chain of contents is present when it says what the files hold now.    *)
(* PresentStands is the heart: when a chain that is noted for a module, in *)
(* stages.json or in the memory of the check, is present, the modules up   *)
(* to it were compiled from just that.                                     *)
(* It is inductive because contents move on: an edit makes every chain     *)
(* that names the old content one that is never present again.             *)
(***************************************************************************)
EXTENDS FirmwareJob, TLAPS

Contents == Versions \cup {Absent}

\* What the files of the first n modules hold.
Present(n) == [k \in 1 .. n |-> Source(Order[k])]

\* How many modules the check has compiled or skipped.
Vouched == IF run.step = "lean" THEN Len(run.chain) - 1 ELSE Len(run.chain)

Exported == {"scan", "before", "hash", "lean", "record", "replay", "audit", "after"}

Chaining == {"hash", "lean", "record", "replay", "audit", "after"}

\* The chains noted for the modules, in the files and in memory.
Notes == {stages[j] : j \in Jobs} \cup (IF run = Idle THEN {} ELSE {run.noted})

\* Nothing is noted that was not, and notes may be lost.
OnlyLost == \A s \in Notes' : \E t \in Notes : \A m \in Modules : s[m] = t[m] \/ s[m] = <<>>

-----------------------------------------------------------------------------
(* The inductive invariant. *)

\* Nothing stands for more modules than there are up to its own.
Lengths ==
    \A i \in DOMAIN Order :
        /\ Len(oleans[Order[i]]) <= i
        /\ \A s \in Notes : s[Order[i]] = <<>> \/ Len(s[Order[i]]) = i

\* What a check has done when it is at a step.
RunStands ==
    /\ run.step \in {"export"} \cup Exported => run.elf \in Versions
    /\ run.step \in Exported => image = run.elf /\ run.elf \notin Refused
    /\ run.step \in {"elf", "export", "scan", "before"} => run.chain = <<>>
    /\ run.step \in Chaining => run.before \in [Inputs -> Versions]
    /\ run.step = "hash" => Len(run.chain) < Len(Order)
    /\ run.step \in {"lean", "record"} => Len(run.chain) \in DOMAIN Order
    /\ run.step \in {"replay", "audit", "after"} => Len(run.chain) = Len(Order)

\* The generated image is not newer than the ELF.
ImageIsOld ==
    /\ image <= disk["elf"]
    /\ run.step = "export" => image <= run.elf /\ run.elf <= disk["elf"]

\* No noted chain names a newer image than the one there is, or than the ELF it
\* will be generated from.
NotedImage(v) ==
    /\ v \in Versions \ Refused
    /\ v <= disk["elf"]
    /\ image # Absent => v <= image
    /\ image = Absent => v < disk["elf"]
    /\ run.step = "export" => v <= run.elf
    /\ run.step = "export" /\ image = Absent => v < run.elf

\* No noted chain names a newer content than the files hold.
NotedIsOld ==
    \A s \in Notes, i \in DOMAIN Order :
        \A k \in DOMAIN s[Order[i]] :
            IF Order[k] = "image"
            THEN NotedImage(s[Order[i]][k])
            ELSE s[Order[i]][k] <= disk[Order[k]]

\* The chain of a check lies between the identity taken before and the present.
ChainIsOld ==
    run.step \in Chaining =>
        \A k \in DOMAIN run.chain :
            IF Order[k] = "image"
            THEN run.chain[k] = image
            ELSE run.before[Order[k]] <= run.chain[k] /\ run.chain[k] <= disk[Order[k]]

BeforeIsOld ==
    run.step \in Chaining => \A f \in Inputs : run.before[f] <= disk[f]

\* A noted chain that is present vouches for the modules up to it.
PresentStands ==
    \A s \in Notes, i \in DOMAIN Order :
        s[Order[i]] = Present(i) =>
            \A k \in 1 .. i : oleans[Order[k]] = Present(k)

\* So does the chain of a check.
ChainStands ==
    run.step \in Chaining /\ run.chain = Present(Len(run.chain)) =>
        \A k \in 1 .. Vouched : oleans[Order[k]] = Present(k)

\* What holds as long as contents only move on.
Forward ==
    ~returned =>
        /\ ImageIsOld
        /\ NotedIsOld
        /\ ChainIsOld
        /\ BeforeIsOld
        /\ PresentStands
        /\ ChainStands
        /\ ForwardIsExact

\* What a check that is left in peace knows.
Calm ==
    run # Idle /\ run.calm =>
        /\ run.step # "elf" => run.elf = disk["elf"]
        /\ run.step \in Exported \ {"scan"} =>
             \A m \in Modules : <<m, Source(m)>> \notin Escapes
        /\ run.step \in Chaining =>
             /\ run.before = disk
             /\ run.chain = Present(Len(run.chain))
             /\ ~run.resume => \A k \in 1 .. Vouched : oleans[Order[k]] = Present(k)

IInv == TypeOK /\ Lengths /\ RunStands /\ Forward /\ Calm /\ FreshIsExact

-----------------------------------------------------------------------------
(* Modules, inputs and sequences. *)

\* The modules of a job are the entries of its order, and the ELF is not one.
LEMMA Basics ==
    /\ Len(Order) \in Nat
    /\ DOMAIN Order = 1 .. Len(Order)
    /\ \A i \in DOMAIN Order : Order[i] \in Modules
    /\ \A m \in Modules : \E i \in DOMAIN Order : m = Order[i]
    /\ \A i, k \in DOMAIN Order : Order[i] = Order[k] => i = k
    /\ "elf" \in Inputs
    /\ "image" \notin Inputs
    /\ \A m \in Modules : m # "image" => m \in Inputs /\ m # "elf"
    /\ Versions \subseteq Nat /\ Absent \notin Versions
BY OrderAssumption, VersionsAssumption DEF Modules, Inputs, Range, Absent

\* Contents are numbers, and no content is less than any.
LEMMA Numbers ==
    /\ \A v \in Versions : v \in Nat /\ 0 < v /\ 0 <= v /\ v # Absent
    /\ \A v \in Contents : v \in Nat /\ (v # Absent => v \in Versions)
    /\ Absent = 0
BY VersionsAssumption DEF Contents, Absent

\* A chain is a sequence that grows at its end.
LEMMA Growing ==
    ASSUME NEW c \in Builds, NEW x \in Contents, Len(c) < Len(Order)
    PROVE  /\ Append(c, x) \in Builds
           /\ Len(Append(c, x)) = Len(c) + 1
           /\ \A k \in 1 .. Len(c) : Append(c, x)[k] = c[k]
           /\ Append(c, x)[Len(c) + 1] = x
           /\ Len(c) \in Nat
BY Basics DEF Builds, Contents

\* What a module's file holds is a content.
LEMMA SourceIsContent ==
    ASSUME TypeOK, NEW m \in Modules
    PROVE  Source(m) \in Contents
BY Basics DEF TypeOK, Source, Contents

\* As long as no file changes, the same chains are present.
LEMMA SamePresent ==
    ASSUME disk' = disk, image' = image
    PROVE  /\ \A n : Present(n)' = Present(n)
           /\ \A m : Source(m)' = Source(m)
BY DEF Present, Source

\* The files of one module more.
LEMMA PresentGrows ==
    ASSUME TypeOK, NEW n \in DOMAIN Order
    PROVE  /\ Present(n) = Append(Present(n - 1), Source(Order[n]))
           /\ Present(n - 1) \in Builds
           /\ Present(n) \in Builds
           /\ Len(Present(n)) = n
           /\ Len(Present(n - 1)) = n - 1
           /\ n = 1 => Present(n - 1) = <<>>
<1>1. \A k \in 1 .. n : Source(Order[k]) \in Contents
  BY Basics, SourceIsContent
<1>2. Present(n) \in Seq(Contents) /\ Len(Present(n)) = n
  BY <1>1, Basics DEF Present
<1>3. Present(n - 1) \in Seq(Contents) /\ Len(Present(n - 1)) = n - 1
  BY <1>1, Basics DEF Present
<1>4. Present(n) = Append(Present(n - 1), Source(Order[n]))
  <2>1. Append(Present(n - 1), Source(Order[n])) \in Seq(Contents)
    BY <1>1, <1>3, Basics
  <2>2. Len(Append(Present(n - 1), Source(Order[n]))) = n
    BY <1>3, Basics
  <2>3. \A k \in 1 .. n : Append(Present(n - 1), Source(Order[n]))[k] = Present(n)[k]
    BY <1>3, Basics DEF Present
  <2> QED
    BY <1>2, <2>1, <2>2, <2>3
<1> QED
  BY <1>2, <1>3, <1>4, Basics DEF Builds, Contents, Present

-----------------------------------------------------------------------------
(* What is noted. *)

\* Notes are chains, of the modules of the order.
LEMMA NotesAreChains ==
    ASSUME TypeOK
    PROVE  /\ \A s \in Notes : s \in Chains
           /\ Nothing \in Chains
           /\ \A m \in Modules : Nothing[m] = <<>>
<1>1. <<>> \in Builds
  BY Basics DEF Builds
<1>2. run # Idle => run.noted \in Chains
  BY DEF TypeOK, Checks
<1> QED
  BY <1>1, <1>2 DEF TypeOK, Notes, Chains, Nothing

\* Of what is noted, nothing changes when neither the files nor the memory do.
LEMMA SameNotes ==
    ASSUME stages' = stages, run # Idle, run' # Idle, run'.noted = run.noted
    PROVE  Notes' = Notes
BY DEF Notes

\* What the memory of a check holds is noted, and so is what a file holds.
LEMMA AreNotes ==
    /\ run # Idle => run.noted \in Notes
    /\ \A j \in Jobs : stages[j] \in Notes
BY DEF Notes

\* Losing notes breaks nothing that is said of all of them.
LEMMA LossKeeps ==
    ASSUME IInv, OnlyLost, TypeOK', UNCHANGED <<disk, image, oleans, returned>>
    PROVE  /\ Lengths'
           /\ ~returned => PresentStands'
           /\ ~returned /\ run'.step # "export" => NotedIsOld'
<1> USE DEF IInv
<1>1. Lengths'
  <2> SUFFICES ASSUME NEW i \in DOMAIN Order, NEW s \in Notes'
               PROVE  s[Order[i]] = <<>> \/ Len(s[Order[i]]) = i
    BY DEF Lengths
  <2> QED
    BY Basics DEF OnlyLost, Lengths
<1>2. ASSUME ~returned PROVE PresentStands'
  <2> SUFFICES ASSUME NEW s \in Notes', NEW i \in DOMAIN Order, s[Order[i]] = Present(i)
               PROVE  \A k \in 1 .. i : oleans[Order[k]] = Present(k)
    BY SamePresent DEF PresentStands
  <2>1. s[Order[i]] # <<>>
    BY Basics, PresentGrows
  <2>2. PICK t \in Notes : s[Order[i]] = t[Order[i]]
    BY <2>1, Basics DEF OnlyLost
  <2> QED
    BY <1>2, <2>2 DEF Forward, PresentStands
<1>3. ASSUME ~returned, run'.step # "export" PROVE NotedIsOld'
  <2>1. \A v : NotedImage(v) => NotedImage(v)'
    BY <1>3 DEF NotedImage
  <2> SUFFICES ASSUME NEW s \in Notes', NEW i \in DOMAIN Order, NEW k \in DOMAIN s[Order[i]]
               PROVE  (IF Order[k] = "image"
                       THEN NotedImage(s[Order[i]][k])
                       ELSE s[Order[i]][k] <= disk[Order[k]])'
    BY DEF NotedIsOld
  <2>2. PICK t \in Notes : s[Order[i]] = t[Order[i]]
    BY Basics DEF OnlyLost
  <2>3. IF Order[k] = "image"
        THEN NotedImage(t[Order[i]][k])
        ELSE t[Order[i]][k] <= disk[Order[k]]
    BY <1>3, <2>2 DEF Forward, NotedIsOld
  <2> QED
    BY <2>1, <2>2, <2>3
<1> QED
  BY <1>1, <1>2, <1>3

-----------------------------------------------------------------------------
(* Initially, and when a check ends. *)

\* Steps of a check are not the step of no check.
LEMMA Sentinels ==
    /\ \A r \in Checks : r # Idle /\ r.step \in Steps /\ r.step # "idle"
    /\ Idle.step = "idle"
    /\ Exported \subseteq Steps
    /\ Chaining \subseteq Exported
    /\ NoResult \in Results
BY DEF Checks, Idle, Steps, Exported, Chaining, NoResult, Results, Statuses

\* It holds at the start: nothing is compiled and nothing is noted.
LEMMA InitIInv == Init => IInv
<1> SUFFICES ASSUME Init PROVE IInv
  OBVIOUS
<1>1. <<>> \in Builds
  BY Basics DEF Builds
<1>2. TypeOK
  BY <1>1, Basics, Sentinels, VersionsAssumption DEF Init, TypeOK, Chains, Nothing
<1>3. run.step = "idle" /\ run.step \notin Exported /\ run.step \notin Chaining
  BY Sentinels DEF Init, Exported, Chaining
<1>4. \A i \in DOMAIN Order :
        oleans[Order[i]] = <<>> /\ \A s \in Notes : s[Order[i]] = <<>>
  BY Basics DEF Init, Notes, Nothing
<1>5. Lengths /\ RunStands
  BY <1>3, <1>4, Basics DEF Lengths, RunStands
<1>6. ImageIsOld /\ NotedIsOld /\ ChainIsOld /\ BeforeIsOld /\ ChainStands
  BY <1>3, <1>4, Basics DEF Init, Absent, ImageIsOld, NotedIsOld, ChainIsOld,
     BeforeIsOld, ChainStands
<1>7. PresentStands
  BY <1>2, <1>4, Basics, PresentGrows DEF PresentStands
<1>8. ForwardIsExact /\ FreshIsExact
  BY DEF Init, NoResult, ForwardIsExact, FreshIsExact
<1>9. Calm
  BY DEF Init, Calm
<1> QED
  BY <1>2, <1>5, <1>6, <1>7, <1>8, <1>9 DEF IInv, Forward

\* A check that ends leaves everything as it stands, if what it says is right, even
\* when the notes of a job are lost.
LEMMA EndKeeps ==
    ASSUME IInv, run' = Idle, UNCHANGED <<disk, image, oleans, returned>>,
           stages' \in [Jobs -> Chains],
           \A j \in Jobs : stages'[j] = stages[j] \/ stages'[j] = Nothing,
           result' \in Results, ~returned => ForwardIsExact', FreshIsExact'
    PROVE  IInv'
<1> USE DEF IInv
<1>1. run'.step = "idle" /\ run'.step \notin Exported /\ run'.step \notin Chaining
  BY Sentinels DEF Exported, Chaining
<1>2. TypeOK'
  BY DEF TypeOK
<1>3. OnlyLost
  <2> SUFFICES ASSUME NEW j \in Jobs
               PROVE  \E t \in Notes :
                        \A m \in Modules : stages'[j][m] = t[m] \/ stages'[j][m] = <<>>
    BY DEF OnlyLost, Notes
  <2>1. stages[j] \in Notes
    BY AreNotes
  <2>2. stages'[j] = stages[j] \/ stages'[j] = Nothing
    OBVIOUS
  <2> QED
    BY <2>1, <2>2, NotesAreChains
<1>4. Lengths' /\ (~returned => PresentStands' /\ NotedIsOld')
  BY <1>1, <1>2, <1>3, LossKeeps
<1>5. RunStands' /\ Calm'
  BY <1>1 DEF RunStands, Calm
<1>6. Forward'
  <2> SUFFICES ASSUME ~returned PROVE Forward'
    BY DEF Forward
  <2>1. ImageIsOld'
    BY <1>1 DEF Forward, ImageIsOld
  <2>2. ChainIsOld' /\ BeforeIsOld' /\ ChainStands'
    BY <1>1 DEF ChainIsOld, BeforeIsOld, ChainStands
  <2> QED
    BY <1>4, <2>1, <2>2 DEF Forward
<1> QED
  BY <1>2, <1>4, <1>5, <1>6

\* Only a proved result promises anything.
LEMMA OthersPromiseNothing ==
    ASSUME NEW status \in Statuses \ {"proved"}, result' = [status |-> status]
    PROVE  result' \in Results /\ ForwardIsExact' /\ FreshIsExact'
BY DEF Results, Statuses, ForwardIsExact, FreshIsExact

\* A check that ends without a proof keeps the invariant.
LEMMA EndsWell ==
    ASSUME IInv, NEW status \in Statuses \ {"proved"}, Ends(status),
           UNCHANGED <<disk, image, oleans, stages, returned>>
    PROVE  IInv'
<1>1. run' = Idle /\ result' = [status |-> status]
  BY DEF Ends
<1>2. result' \in Results /\ ForwardIsExact' /\ FreshIsExact'
  BY <1>1, OthersPromiseNothing
<1>3. stages' \in [Jobs -> Chains]
  BY DEF IInv, TypeOK
<1> QED
  BY <1>1, <1>2, <1>3, EndKeeps

-----------------------------------------------------------------------------
(* The steps of a check. *)

\* What does not depend on the check stays when only the check moves on.
LEMMA MoveKeeps ==
    ASSUME IInv, run' \in Checks, OnlyLost,
           UNCHANGED <<disk, image, oleans, stages, returned, result>>
    PROVE  /\ TypeOK' /\ Lengths' /\ FreshIsExact'
           /\ ~returned => ForwardIsExact' /\ PresentStands'
           /\ ~returned /\ run'.step # "export" => ImageIsOld' /\ NotedIsOld'
<1> USE DEF IInv
<1>1. TypeOK' /\ FreshIsExact'
  BY DEF TypeOK, FreshIsExact, Exact
<1>2. /\ Lengths' /\ (~returned => PresentStands')
      /\ ~returned /\ run'.step # "export" => NotedIsOld'
  BY <1>1, LossKeeps
<1>3. ~returned => ForwardIsExact'
  BY DEF Forward, ForwardIsExact, Exact
<1>4. ~returned /\ run'.step # "export" => ImageIsOld'
  BY DEF Forward, ImageIsOld
<1> QED
  BY <1>1, <1>2, <1>3, <1>4

\* As it does when the memory of the check stays as it is.
LEMMA SameIsLost == Notes' = Notes => OnlyLost
BY DEF OnlyLost

\* A check that begins has promised nothing and compiled nothing.
LEMMA BeginStep ==
    ASSUME IInv, NEW j \in Jobs, NEW resume \in BOOLEAN, Begin(j, resume)
    PROVE  IInv'
<1> USE DEF IInv
<1>1. <<>> \in Builds
  BY Basics DEF Builds
<1>2. run' \in Checks /\ run'.step = "elf" /\ run'.chain = <<>> /\ run'.noted = Nothing
  BY <1>1 DEF Begin, Checks, Steps, Chains, Nothing
<1>3. run'.step \notin Exported /\ run'.step \notin Chaining /\ run'.step # "export"
  BY <1>2 DEF Exported, Chaining
<1>0. Notes' = Notes \cup {Nothing} /\ \A i \in DOMAIN Order : Nothing[Order[i]] = <<>>
  BY <1>2, Basics, Sentinels DEF Begin, Notes, Nothing
<1>4. TypeOK' /\ Lengths'
  BY <1>0, <1>2, Sentinels DEF Begin, TypeOK, Lengths
<1>5. RunStands' /\ Calm'
  BY <1>2, <1>3 DEF RunStands, Calm
<1>6. FreshIsExact' /\ ForwardIsExact'
  BY DEF Begin, NoResult, FreshIsExact, ForwardIsExact
<1>7. Forward'
  <2> SUFFICES ASSUME ~returned PROVE Forward'
    BY DEF Forward, Begin
  <2>1. ImageIsOld' /\ NotedIsOld'
    BY <1>0, <1>3 DEF Begin, Forward, ImageIsOld, NotedIsOld, NotedImage
  <2>2. ChainIsOld' /\ BeforeIsOld' /\ ChainStands'
    BY <1>3 DEF ChainIsOld, BeforeIsOld, ChainStands
  <2>3. PresentStands'
    BY <1>0, SamePresent, PresentGrows DEF Begin, Forward, PresentStands
  <2> QED
    BY <1>6, <2>1, <2>2, <2>3 DEF Forward
<1> QED
  BY <1>4, <1>5, <1>6, <1>7

\* The ELF that is read is the present one.
LEMMA ReadElfStep ==
    ASSUME IInv, ReadElf
    PROVE  IInv'
<1> USE DEF IInv
<1>1. CASE disk["elf"] \notin Pinned[run.job]
  <2>1. run' = Idle /\ result' = [status |-> "error"]
    BY <1>1 DEF ReadElf, Ends
  <2> QED
    BY <2>1, EndsWell DEF ReadElf, Ends, Statuses
<1>2. CASE disk["elf"] \in Pinned[run.job]
  <2>1. run \in Checks
    BY Sentinels DEF ReadElf, TypeOK
  <2>2. disk["elf"] \in Versions
    BY Basics DEF TypeOK
  <2>3. /\ run' = [run EXCEPT !.step = "export", !.elf = disk["elf"]]
        /\ UNCHANGED <<disk, image, oleans, stages, returned, result>>
    BY <1>2 DEF ReadElf
  <2>4. /\ run' \in Checks /\ run'.step = "export" /\ run'.elf = disk["elf"]
        /\ run'.chain = run.chain /\ run'.calm = run.calm /\ run'.noted = run.noted
    BY <2>1, <2>2, <2>3 DEF Checks, Steps
  <2>11. Notes' = Notes
    BY <2>1, <2>3, <2>4, SameNotes, Sentinels
  <2>5. run'.step \notin Exported /\ run'.step \notin Chaining
    BY <2>4 DEF Exported, Chaining
  <2>6. TypeOK' /\ Lengths' /\ FreshIsExact'
        /\ (~returned => ForwardIsExact' /\ PresentStands')
    BY <2>3, <2>4, <2>11, SameIsLost, MoveKeeps
  <2>7. RunStands'
    BY <2>2, <2>4, <2>5 DEF ReadElf, RunStands
  <2>8. Calm'
    BY <2>3, <2>4, <2>5 DEF Calm
  <2>9. ~returned => ImageIsOld' /\ NotedIsOld'
    BY <2>2, <2>3, <2>4, <2>11, Basics DEF Forward, ImageIsOld, NotedIsOld, NotedImage
  <2>10. ChainIsOld' /\ BeforeIsOld' /\ ChainStands'
    BY <2>5 DEF ChainIsOld, BeforeIsOld, ChainStands
  <2> QED
    BY <2>3, <2>6, <2>7, <2>8, <2>9, <2>10 DEF Forward
<1> QED
  BY <1>1, <1>2

\* A generated image is never older than one that was noted: an ELF that has been
\* exported before is either still the exported one, or older than this one.
LEMMA ExportStep ==
    ASSUME IInv, Export
    PROVE  IInv'
<1> USE DEF IInv
<1>1. run \in Checks /\ run.step = "export" /\ run.elf \in Versions
  BY Sentinels DEF Export, TypeOK, RunStands
<1>2. UNCHANGED <<disk, oleans, stages, returned>>
  BY DEF Export
<1>3. disk["elf"] \in Versions /\ image \in Contents
  BY Basics DEF TypeOK, Contents
<1>4. CASE run.elf \in Refused
  <2>1. image' = Absent /\ run' = Idle /\ result' = [status |-> "unsupported"]
    BY <1>4 DEF Export, Ends
  <2>2. run'.step = "idle" /\ run'.step \notin Exported /\ run'.step \notin Chaining
    BY <2>1, Sentinels DEF Exported, Chaining
  <2>9. Notes' \subseteq Notes
    BY <1>2, <2>1 DEF Notes
  <2>3. TypeOK' /\ Lengths'
    BY <1>2, <2>1, <2>9, OthersPromiseNothing DEF TypeOK, Lengths, Statuses
  <2>4. RunStands' /\ Calm'
    BY <2>1, <2>2 DEF RunStands, Calm
  <2>5. FreshIsExact' /\ ForwardIsExact'
    BY <2>1, OthersPromiseNothing DEF Statuses
  <2>6. ASSUME ~returned
        PROVE  ImageIsOld' /\ NotedIsOld'
    <3>1. ImageIsOld'
      <4>1. run'.step # "export" /\ 0 <= disk["elf"]
        BY <1>3, <2>2, Numbers
      <4> QED
        BY <1>2, <2>1, <4>1 DEF ImageIsOld, Absent
    <3>2. ASSUME NEW v, NotedImage(v) PROVE NotedImage(v)'
      <4>1. v \in Versions \ Refused /\ v <= run.elf /\ run.elf <= disk["elf"]
        BY <1>1, <2>6, <3>2 DEF Forward, ImageIsOld, NotedImage
      <4>2. v # run.elf /\ v \in Nat /\ run.elf \in Nat /\ disk["elf"] \in Nat
        BY <1>1, <1>3, <1>4, <4>1, Numbers
      <4>3. v < disk["elf"]
        BY <4>1, <4>2
      <4>4. run'.step # "export" /\ disk' = disk
        BY <1>2, <2>2
      <4> QED
        BY <2>1, <4>1, <4>2, <4>3, <4>4 DEF NotedImage
    <3> QED
      BY <1>2, <2>6, <2>9, <3>1, <3>2 DEF Forward, NotedIsOld
  <2>7. ChainIsOld' /\ BeforeIsOld' /\ ChainStands'
    BY <2>2 DEF ChainIsOld, BeforeIsOld, ChainStands
  <2>8. ASSUME ~returned
        PROVE  PresentStands'
    <3> SUFFICES ASSUME NEW s \in Notes, NEW i \in DOMAIN Order,
                        s[Order[i]] = Present(i)'
                 PROVE  \A k \in 1 .. i : oleans[Order[k]] = Present(k)'
      BY <1>2, <2>9 DEF PresentStands
    <3>1. \A k \in 1 .. i : Order[k] # "image"
      <4> SUFFICES ASSUME NEW k \in 1 .. i, Order[k] = "image" PROVE FALSE
        OBVIOUS
      <4>1. k \in DOMAIN s[Order[i]] /\ s[Order[i]][k] = Absent
        BY <2>1 DEF Present, Source
      <4>2. NotedImage(Absent)
        BY <2>8, <4>1 DEF Forward, NotedIsOld
      <4> QED
        BY <4>2, Basics DEF NotedImage
    <3>2. \A k \in 1 .. i : Present(k)' = Present(k)
      BY <1>2, <3>1, Basics DEF Present, Source
    <3> QED
      BY <2>8, <3>2, Basics DEF Forward, PresentStands
  <2> QED
    BY <1>2, <2>3, <2>4, <2>5, <2>6, <2>7, <2>8 DEF Forward
<1>5. CASE run.elf \notin Refused
  <2>1. image' = run.elf /\ run' = [run EXCEPT !.step = "scan"] /\ result' = result
    BY <1>5 DEF Export, Goes
  <2>2. /\ run' \in Checks /\ run'.step = "scan" /\ run'.elf = run.elf
        /\ run'.chain = run.chain /\ run'.calm = run.calm /\ run'.noted = run.noted
    BY <1>1, <2>1 DEF Checks, Steps
  <2>11. Notes' = Notes
    BY <1>1, <1>2, <2>2, SameNotes, Sentinels
  <2>3. run'.step \in Exported /\ run'.step \notin Chaining
    BY <2>2 DEF Exported, Chaining
  <2>4. TypeOK' /\ Lengths' /\ FreshIsExact'
    BY <1>1, <1>2, <2>1, <2>2, <2>11 DEF TypeOK, Lengths, FreshIsExact, Exact
  <2>5. RunStands'
    BY <1>1, <1>5, <2>1, <2>2, <2>3 DEF RunStands
  <2>6. Calm'
    BY <1>1, <1>2, <2>2, <2>3, Sentinels DEF Calm
  <2>7. ASSUME ~returned
        PROVE  ImageIsOld' /\ NotedIsOld'
    <3>1. ImageIsOld'
      BY <1>1, <1>2, <2>1, <2>2, <2>7 DEF Forward, ImageIsOld
    <3>2. ASSUME NEW v, NotedImage(v) PROVE NotedImage(v)'
      BY <1>1, <1>2, <2>1, <2>2, <2>7, <3>2, Basics DEF NotedImage
    <3> QED
      BY <1>2, <2>7, <2>11, <3>1, <3>2 DEF Forward, NotedIsOld
  <2>8. ChainIsOld' /\ BeforeIsOld' /\ ChainStands'
    BY <2>3 DEF ChainIsOld, BeforeIsOld, ChainStands
  <2>9. ASSUME ~returned
        PROVE  PresentStands'
    <3> SUFFICES ASSUME NEW s \in Notes, NEW i \in DOMAIN Order,
                        s[Order[i]] = Present(i)'
                 PROVE  \A k \in 1 .. i : oleans[Order[k]] = Present(k)'
      BY <1>2, <2>11 DEF PresentStands
    <3>1. ASSUME NEW k \in 1 .. i, Order[k] = "image" PROVE image' = image
      <4>1. k \in DOMAIN s[Order[i]] /\ s[Order[i]][k] = run.elf
        BY <2>1, <3>1 DEF Present, Source
      <4>2. NotedImage(run.elf)
        BY <2>9, <3>1, <4>1 DEF Forward, NotedIsOld
      <4>3. image # Absent /\ run.elf <= image /\ image <= run.elf
        BY <1>1, <1>3, <2>9, <4>2, Numbers DEF Forward, ImageIsOld, NotedImage
      <4> QED
        BY <1>1, <1>3, <2>1, <4>3, Basics DEF Contents
    <3>2. \A k \in 1 .. i : Present(k)' = Present(k)
      BY <1>2, <3>1, Basics DEF Present, Source
    <3> QED
      BY <2>9, <3>2, Basics DEF Forward, PresentStands
  <2>10. ~returned => ForwardIsExact'
    BY <1>2, <2>1 DEF Forward, ForwardIsExact, Exact
  <2> QED
    BY <1>2, <2>4, <2>5, <2>6, <2>7, <2>8, <2>9, <2>10 DEF Forward
<1> QED
  BY <1>4, <1>5

\* Looking for commands that bypass the kernel.
LEMMA ScanStep ==
    ASSUME IInv, Scan
    PROVE  IInv'
<1> USE DEF IInv
<1>1. CASE \E m \in Modules : <<m, Source(m)>> \in Escapes
  BY <1>1, EndsWell DEF Scan, Statuses
<1>2. CASE ~ \E m \in Modules : <<m, Source(m)>> \in Escapes
  <2>1. run \in Checks /\ run.step = "scan"
    BY Sentinels DEF Scan, TypeOK
  <2>2. /\ run' = [run EXCEPT !.step = "before"]
        /\ UNCHANGED <<disk, image, oleans, stages, returned, result>>
    BY <1>2 DEF Scan, Goes
  <2>3. /\ run' \in Checks /\ run'.step = "before" /\ run'.elf = run.elf
        /\ run'.chain = run.chain /\ run'.calm = run.calm /\ run'.noted = run.noted
    BY <2>1, <2>2 DEF Checks, Steps
  <2>9. OnlyLost
    BY <2>1, <2>2, <2>3, SameNotes, SameIsLost, Sentinels
  <2>4. run'.step # "export" /\ run'.step \notin Chaining
    BY <2>3 DEF Chaining
  <2>5. TypeOK' /\ Lengths' /\ FreshIsExact'
        /\ (~returned => ForwardIsExact' /\ PresentStands' /\ ImageIsOld' /\ NotedIsOld')
    BY <2>2, <2>3, <2>4, <2>9, MoveKeeps
  <2>6. RunStands'
    BY <2>1, <2>2, <2>3, <2>4 DEF RunStands, Exported
  <2>7. Calm'
    BY <1>2, <2>1, <2>2, <2>3, <2>4, SamePresent, Sentinels DEF Calm
  <2>8. ChainIsOld' /\ BeforeIsOld' /\ ChainStands'
    BY <2>4 DEF ChainIsOld, BeforeIsOld, ChainStands
  <2> QED
    BY <2>2, <2>5, <2>6, <2>7, <2>8 DEF Forward
<1> QED
  BY <1>1, <1>2

\* Naming the inputs, before any module.
LEMMA BeforeStep ==
    ASSUME IInv, Before
    PROVE  IInv'
<1> USE DEF IInv
<1>1. run \in Checks /\ run.step = "before" /\ run.chain = <<>>
  BY Sentinels DEF Before, TypeOK, RunStands
<1>2. /\ run' = [run EXCEPT !.step = "hash", !.before = disk, !.noted = stages[run.job]]
      /\ UNCHANGED <<disk, image, oleans, stages, returned, result>>
  BY DEF Before
<1>3. disk \in [Inputs -> Versions] /\ run.job \in Jobs /\ stages[run.job] \in Chains
  BY <1>1 DEF TypeOK, Checks
<1>4. /\ run' \in Checks /\ run'.step = "hash" /\ run'.elf = run.elf
      /\ run'.before = disk /\ run'.chain = <<>> /\ run'.calm = run.calm
      /\ run'.noted = stages[run.job]
  BY <1>1, <1>2, <1>3 DEF Checks, Steps
<1>13. OnlyLost
  <2>1. Notes' \subseteq Notes
    BY <1>2, <1>3, <1>4 DEF Notes
  <2> QED
    BY <2>1 DEF OnlyLost
<1>5. TypeOK' /\ Lengths' /\ FreshIsExact'
      /\ (~returned => ForwardIsExact' /\ PresentStands' /\ ImageIsOld' /\ NotedIsOld')
  BY <1>2, <1>4, <1>13, MoveKeeps
<1>6. 1 \in DOMAIN Order
  BY Basics, OrderAssumption DEF Modules
<1>7. Len(run'.chain) = 0 /\ 0 < Len(Order) /\ Present(0) = <<>>
  BY <1>4, <1>6, Basics, PresentGrows
<1>8. RunStands'
  BY <1>1, <1>2, <1>3, <1>4, <1>7 DEF RunStands, Exported
<1>9. Vouched' = 0
  BY <1>4, <1>7 DEF Vouched
<1>10. Calm'
  <2> SUFFICES ASSUME run.calm PROVE Calm'
    BY <1>4 DEF Calm
  <2>1. run.elf = disk["elf"] /\ \A m \in Modules : <<m, Source(m)>> \notin Escapes
    BY <1>1, Sentinels DEF Calm, Exported
  <2>2. (\A m \in Modules : <<m, Source(m)>> \notin Escapes)'
    BY <1>2, <2>1, SamePresent
  <2>3. run'.chain = Present(Len(run.chain))'
    BY <1>2, <1>4, <1>7, SamePresent
  <2>4. \A k \in 1 .. Vouched' : oleans'[Order[k]] = Present(k)'
    BY <1>9
  <2> QED
    BY <1>2, <1>4, <2>1, <2>2, <2>3, <2>4 DEF Calm
<1>11. ChainIsOld' /\ ChainStands'
  BY <1>4, <1>9 DEF ChainIsOld, ChainStands
<1>12. BeforeIsOld'
  <2>1. \A f \in Inputs : disk[f] <= disk[f]
    BY <1>3, Numbers
  <2> QED
    BY <1>2, <1>4, <2>1 DEF BeforeIsOld
<1> QED
  BY <1>2, <1>5, <1>8, <1>10, <1>11, <1>12 DEF Forward

\* A chain that is present without its last module is present.
LEMMA ChainTail ==
    ASSUME TypeOK, NEW c \in Builds, NEW x \in Contents, NEW n \in DOMAIN Order,
           n = Len(c) + 1, Append(c, x) = Present(n)
    PROVE  c = Present(n - 1)
<1>1. Len(c) < Len(Order) /\ Len(c) \in Nat /\ c \in Seq(Contents)
  BY Basics DEF Builds, Contents
<1>2. Present(n - 1) \in Seq(Contents) /\ Len(Present(n - 1)) = Len(c)
  BY <1>1, PresentGrows, Basics DEF Builds, Contents
<1>3. ASSUME NEW k \in 1 .. Len(c) PROVE c[k] = Present(n - 1)[k]
  <2>1. Append(c, x)[k] = c[k]
    BY <1>1, Growing
  <2>2. k \in 1 .. n /\ k \in 1 .. (n - 1)
    BY <1>1
  <2>3. Present(n)[k] = Source(Order[k]) /\ Present(n - 1)[k] = Source(Order[k])
    BY <2>2 DEF Present
  <2> QED
    BY <2>1, <2>3
<1> QED
  BY <1>1, <1>2, <1>3

\* A module is skipped only when its noted chain is the present one.
LEMMA HashStep ==
    ASSUME IInv, Hash
    PROVE  IInv'
<1> USE DEF IInv
<1> DEFINE n == Len(run.chain) + 1
           m == Order[n]
           chain == Append(run.chain, Source(m))
           skipped == Skipped(m, chain)
<1>1. /\ run \in Checks /\ run.step = "hash" /\ run.chain \in Builds
      /\ Len(run.chain) < Len(Order) /\ run.before \in [Inputs -> Versions]
      /\ run # Idle /\ run.noted \in Chains
  BY Sentinels DEF Hash, TypeOK, RunStands, Chaining, Checks
<1>2. /\ run' = IF skipped THEN [run EXCEPT !.chain = chain, !.step = AfterModule(chain)]
                ELSE [run EXCEPT !.chain = chain, !.step = "lean", !.noted[m] = <<>>]
      /\ UNCHANGED <<disk, image, oleans, stages, returned, result>>
  BY DEF Hash
<1>3. n \in DOMAIN Order /\ m \in Modules /\ Source(m) \in Contents /\ n - 1 = Len(run.chain)
  BY <1>1, Basics, SourceIsContent DEF Builds
<1>4. /\ chain \in Builds /\ Len(chain) = n /\ chain[n] = Source(m)
      /\ \A k \in 1 .. n - 1 : chain[k] = run.chain[k]
  BY <1>1, <1>3, Growing
<1> HIDE DEF n, m, chain, skipped
<1>5. /\ AfterModule(chain) \in {"replay", "hash"}
      /\ AfterModule(chain) = "hash" => n < Len(Order)
      /\ AfterModule(chain) = "replay" => n = Len(Order)
  BY <1>3, <1>4, Basics DEF AfterModule
<1>6. /\ run' \in Checks /\ run'.chain = chain /\ run'.elf = run.elf /\ run'.job = run.job
      /\ run'.before = run.before /\ run'.calm = run.calm /\ run'.resume = run.resume
      /\ run'.step = (IF skipped THEN AfterModule(chain) ELSE "lean")
      /\ \A mm \in Modules : run'.noted[mm] = run.noted[mm] \/ run'.noted[mm] = <<>>
  <2>1. <<>> \in Builds /\ [run.noted EXCEPT ![m] = <<>>] \in Chains
        /\ \A mm \in Modules : \/ [run.noted EXCEPT ![m] = <<>>][mm] = run.noted[mm]
                              \/ [run.noted EXCEPT ![m] = <<>>][mm] = <<>>
    <3>1. <<>> \in Builds
      BY Basics DEF Builds
    <3>2. run.noted \in [Modules -> Builds]
      BY <1>1 DEF Chains
    <3> HIDE DEF IInv, Builds
    <3> QED
      BY <3>1, <3>2 DEF Chains
  <2>2. CASE skipped
    BY <1>1, <1>2, <1>4, <1>5, <2>2 DEF Checks, Steps
  <2>3. CASE ~skipped
    <3> DEFINE note == [run.noted EXCEPT ![m] = <<>>]
    <3>1. run' = [run EXCEPT !.chain = chain, !.step = "lean", !.noted = note]
      BY <1>1, <1>2, <2>3
    <3>2. note \in Chains /\ \A mm \in Modules : note[mm] = run.noted[mm] \/ note[mm] = <<>>
      BY <2>1
    <3> HIDE DEF note
    <3>3. /\ run' \in Checks /\ run'.chain = chain /\ run'.elf = run.elf /\ run'.job = run.job
          /\ run'.before = run.before /\ run'.calm = run.calm /\ run'.resume = run.resume
          /\ run'.step = "lean" /\ run'.noted = note
      BY <1>1, <1>4, <3>1, <3>2 DEF Checks, Steps
    <3> QED
      BY <2>3, <3>2, <3>3
  <2> QED
    BY <2>2, <2>3
<1>13. OnlyLost
  <2>1. Notes' = {stages[j] : j \in Jobs} \cup {run'.noted}
    BY <1>2, <1>6, Sentinels DEF Notes
  <2>2. run.noted \in Notes /\ {stages[j] : j \in Jobs} \subseteq Notes
    BY <1>1 DEF Notes
  <2> QED
    BY <1>6, <2>1, <2>2 DEF OnlyLost
<1>7. run'.step \in Chaining /\ run'.step \in {"hash", "lean", "replay"}
  BY <1>5, <1>6 DEF Chaining
<1>8. TypeOK' /\ Lengths' /\ FreshIsExact'
      /\ (~returned => ForwardIsExact' /\ PresentStands' /\ ImageIsOld' /\ NotedIsOld')
  BY <1>2, <1>6, <1>7, <1>13, MoveKeeps
<1>9. RunStands'
  BY <1>1, <1>2, <1>3, <1>4, <1>5, <1>6, <1>7 DEF RunStands, Exported
<1>10. Vouched' = (IF skipped THEN n ELSE n - 1) /\ Vouched = n - 1
  BY <1>1, <1>3, <1>4, <1>5, <1>6 DEF Vouched
<1>11. Calm'
  <2> SUFFICES ASSUME run.calm PROVE Calm'
    BY <1>6 DEF Calm
  <2>1. run # Idle /\ run.step \in Chaining /\ run.step \in Exported \ {"scan"} /\ run.step # "elf"
    BY <1>1, Sentinels DEF Exported, Chaining
  <2>2. /\ run.elf = disk["elf"] /\ \A mm \in Modules : <<mm, Source(mm)>> \notin Escapes
        /\ run.before = disk /\ run.chain = Present(n - 1)
        /\ ~run.resume => \A k \in 1 .. n - 1 : oleans[Order[k]] = Present(k)
    BY <1>3, <1>10, <2>1 DEF Calm
  <2>3. chain = Present(n)
    BY <1>3, <2>2, PresentGrows DEF chain, m
  <2>4. ~run.resume => ~skipped
    BY DEF skipped, Skipped
  <2>5. (\A mm \in Modules : <<mm, Source(mm)>> \notin Escapes)'
    BY <1>2, <2>2, SamePresent
  <2>6. run'.chain = Present(Len(run.chain))'
    BY <1>2, <1>4, <1>6, <2>3, SamePresent
  <2>7. ~run'.resume => \A k \in 1 .. Vouched' : oleans'[Order[k]] = Present(k)'
    BY <1>2, <1>6, <1>10, <2>2, <2>4, SamePresent
  <2> QED
    BY <1>2, <1>6, <2>2, <2>5, <2>6, <2>7 DEF Calm
<1>12. ASSUME ~returned PROVE ChainIsOld' /\ BeforeIsOld' /\ ChainStands'
  <2>1. run.step \in Chaining
    BY <1>1 DEF Chaining
  <2>2. BeforeIsOld'
    BY <1>2, <1>6, <1>12, <2>1 DEF Forward, BeforeIsOld
  <2>3. ChainIsOld'
    <3> SUFFICES ASSUME NEW k \in DOMAIN chain
                 PROVE  IF Order[k] = "image"
                        THEN chain[k] = image
                        ELSE run.before[Order[k]] <= chain[k] /\ chain[k] <= disk[Order[k]]
      BY <1>2, <1>6 DEF ChainIsOld
    <3>1. k \in 1 .. n
      BY <1>3, <1>4, Basics DEF Builds
    <3>2. CASE k = n
      <4>1. Order[k] # "image" => Order[k] \in Inputs
        BY <1>3, <3>2, Basics DEF m
      <4>2. \A f \in Inputs : disk[f] \in Versions
        BY DEF TypeOK
      <4>3. \A f \in Inputs : run.before[f] <= disk[f] /\ disk[f] <= disk[f]
        BY <1>12, <2>1, <4>2, Numbers DEF Forward, BeforeIsOld
      <4>4. chain[k] = IF Order[k] = "image" THEN image ELSE disk[Order[k]]
        BY <1>4, <3>2 DEF m, Source
      <4> QED
        BY <4>1, <4>3, <4>4
    <3>3. CASE k # n
      <4>1. k \in 1 .. n - 1 /\ k \in DOMAIN run.chain /\ chain[k] = run.chain[k]
        BY <1>1, <1>3, <1>4, <3>1, <3>3, Basics DEF Builds
      <4> QED
        BY <1>12, <2>1, <4>1 DEF Forward, ChainIsOld
    <3> QED
      BY <3>2, <3>3
  <2>4. ChainStands'
    <3> SUFFICES ASSUME chain = Present(n)
                 PROVE  \A k \in 1 .. Vouched' : oleans[Order[k]] = Present(k)
      BY <1>2, <1>4, <1>6, SamePresent DEF ChainStands
    <3>1. run.chain = Present(n - 1)
      BY <1>1, <1>3, ChainTail DEF chain
    <3>2. \A k \in 1 .. n - 1 : oleans[Order[k]] = Present(k)
      BY <1>3, <1>10, <1>12, <2>1, <3>1 DEF Forward, ChainStands
    <3>3. ASSUME skipped PROVE \A k \in 1 .. n : oleans[Order[k]] = Present(k)
      <4>1. run.noted[Order[n]] = Present(n) /\ run.noted \in Notes
        BY <1>1, <3>3, AreNotes DEF skipped, Skipped, m
      <4> QED
        BY <1>1, <1>3, <1>12, <4>1 DEF Forward, PresentStands
    <3> QED
      BY <1>10, <3>2, <3>3
  <2> QED
    BY <2>2, <2>3, <2>4
<1> QED
  BY <1>2, <1>8, <1>9, <1>11, <1>12 DEF Forward

\* Lean makes the next module stand for the present, if the ones before do.
LEMMA LeanStep ==
    ASSUME IInv, Lean
    PROVE  IInv'
<1> USE DEF IInv
<1> DEFINE n == Len(run.chain)
           imported == IF n = 1 THEN <<>> ELSE oleans[Order[n - 1]]
           olean == Append(imported, Source(Order[n]))
<1>1. /\ run \in Checks /\ run.step = "lean" /\ run.chain \in Builds /\ n \in DOMAIN Order
      /\ run.before \in [Inputs -> Versions] /\ run.step \in Chaining
  BY Sentinels DEF Lean, TypeOK, RunStands, Chaining, Checks
<1>2. /\ run' = [run EXCEPT !.step = "record"]
      /\ oleans' = [oleans EXCEPT ![Order[n]] = olean]
      /\ UNCHANGED <<disk, image, stages, returned, result>>
  BY DEF Lean, Goes, Current
<1>3. n \in DOMAIN Order
  BY <1>1
<1> HIDE DEF olean, n
<1>4. /\ n \in Nat /\ 1 <= n /\ Order[n] \in Modules /\ Source(Order[n]) \in Contents
      /\ n # 1 => n - 1 \in DOMAIN Order /\ n - 1 \in 1 .. n - 1
  BY <1>3, Basics, SourceIsContent
<1>5. imported \in Builds /\ Len(imported) <= n - 1
  <2>1. CASE n = 1
    BY <1>4, <2>1, Basics DEF Builds
  <2>2. CASE n # 1
    <3>1. n - 1 \in DOMAIN Order /\ Order[n - 1] \in Modules
      BY <1>4, <2>2, Basics
    <3> QED
      BY <2>2, <3>1 DEF TypeOK, Lengths
  <2> QED
    BY <2>1, <2>2
<1> HIDE DEF imported
<1>6. olean \in Builds /\ Len(olean) <= n
  <2>1. Len(imported) < Len(Order) /\ Len(imported) \in Nat
    BY <1>1, <1>4, <1>5, Basics DEF Builds
  <2> QED
    BY <1>4, <1>5, <2>1, Growing DEF olean
<1>7. /\ run' \in Checks /\ run'.chain = run.chain /\ run'.elf = run.elf /\ run'.job = run.job
      /\ run'.before = run.before /\ run'.calm = run.calm /\ run'.resume = run.resume
      /\ run'.step = "record" /\ run'.noted = run.noted
  BY <1>1, <1>2 DEF Checks, Steps
<1>20. Notes' = Notes
  BY <1>1, <1>2, <1>7, SameNotes, Sentinels
<1>8. run'.step \in Chaining /\ run'.step # "export"
  BY <1>7 DEF Chaining
<1>9. oleans' \in [Modules -> Builds]
  BY <1>2, <1>4, <1>6 DEF TypeOK
<1>10. /\ oleans'[Order[n]] = olean
      /\ \A k \in DOMAIN Order : k # n => oleans'[Order[k]] = oleans[Order[k]]
  BY <1>1, <1>2, <1>4, Basics DEF TypeOK
<1>11. TypeOK' /\ FreshIsExact' /\ (~returned => ForwardIsExact')
  BY <1>2, <1>7, <1>9 DEF TypeOK, FreshIsExact, Forward, ForwardIsExact, Exact
<1>12. Lengths'
  <2>1. \A i \in DOMAIN Order : Len(oleans'[Order[i]]) <= i
    BY <1>6, <1>10 DEF Lengths
  <2> QED
    BY <1>2, <1>20, <2>1 DEF Lengths
<1>13. RunStands'
  BY <1>1, <1>2, <1>7, <1>8 DEF RunStands, Exported, n
<1>14. Vouched' = n /\ Vouched = n - 1
  BY <1>1, <1>7 DEF Vouched, n
<1>15. ASSUME \A k \in 1 .. n - 1 : oleans[Order[k]] = Present(k)
       PROVE  olean = Present(n)
  <2>1. imported = Present(n - 1)
    <3>1. CASE n = 1
      BY <1>3, <3>1, PresentGrows DEF imported
    <3>2. CASE n # 1
      BY <1>4, <1>15, <3>2 DEF imported
    <3> QED
      BY <3>1, <3>2
  <2> QED
    BY <1>3, <2>1, PresentGrows DEF olean
<1>16. ASSUME NEW i \in DOMAIN Order, \A k \in 1 .. i : oleans[Order[k]] = Present(k)
       PROVE  \A k \in 1 .. i : oleans'[Order[k]] = Present(k)
  <2> SUFFICES ASSUME NEW k \in 1 .. i PROVE oleans'[Order[k]] = Present(k)
    OBVIOUS
  <2>1. k \in DOMAIN Order
    BY Basics
  <2>2. CASE k # n
    BY <1>10, <1>16, <2>1, <2>2
  <2>3. CASE k = n
    <3>1. 1 .. n - 1 \subseteq 1 .. i
      BY <2>1, <2>3, Basics
    <3> QED
      BY <1>10, <1>15, <1>16, <2>3, <3>1
  <2> QED
    BY <2>2, <2>3
<1>17. ASSUME \A k \in 1 .. Vouched : oleans[Order[k]] = Present(k)
       PROVE  \A k \in 1 .. Vouched' : oleans'[Order[k]] = Present(k)
  <2>1. olean = Present(n)
    BY <1>14, <1>15, <1>17
  <2>2. \A k \in 1 .. n : k \in DOMAIN Order /\ (k # n => k \in 1 .. n - 1)
    BY <1>4, <1>3, Basics
  <2> QED
    BY <1>10, <1>14, <1>17, <2>1, <2>2
<1>18. Calm'
  <2> SUFFICES ASSUME run.calm PROVE Calm'
    BY <1>7 DEF Calm
  <2>1. run # Idle /\ run.step \in Exported \ {"scan"} /\ run.step # "elf"
    BY <1>1, Sentinels DEF Exported
  <2>2. /\ run.elf = disk["elf"] /\ \A m \in Modules : <<m, Source(m)>> \notin Escapes
        /\ run.before = disk /\ run.chain = Present(n)
        /\ ~run.resume => \A k \in 1 .. Vouched : oleans[Order[k]] = Present(k)
    BY <1>1, <2>1 DEF Calm, n
  <2>3. (\A m \in Modules : <<m, Source(m)>> \notin Escapes)'
    BY <1>2, <2>2, SamePresent
  <2>4. run'.chain = Present(Len(run.chain))'
    BY <1>2, <1>7, <2>2, SamePresent DEF n
  <2>5. ~run'.resume => \A k \in 1 .. Vouched' : oleans'[Order[k]] = Present(k)'
    BY <1>2, <1>7, <1>17, <2>2, SamePresent
  <2> QED
    BY <1>2, <1>7, <2>2, <2>3, <2>4, <2>5 DEF Calm
<1>19. ASSUME ~returned PROVE Forward'
  <2>1. ImageIsOld' /\ NotedIsOld'
    BY <1>2, <1>8, <1>19, <1>20 DEF Forward, ImageIsOld, NotedIsOld, NotedImage
  <2>2. ChainIsOld' /\ BeforeIsOld'
    BY <1>1, <1>2, <1>7, <1>19 DEF Forward, ChainIsOld, BeforeIsOld
  <2>3. ChainStands'
    BY <1>1, <1>2, <1>7, <1>17, <1>19, SamePresent DEF Forward, ChainStands
  <2>4. PresentStands'
    <3> SUFFICES ASSUME NEW s \in Notes, NEW i \in DOMAIN Order,
                        s[Order[i]] = Present(i)
                 PROVE  \A k \in 1 .. i : oleans'[Order[k]] = Present(k)
      BY <1>2, <1>20, SamePresent DEF PresentStands
    <3>1. \A k \in 1 .. i : oleans[Order[k]] = Present(k)
      BY <1>19 DEF Forward, PresentStands
    <3> QED
      BY <1>16, <3>1
  <2> QED
    BY <1>11, <1>19, <2>1, <2>2, <2>3, <2>4 DEF Forward
<1> QED
  BY <1>2, <1>11, <1>12, <1>13, <1>18, <1>19 DEF Forward

\* What is noted is the chain of the check.
LEMMA RecordStep ==
    ASSUME IInv, NEW stored \in {"whole", "cut", "old"}, Record(stored)
    PROVE  IInv'
<1> USE DEF IInv
<1> DEFINE n == Len(run.chain)
           note == [run.noted EXCEPT ![Order[n]] = run.chain]
<1>1. /\ run \in Checks /\ run.step = "record" /\ run.chain \in Builds
      /\ run.before \in [Inputs -> Versions] /\ run.step \in Chaining /\ run.job \in Jobs
      /\ n \in DOMAIN Order /\ n \in Nat /\ run # Idle /\ run.noted \in Chains
  BY Sentinels, Basics DEF Record, TypeOK, RunStands, Chaining, Checks
<1>2. /\ run' = [run EXCEPT !.step = AfterModule(run.chain), !.noted = note]
      /\ \/ stages' = [stages EXCEPT ![run.job] = run'.noted]
         \/ stages' = [stages EXCEPT ![run.job] = Nothing]
         \/ stages' = stages
      /\ UNCHANGED <<disk, image, oleans, returned, result>>
  BY <1>1 DEF Record, Current
<1>3. /\ AfterModule(run.chain) \in {"replay", "hash"}
      /\ AfterModule(run.chain) = "hash" => n < Len(Order)
      /\ AfterModule(run.chain) = "replay" => n = Len(Order)
  BY <1>1, Basics DEF AfterModule
<1>4. Order[n] \in Modules
  BY <1>1, Basics
<1>15. /\ note \in Chains
       /\ \A i \in DOMAIN Order :
            note[Order[i]] = IF i = n THEN run.chain ELSE run.noted[Order[i]]
  BY <1>1, <1>4, Basics DEF Chains
<1> HIDE DEF note
<1>5. /\ run' \in Checks /\ run'.chain = run.chain /\ run'.elf = run.elf /\ run'.job = run.job
      /\ run'.before = run.before /\ run'.calm = run.calm /\ run'.resume = run.resume
      /\ run'.step = AfterModule(run.chain) /\ run'.noted = note
  BY <1>1, <1>2, <1>3, <1>15 DEF Checks, Steps
<1>6. run'.step \in Chaining /\ run'.step # "export" /\ run'.step \in {"hash", "replay"}
  BY <1>3, <1>5 DEF Chaining
<1>7. Vouched' = n /\ Vouched = n
  BY <1>1, <1>5, <1>6 DEF Vouched
<1>8. stages' \in [Jobs -> Chains]
  BY <1>1, <1>2, <1>5, <1>15, NotesAreChains DEF TypeOK
<1>16. \A s \in Notes' : s \in Notes \/ s = note \/ s = Nothing
  <2>1. Notes' = {stages'[j] : j \in Jobs} \cup {note}
    BY <1>5, Sentinels DEF Notes
  <2>2. \A j \in Jobs : stages'[j] = stages[j] \/ stages'[j] = note \/ stages'[j] = Nothing
    BY <1>1, <1>2, <1>5 DEF TypeOK
  <2> QED
    BY <2>1, <2>2, AreNotes
<1>9. ASSUME NEW s \in Notes', NEW i \in DOMAIN Order
      PROVE  \/ s[Order[i]] = <<>>
             \/ i = n /\ s[Order[i]] = run.chain
             \/ \E t \in Notes : s[Order[i]] = t[Order[i]]
  BY <1>1, <1>15, <1>16, AreNotes, Basics, NotesAreChains
<1>10. TypeOK' /\ FreshIsExact' /\ (~returned => ForwardIsExact')
  BY <1>2, <1>5, <1>8 DEF TypeOK, FreshIsExact, Forward, ForwardIsExact, Exact
<1>11. Lengths'
  BY <1>2, <1>9 DEF Lengths
<1>12. RunStands'
  BY <1>1, <1>2, <1>3, <1>5, <1>6 DEF RunStands, Exported
<1>13. Calm'
  <2> SUFFICES ASSUME run.calm PROVE Calm'
    BY <1>5 DEF Calm
  <2>1. run # Idle /\ run.step \in Exported \ {"scan"} /\ run.step # "elf"
    BY <1>1, Sentinels DEF Exported
  <2>2. /\ run.elf = disk["elf"] /\ \A m \in Modules : <<m, Source(m)>> \notin Escapes
        /\ run.before = disk /\ run.chain = Present(n)
        /\ ~run.resume => \A k \in 1 .. n : oleans[Order[k]] = Present(k)
    BY <1>1, <1>7, <2>1 DEF Calm
  <2>3. (\A m \in Modules : <<m, Source(m)>> \notin Escapes)'
    BY <1>2, <2>2, SamePresent
  <2>4. run'.chain = Present(Len(run.chain))'
    BY <1>2, <1>5, <2>2, SamePresent
  <2>5. ~run'.resume => \A k \in 1 .. Vouched' : oleans'[Order[k]] = Present(k)'
    BY <1>2, <1>5, <1>7, <2>2, SamePresent
  <2> QED
    BY <1>2, <1>5, <2>2, <2>3, <2>4, <2>5 DEF Calm
<1>14. ASSUME ~returned PROVE Forward'
  <2>1. ImageIsOld'
    BY <1>2, <1>6, <1>14 DEF Forward, ImageIsOld
  <2>2. NotedIsOld'
    <3>1. \A v : NotedImage(v) => NotedImage(v)'
      BY <1>2, <1>6 DEF NotedImage
    <3>2. NotedImage(image)
      <4>1. image \in Versions \ Refused
        BY <1>1 DEF RunStands, Exported
      <4> QED
        BY <1>1, <1>14, <4>1, Numbers DEF Forward, ImageIsOld, NotedImage
    <3>3. \A k \in DOMAIN run.chain :
            IF Order[k] = "image"
            THEN NotedImage(run.chain[k])'
            ELSE run.chain[k] <= disk[Order[k]]
      BY <1>1, <1>5, <1>14, <3>1, <3>2 DEF Forward, ChainIsOld
    <3> SUFFICES ASSUME NEW s \in Notes', NEW i \in DOMAIN Order,
                        NEW k \in DOMAIN s[Order[i]]
                 PROVE  (IF Order[k] = "image"
                         THEN NotedImage(s[Order[i]][k])
                         ELSE s[Order[i]][k] <= disk[Order[k]])'
      BY DEF NotedIsOld
    <3>4. ASSUME NEW t \in Notes, s[Order[i]] = t[Order[i]]
          PROVE  (IF Order[k] = "image"
                  THEN NotedImage(s[Order[i]][k])
                  ELSE s[Order[i]][k] <= disk[Order[k]])'
      <4>1. IF Order[k] = "image"
            THEN NotedImage(s[Order[i]][k])
            ELSE s[Order[i]][k] <= disk[Order[k]]
        BY <1>14, <3>4 DEF Forward, NotedIsOld
      <4> QED
        BY <1>2, <3>1, <3>4, <4>1
    <3>5. CASE s[Order[i]] = run.chain
      BY <1>2, <1>5, <3>3, <3>5
    <3> QED
      BY <1>9, <3>4, <3>5
  <2>3. ChainIsOld' /\ BeforeIsOld'
    BY <1>1, <1>2, <1>5, <1>14 DEF Forward, ChainIsOld, BeforeIsOld
  <2>4. ChainStands'
    BY <1>1, <1>2, <1>5, <1>7, <1>14, SamePresent DEF Forward, ChainStands
  <2>5. PresentStands'
    <3> SUFFICES ASSUME NEW s \in Notes', NEW i \in DOMAIN Order,
                        s[Order[i]] = Present(i)
                 PROVE  \A k \in 1 .. i : oleans[Order[k]] = Present(k)
      BY <1>2, SamePresent DEF PresentStands
    <3>1. ASSUME NEW t \in Notes, s[Order[i]] = t[Order[i]]
          PROVE  \A k \in 1 .. i : oleans[Order[k]] = Present(k)
      BY <1>14, <3>1 DEF Forward, PresentStands
    <3>2. CASE i = n /\ s[Order[i]] = run.chain
      BY <1>1, <1>7, <1>14, <3>2 DEF Forward, ChainStands
    <3>3. s[Order[i]] # <<>>
      BY Basics, PresentGrows
    <3> QED
      BY <1>9, <3>1, <3>2, <3>3
  <2> QED
    BY <1>10, <1>14, <2>1, <2>2, <2>3, <2>4, <2>5 DEF Forward
<1> QED
  BY <1>2, <1>10, <1>11, <1>12, <1>13, <1>14 DEF Forward

\* Replaying and auditing read the compiled modules and change nothing.
LEMMA ReplayAuditStep ==
    ASSUME IInv, Replay \/ Audit
    PROVE  IInv'
<1> USE DEF IInv
<1> DEFINE step == IF run.step = "replay" THEN "audit" ELSE "after"
<1>1. /\ run \in Checks /\ run.step \in {"replay", "audit"} /\ run.step \in Chaining
      /\ run' = [run EXCEPT !.step = step]
      /\ UNCHANGED <<disk, image, oleans, stages, returned, result>>
  BY Sentinels DEF Replay, Audit, Goes, TypeOK, Chaining
<1>2. step \in {"audit", "after"}
  OBVIOUS
<1> HIDE DEF step
<1>3. /\ run' \in Checks /\ run'.chain = run.chain /\ run'.elf = run.elf /\ run'.job = run.job
      /\ run'.before = run.before /\ run'.calm = run.calm /\ run'.resume = run.resume
      /\ run'.step = step /\ run'.noted = run.noted
  BY <1>1, <1>2 DEF Checks, Steps
<1>10. OnlyLost
  BY <1>1, <1>3, SameNotes, SameIsLost, Sentinels
<1>4. run'.step \in Chaining /\ run'.step # "export"
  BY <1>2, <1>3 DEF Chaining
<1>5. TypeOK' /\ Lengths' /\ FreshIsExact'
      /\ (~returned => ForwardIsExact' /\ PresentStands' /\ ImageIsOld' /\ NotedIsOld')
  BY <1>1, <1>3, <1>4, <1>10, MoveKeeps
<1>6. Vouched' = Vouched
  BY <1>1, <1>2, <1>3 DEF Vouched
<1>7. RunStands'
  BY <1>1, <1>2, <1>3 DEF RunStands, Exported, Chaining
<1>8. Calm'
  <2> SUFFICES ASSUME run.calm PROVE Calm'
    BY <1>3 DEF Calm
  <2>1. run # Idle /\ run.step \in Exported \ {"scan"} /\ run.step # "elf"
    BY <1>1, Sentinels DEF Exported
  <2>2. /\ run.elf = disk["elf"] /\ \A m \in Modules : <<m, Source(m)>> \notin Escapes
        /\ run.before = disk /\ run.chain = Present(Len(run.chain))
        /\ ~run.resume => \A k \in 1 .. Vouched : oleans[Order[k]] = Present(k)
    BY <1>1, <2>1 DEF Calm
  <2>3. (\A m \in Modules : <<m, Source(m)>> \notin Escapes)'
    BY <1>1, <2>2, SamePresent
  <2>4. run'.chain = Present(Len(run.chain))'
    BY <1>1, <1>3, <2>2, SamePresent
  <2>5. ~run'.resume => \A k \in 1 .. Vouched' : oleans'[Order[k]] = Present(k)'
    BY <1>1, <1>3, <1>6, <2>2, SamePresent
  <2> QED
    BY <1>1, <1>3, <2>2, <2>3, <2>4, <2>5 DEF Calm
<1>9. ASSUME ~returned PROVE ChainIsOld' /\ BeforeIsOld' /\ ChainStands'
  <2>1. ChainIsOld' /\ BeforeIsOld'
    BY <1>1, <1>3, <1>9 DEF Forward, ChainIsOld, BeforeIsOld
  <2>2. ChainStands'
    BY <1>1, <1>3, <1>6, <1>9, SamePresent DEF Forward, ChainStands
  <2> QED
    BY <2>1, <2>2
<1> QED
  BY <1>1, <1>5, <1>7, <1>8, <1>9 DEF Forward

-----------------------------------------------------------------------------
(* The end of a check. *)

\* A check says proved only when its chain is the present, and so are the modules.
LEMMA AfterStep ==
    ASSUME IInv, After
    PROVE  IInv'
<1> USE DEF IInv
<1> DEFINE N == Len(Order)
<1>1. /\ run \in Checks /\ run.step = "after" /\ run.chain \in Builds /\ run.step \in Chaining
      /\ Len(run.chain) = N /\ run.elf \in Versions /\ image = run.elf
      /\ run.resume \in BOOLEAN /\ run.calm \in BOOLEAN
  BY Sentinels DEF After, TypeOK, RunStands, Chaining, Exported, Checks
<1>2. UNCHANGED <<disk, image, oleans, stages, returned>>
  BY DEF After
<1>3. CASE disk # run.before
  BY <1>2, <1>3, EndsWell DEF After, Statuses
<1>4. CASE disk = run.before
  <2>1. /\ run' = Idle
        /\ result' = [status |-> "proved", inputs |-> disk, elf |-> run.elf,
                      oleans |-> oleans, resume |-> run.resume, calm |-> run.calm]
    BY <1>4 DEF After
  <2>2. result' \in Results
    BY <1>1, <2>1 DEF TypeOK, Results
  <2>3. Vouched = N
    BY <1>1 DEF Vouched
  <2>4. ASSUME \A k \in 1 .. N : oleans[Order[k]] = Present(k)
        PROVE  Exact(result')
    <3> SUFFICES ASSUME NEW i \in DOMAIN Order
                 PROVE  oleans[Order[i]] =
                          [k \in 1 .. i |-> IF Order[k] = "image" THEN run.elf ELSE disk[Order[k]]]
      BY <2>1 DEF Exact
    <3>1. oleans[Order[i]] = Present(i)
      BY <2>4, Basics
    <3>2. \A k \in 1 .. i : Source(Order[k]) = IF Order[k] = "image" THEN run.elf ELSE disk[Order[k]]
      BY <1>1 DEF Source
    <3> QED
      BY <3>1, <3>2 DEF Present
  <2>5. ASSUME ~returned PROVE ForwardIsExact'
    <3>1. run.chain = Present(N)
      <4>1. ASSUME NEW k \in 1 .. N PROVE run.chain[k] = Source(Order[k])
        <5>1. k \in DOMAIN run.chain /\ k \in DOMAIN Order
          BY <1>1, Basics DEF Builds
        <5>2. CASE Order[k] = "image"
          BY <1>1, <2>5, <5>1, <5>2 DEF Forward, ChainIsOld, Source
        <5>3. CASE Order[k] # "image"
          <6>1. disk[Order[k]] <= run.chain[k] /\ run.chain[k] <= disk[Order[k]]
            BY <1>1, <1>4, <2>5, <5>1, <5>3 DEF Forward, ChainIsOld
          <6>2. disk[Order[k]] \in Versions /\ run.chain[k] \in Contents
            BY <1>1, <5>1, <5>3, Basics DEF TypeOK, Builds, Contents
          <6> QED
            BY <5>3, <6>1, <6>2, Numbers DEF Source
        <5> QED
          BY <5>2, <5>3
      <4>2. run.chain = [k \in 1 .. N |-> run.chain[k]]
        BY <1>1, Basics DEF Builds
      <4> QED
        BY <4>1, <4>2 DEF Present
    <3>2. \A k \in 1 .. N : oleans[Order[k]] = Present(k)
      BY <1>1, <2>3, <2>5, <3>1 DEF Forward, ChainStands
    <3>3. Exact(result')
      BY <2>4, <3>2
    <3> QED
      BY <3>3 DEF ForwardIsExact, Exact
  <2>6. FreshIsExact'
    <3> SUFFICES ASSUME ~run.resume, run.calm
                 PROVE  /\ Exact(result')
                        /\ run.elf = disk["elf"]
                        /\ \A m \in Modules \ {"image"} : <<m, disk[m]>> \notin Escapes
      BY <2>1 DEF FreshIsExact, Exact
    <3>1. run # Idle /\ run.step \in Exported \ {"scan"} /\ run.step # "elf"
      BY <1>1, Sentinels DEF Exported
    <3>2. /\ run.elf = disk["elf"] /\ \A m \in Modules : <<m, Source(m)>> \notin Escapes
          /\ \A k \in 1 .. N : oleans[Order[k]] = Present(k)
      BY <1>1, <2>3, <3>1 DEF Calm
    <3> QED
      BY <2>4, <3>2 DEF Source
  <2>7. stages' \in [Jobs -> Chains]
    BY <1>2 DEF TypeOK
  <2> QED
    BY <1>2, <2>1, <2>2, <2>5, <2>6, <2>7, EndKeeps
<1> QED
  BY <1>3, <1>4

\* Lean, the replay or the audit says no.
LEMMA RefuseStep ==
    ASSUME IInv, NEW status \in {"failed", "error"}, Refuse(status)
    PROVE  IInv'
<1>1. status \in Statuses \ {"proved"}
  BY DEF Statuses
<1> QED
  BY <1>1, EndsWell DEF Refuse

\* A tool is killed at its limit.
LEMMA LimitStep ==
    ASSUME IInv, Limit
    PROVE  IInv'
<1>1. "resource_exhausted" \in Statuses \ {"proved"}
  BY DEF Statuses
<1> QED
  BY <1>1, EndsWell DEF Limit

\* An interruption loses noted chains at most; the last result stays what it was.
LEMMA KillStep ==
    ASSUME IInv, NEW torn \in BOOLEAN, Kill(torn)
    PROVE  IInv'
<1>1. run \in Checks
  BY DEF IInv, TypeOK, Kill
<1>2. run.job \in Jobs
  BY <1>1 DEF Checks
<1>3. /\ run' = Idle
      /\ stages' = IF torn THEN [stages EXCEPT ![run.job] = Nothing] ELSE stages
      /\ UNCHANGED <<disk, image, oleans, returned, result>>
  BY DEF Kill
<1>4. stages \in [Jobs -> Chains] /\ Nothing \in Chains
  BY NotesAreChains DEF IInv, TypeOK
<1>5. stages' \in [Jobs -> Chains]
  BY <1>2, <1>3, <1>4
<1>6. \A j \in Jobs : stages'[j] = stages[j] \/ stages'[j] = Nothing
  BY <1>2, <1>3, <1>4
<1>7. result' \in Results /\ FreshIsExact' /\ (~returned => ForwardIsExact')
  BY <1>3 DEF IInv, TypeOK, Forward, FreshIsExact, ForwardIsExact, Exact
<1> QED
  BY <1>3, <1>5, <1>6, <1>7, EndKeeps

-----------------------------------------------------------------------------
(* Edits, and all steps together. *)

\* A noted chain names modules of the order.
LEMMA NotedIsChain ==
    ASSUME IInv, NEW s \in Notes, NEW i \in DOMAIN Order, NEW k \in DOMAIN s[Order[i]]
    PROVE  k \in DOMAIN Order /\ s[Order[i]][k] \in Contents
<1>1. s[Order[i]] \in Builds
  BY Basics, NotesAreChains DEF IInv, Chains
<1> QED
  BY <1>1, Basics DEF Builds, Contents

\* The chain of a check names modules of the order.
LEMMA ChainIsChain ==
    ASSUME IInv, run.step \in Chaining
    PROVE  /\ Len(run.chain) \in 0 .. Len(Order) /\ DOMAIN run.chain = 1 .. Len(run.chain)
           /\ \A k \in DOMAIN run.chain : k \in DOMAIN Order /\ run.chain[k] \in Contents
<1>1. run # Idle
  BY Sentinels DEF Chaining
<1>2. run.chain \in Builds
  BY <1>1 DEF IInv, TypeOK, Checks
<1> QED
  BY <1>2, Basics DEF Builds, Contents

\* A content that moves on makes every chain that names the old one a thing of the
\* past, so what is present still was before.
LEMMA EditStep ==
    ASSUME IInv, NEW f \in Inputs, NEW v \in Versions, Edit(f, v)
    PROVE  IInv'
<1> USE DEF IInv
<1>1. /\ disk' = [disk EXCEPT ![f] = v] /\ v # disk[f]
      /\ returned' = (returned \/ v < disk[f])
      /\ run' = IF run = Idle THEN run ELSE [run EXCEPT !.calm = FALSE]
      /\ UNCHANGED <<image, oleans, stages, result>>
  BY DEF Edit
<1>2. run = Idle => run.step \notin Exported /\ run.step # "export" /\ run.step \notin Chaining
  BY Sentinels DEF Exported, Chaining
<1>3. /\ run' \in {Idle} \cup Checks /\ (run' # Idle => ~run'.calm)
      /\ run'.step = run.step
      /\ run # Idle => /\ run'.chain = run.chain /\ run'.elf = run.elf
                       /\ run'.before = run.before /\ run'.noted = run.noted /\ run' # Idle
  <2>1. CASE run = Idle
    BY <1>1, <2>1
  <2>2. CASE run # Idle
    <3>1. run \in Checks
      BY <2>2 DEF TypeOK
    <3> QED
      BY <1>1, <2>2, <3>1, Sentinels DEF Checks
  <2> QED
    BY <2>1, <2>2
<1>4. disk \in [Inputs -> Versions] /\ disk' \in [Inputs -> Versions]
  BY <1>1 DEF TypeOK
<1>5. TypeOK'
  BY <1>1, <1>3, <1>4 DEF TypeOK
<1>11. Notes' = Notes
  BY <1>1, <1>3 DEF Notes
<1>6. Lengths'
  BY <1>1, <1>11 DEF Lengths
<1>7. RunStands'
  BY <1>1, <1>2, <1>3, Sentinels DEF RunStands, Exported, Chaining, Idle
<1>8. Calm'
  BY <1>3 DEF Calm
<1>9. FreshIsExact'
  BY <1>1 DEF FreshIsExact, Exact
<1>10. ASSUME ~returned' PROVE Forward'
  <2>1. ~returned /\ disk[f] < v
    <3>1. ~returned /\ ~(v < disk[f])
      BY <1>1, <1>10, Zenon
    <3> QED
      BY <1>1, <1>4, <3>1, Numbers
  <2>2. \A g \in Inputs : disk[g] <= disk'[g]
    BY <1>1, <1>4, <2>1, Numbers
  <2>3. \A g \in Inputs : disk[g] \in Nat /\ disk'[g] \in Nat
    BY <1>4, Numbers
  <2>4. ForwardIsExact'
    BY <1>1, <2>1 DEF Forward, ForwardIsExact, Exact
  <2>5. image \in Nat /\ "elf" \in Inputs
    BY Numbers, Basics DEF TypeOK, Contents
  <2>6. ImageIsOld'
    BY <1>1, <1>2, <1>3, <2>1, <2>2, <2>3, <2>5, Numbers
    DEF Forward, ImageIsOld, RunStands
  <2>7. NotedIsOld'
    <3>1. ASSUME NEW w, NotedImage(w) PROVE NotedImage(w)'
      <4>1. w \in Nat /\ disk["elf"] <= disk'["elf"]
        BY <2>2, <2>5, <3>1, Numbers DEF NotedImage
      <4>2. w <= disk'["elf"] /\ (image = Absent => w < disk'["elf"])
        BY <2>3, <2>5, <3>1, <4>1 DEF NotedImage
      <4>3. run.step = "export" => run'.elf = run.elf
        BY <1>2, <1>3
      <4> QED
        BY <1>1, <1>3, <3>1, <4>2, <4>3 DEF NotedImage
    <3> SUFFICES ASSUME NEW s \in Notes, NEW i \in DOMAIN Order,
                        NEW k \in DOMAIN s[Order[i]]
                 PROVE  (IF Order[k] = "image"
                         THEN NotedImage(s[Order[i]][k])
                         ELSE s[Order[i]][k] <= disk[Order[k]])'
      BY <1>1, <1>11 DEF NotedIsOld
    <3>2. CASE Order[k] = "image"
      <4>1. NotedImage(s[Order[i]][k])
        BY <2>1, <3>2 DEF Forward, NotedIsOld
      <4> QED
        BY <1>1, <3>1, <3>2, <4>1
    <3>3. CASE Order[k] # "image"
      <4>1. s[Order[i]][k] <= disk[Order[k]]
        BY <2>1, <3>3 DEF Forward, NotedIsOld
      <4>2. k \in DOMAIN Order /\ s[Order[i]][k] \in Contents
        BY NotedIsChain
      <4>3. Order[k] \in Inputs
        BY <3>3, <4>2, Basics
      <4>4. s[Order[i]][k] <= disk'[Order[k]]
        BY <2>2, <2>3, <4>1, <4>2, <4>3, Numbers
      <4> QED
        BY <1>1, <3>3, <4>4
    <3> QED
      BY <3>2, <3>3
  <2>8. BeforeIsOld'
    <3> SUFFICES ASSUME run.step \in Chaining, NEW g \in Inputs
                 PROVE  run.before[g] <= disk'[g]
      BY <1>2, <1>3 DEF BeforeIsOld
    <3>1. run.before[g] \in Nat /\ run.before[g] <= disk[g]
      BY <2>1, Numbers DEF Forward, BeforeIsOld, RunStands
    <3> QED
      BY <2>2, <2>3, <3>1
  <2>9. ChainIsOld'
    <3> SUFFICES ASSUME run.step \in Chaining, NEW k \in DOMAIN run.chain
                 PROVE  IF Order[k] = "image"
                        THEN run.chain[k] = image
                        ELSE run.before[Order[k]] <= run.chain[k]
                               /\ run.chain[k] <= disk'[Order[k]]
      BY <1>1, <1>2, <1>3 DEF ChainIsOld
    <3>1. CASE Order[k] = "image"
      BY <2>1, <3>1 DEF Forward, ChainIsOld
    <3>2. CASE Order[k] # "image"
      <4>1. run.before[Order[k]] <= run.chain[k] /\ run.chain[k] <= disk[Order[k]]
        BY <2>1, <3>2 DEF Forward, ChainIsOld
      <4>2. k \in DOMAIN Order /\ run.chain[k] \in Contents
        BY ChainIsChain
      <4>3. Order[k] \in Inputs
        BY <3>2, <4>2, Basics
      <4> QED
        BY <2>2, <2>3, <3>2, <4>1, <4>2, <4>3, Numbers
    <3> QED
      BY <3>1, <3>2
  <2>10. ASSUME NEW c, NEW n \in 0 .. Len(Order), c = Present(n)',
                \A k \in 1 .. n : Order[k] # "image" => c[k] <= disk[Order[k]]
         PROVE  \A k \in 0 .. n : Present(k)' = Present(k)
    <3>1. \A k \in 1 .. n : Source(Order[k])' = Source(Order[k])
      <4> SUFFICES ASSUME NEW k \in 1 .. n, Order[k] # "image"
                   PROVE  disk'[Order[k]] = disk[Order[k]]
        BY <1>1 DEF Source
      <4>1. Order[k] \in Inputs
        BY Basics
      <4>2. c[k] = disk'[Order[k]]
        BY <2>10 DEF Present, Source
      <4>3. disk'[Order[k]] <= disk[Order[k]]
        BY <2>10, <4>2
      <4> QED
        BY <2>2, <2>3, <4>1, <4>3
    <3> QED
      BY <3>1 DEF Present
  <2>11. PresentStands'
    <3> SUFFICES ASSUME NEW s \in Notes, NEW i \in DOMAIN Order,
                        s[Order[i]] = Present(i)'
                 PROVE  \A k \in 1 .. i : oleans[Order[k]] = Present(k)'
      BY <1>1, <1>11 DEF PresentStands
    <3>1. i \in 0 .. Len(Order) /\ 1 .. i \subseteq 0 .. i /\ i \in 0 .. i
      BY Basics
    <3>2. \A k \in 1 .. i : k \in DOMAIN s[Order[i]]
      BY DEF Present
    <3>3. \A k \in 1 .. i : Order[k] # "image" => s[Order[i]][k] <= disk[Order[k]]
      BY <2>1, <3>2 DEF Forward, NotedIsOld
    <3>4. \A k \in 0 .. i : Present(k)' = Present(k)
      BY <2>10, <3>1, <3>3
    <3> QED
      BY <2>1, <3>1, <3>4 DEF Forward, PresentStands
  <2>12. ChainStands'
    <3> SUFFICES ASSUME run.step \in Chaining, run.chain = Present(Len(run.chain))'
                 PROVE  \A k \in 1 .. Vouched : oleans[Order[k]] = Present(k)'
      BY <1>1, <1>2, <1>3 DEF ChainStands, Vouched
    <3> PICK n : n = Len(run.chain)
      OBVIOUS
    <3>1. n \in 0 .. Len(Order) /\ DOMAIN run.chain = 1 .. n
      BY ChainIsChain
    <3>2. 1 .. Vouched \subseteq 0 .. n /\ n \in 0 .. n
      BY <3>1, Basics DEF Vouched
    <3>3. \A k \in 1 .. n : Order[k] # "image" => run.chain[k] <= disk[Order[k]]
      BY <2>1, <3>1 DEF Forward, ChainIsOld
    <3>4. run.chain = Present(n)'
      BY <1>2, <1>3
    <3>5. \A k \in 0 .. n : Present(k)' = Present(k)
      BY <2>10, <3>1, <3>3, <3>4
    <3>6. run.chain = Present(Len(run.chain))
      BY <3>2, <3>4, <3>5
    <3> QED
      BY <2>1, <3>2, <3>5, <3>6 DEF Forward, ChainStands
  <2> QED
    BY <2>1, <2>4, <2>6, <2>7, <2>8, <2>9, <2>11, <2>12 DEF Forward
<1> QED
  BY <1>5, <1>6, <1>7, <1>8, <1>9, <1>10 DEF Forward

\* Nothing changes when nothing changes.
LEMMA StutterStep ==
    ASSUME IInv, UNCHANGED vars
    PROVE  IInv'
<1> USE DEF IInv, vars
<1>4. Notes' = Notes
  BY DEF Notes
<1>1. TypeOK' /\ Lengths' /\ RunStands' /\ FreshIsExact'
  BY <1>4 DEF TypeOK, Lengths, RunStands, FreshIsExact, Exact
<1>2. Calm'
  BY SamePresent DEF Calm, Vouched
<1>3. ASSUME ~returned PROVE Forward'
  <2>1. ImageIsOld' /\ NotedIsOld' /\ ChainIsOld' /\ BeforeIsOld' /\ ForwardIsExact'
    BY <1>3, <1>4 DEF Forward, ImageIsOld, NotedIsOld, NotedImage, ChainIsOld, BeforeIsOld,
       ForwardIsExact, Exact
  <2>2. PresentStands' /\ ChainStands'
    BY <1>3, <1>4, SamePresent DEF Forward, PresentStands, ChainStands, Vouched
  <2> QED
    BY <2>1, <2>2 DEF Forward
<1> QED
  BY <1>1, <1>2, <1>3 DEF Forward

\* No step breaks the invariant.
LEMMA NextKeepsIInv == IInv /\ [Next]_vars => IInv'
<1> SUFFICES ASSUME IInv, [Next]_vars PROVE IInv'
  OBVIOUS
<1>1. ASSUME NEW f \in Inputs, NEW v \in Versions, Edit(f, v) PROVE IInv'
  BY <1>1, EditStep
<1>2. ASSUME NEW j \in Jobs, NEW resume \in BOOLEAN, Begin(j, resume) PROVE IInv'
  BY <1>2, BeginStep
<1>3. ASSUME Own PROVE IInv'
  BY <1>3, ReadElfStep, ExportStep, ScanStep, BeforeStep, HashStep, RecordStep, AfterStep DEF Own
<1>4. CASE Lean \/ Replay \/ Audit \/ Limit
  BY <1>4, LeanStep, ReplayAuditStep, LimitStep
<1>5. ASSUME NEW status \in {"failed", "error"}, Refuse(status) PROVE IInv'
  BY <1>5, RefuseStep
<1>6. ASSUME NEW torn \in BOOLEAN, Kill(torn) PROVE IInv'
  BY <1>6, KillStep
<1>7. CASE UNCHANGED vars
  BY <1>7, StutterStep
<1> QED
  BY <1>1, <1>2, <1>3, <1>4, <1>5, <1>6, <1>7 DEF Next

-----------------------------------------------------------------------------
(* The theorems. *)

\* The invariant holds always.
LEMMA AlwaysIInv == Spec => []IInv
BY InitIInv, NextKeepsIInv, PTL DEF Spec

\* Every variable keeps its type (job.rs:702-718).
THEOREM JobTypes == Spec => []TypeOK
<1>1. IInv => TypeOK
  BY DEF IInv
<1> QED
  BY <1>1, AlwaysIInv, PTL

\* A check without --resume during which nobody touches the root proves what its
\* result names, whatever is left in the root (job.rs:521-522, 605, 680-681).
THEOREM FreshChecksAreExact == Spec => []FreshIsExact
<1>1. IInv => FreshIsExact
  BY DEF IInv
<1> QED
  BY <1>1, AlwaysIInv, PTL

\* As long as no file goes back to an earlier content, a proved result is about the
\* sources it names, resumed or not, whatever happens in between (job.rs:710-747,
\* 833-836).
THEOREM ForwardChecksAreExact == Spec => []ForwardIsExact
<1>1. IInv => ForwardIsExact
  BY DEF IInv, Forward, ForwardIsExact
<1> QED
  BY <1>1, AlwaysIInv, PTL
=============================================================================
