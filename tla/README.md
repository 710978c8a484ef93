# A TLA+ development of e5r

This directory holds specifications of the parts of e5r whose correctness depends on
order, concurrency, failure or long sequences of calls; the TLC configurations that
check them on small instances; and machine-checked proofs of what matters most. Every
definition is a translation of the Rust source; `PROJECT.json` gives, for each one, the
file and lines it stands for.

## The system

The repository builds two programs from one workspace of Rust crates.

* `e5r`, the verifier: checks PTX kernels against specifications and firmware modules
  against Lean proofs.
* `e5rx`, the toolkit: loads binaries, disassembles, decompiles, types, compares and
  patches them, keeps annotations and coordination beside a project, and serves a
  dashboard.

| Component | State it keeps | Operations | What makes it correct |
| --- | --- | --- | --- |
| Task and record store (`e5r-db/src/work.rs`, `e5r-cli/src/work.rs`) | one JSON file per task, a lock file, temporary files | create, update, list, board | one writer at a time, no lost update, no half-written file, rules between tasks |
| Annotation log (`e5r-db/src/log.rs`, `anchor.rs`, `e5r-cli/src/annotate.rs`) | a set of assertions, next sequence number, redo stack; a text file beside the binary | assert, undo, redo, fold, merge, load, save | merge in any order gives the same names, save never loses the log |
| Patch sets (`e5r-db/src/patch.rs`, `e5r-cli/src/patch.rs`) | ordered edits with the bytes they expect | record, merge, preview, apply, revert | all or nothing, apply then revert is the identity, overlaps are refused |
| Project registry (`e5r-db/src/registry.rs`, `project.rs`, `e5r-cli/src/projects.rs`) | a directory per project, manifests | create, import, list, relocate, verify | a failed creation removes only its own files, a name is taken once |
| Analysis cache and session (`e5r-analysis/src/cache.rs`, `session.rs`) | cache files keyed by contents and version, memoised parts | get, put, remove, compute | a hit is never a wrong answer, corruption is a miss |
| Dashboard (`e5r-cli/src/dashboard.rs`) | a bounded queue, one resident analysis | serve, answer, analyse | every request is answered once, monitoring stays responsive |
| PTX check (`e5r-verify/src/ptx/mod.rs`) | a temporary directory, Lean runs, a verdict | check, check_block, supplied proofs | exit 0 only when Lean has checked the named theorem |
| PTX semantics (`e5r-ptx/src/interp.rs`, `search.rs`, `blocksearch.rs`) | registers, shared and global memory, barriers | step, block schedule, race log | barrier order, race detection, agreement of schedules |
| Firmware job (`e5r-verify/src/job.rs`) | generated files, objects, stage manifest, result | build, scan, stage, replay, audit, bundle, stale | a result names exactly the inputs that were checked |
| Program recovery (`e5r-analysis`) | discovered functions, blocks, references | discover, noreturn, jump tables, xrefs | a fixpoint independent of order |
| IR, decompiler and types (`e5r-ir`, `e5r-decomp`, `e5r-types`) | SSA values, regions, type variables | lift, construct, optimise, structure, infer | meaning preserved |
| Decoders, assembler, SLEIGH (`e5r-arch`, `e5r-asm`, `e5r-sla`, `e5r-sleigh`) | none between calls | decode, encode, compile | tables agree with the manuals |
| Containers (`e5r-format`) | none between calls | parse | no out-of-range read |
| Comparison (`e5r-diff`) | matches | match, align | a matching is one-to-one |
| API and emulation (`e5r-api`) | a session | query, emulate | same answers as the parts |
| Command line (`e5r-cli`) | none | dispatch, batch, budget, REPL | outcome of every input is reported |

### Interactions

A command line process opens a binary, a session fills its parts from the cache or by
computing them, and the annotation log is folded onto the result through anchors. The
task store, the log, project manifests and the registry are plain files that several
command line processes and the dashboard touch at once; only the task store takes a lock.
The dashboard answers requests on one thread and hands analysis to one worker through a
bounded queue. The verifier writes Lean files, runs Lean under time and memory limits and
turns what Lean printed into a verdict.

### Where it is hard

* Two processes between load and save of the same file (log, tasks, manifests).
* Processes killed between creating, writing and renaming a temporary file, or while they
  hold a lock.
* Readers that take no lock and read several files.
* Results computed from inputs that an editor changes meanwhile (job identity, cache keys,
  the dashboard's resident analysis).
* Verdicts that must fail closed through time limits, killed provers and partial output.
* Threads of a block between barriers, in any order.

## Modules

Each module names the source it translates in its header, and keeps the source's names
where TLA+ allows. A definition headed *Mutant of X* or *Faulty variant* is what a plausible
bug would make of the definition next to it; `PROJECT.json` ("mutants") lists which property
notices which variant. A definition headed *careful* is what the code would have to do for a
statement of its comments to hold always; it is used by history variables only.

### Task store

| Module | What it is |
| --- | --- |
| `TaskRules` | the data of a task, and `Legal`, the rules between tasks |
| `TaskBoard` | the abstract store: one legal revision of one task at a time |
| `WorkStore` | `work.rs` file operation by file operation, readers beside writers |
| `WorkStoreProofs` | the theorems: about one moment, and about what was acknowledged and shown |
| `MCWorkStore` | instances for TLC |

A *writer* of `WorkStore` is a process inside `Store::create` or `Store::update`; `pc` is how
far it has come (`asked`, `locked`, `prepared`, `opened`, `written`, `renamed`). `files` and
`tmp` are the directory, `lock` is the lock file with its owner: it is `DeadLock` when the
owner has died or its removal failed, and only an operator's `ClearDeadLock` takes that away
(`docs/toolkit/dashboard.md`). `Prepare` is the listing, the comparison of revisions and
`Store::check` at one instant, because the lock keeps other writers out; readers never see
what it does. `OpenTemporary`, `WriteTemporary` and `Rename` are the three moments of
`Store::save` between which a crash shows. A reader reads the listed files one at a time and
takes no lock. The texts of a task and their size limits are one boolean of its content.

### Annotation log

| Module | What it is |
| --- | --- |
| `AnnotationRecords` | assertions, and each operation of `log.rs` as a function on logs |
| `AnnotationLog` | one open log, the files of the branches, git's union merge |
| `NameJournal` | what the annotate commands promise: whole edits, one at a time |
| `AnnotateFile` | the annotate commands as processes on one file, with inodes |
| `AnnotationProofs` | the theorems about the log, the commands and the names shown |
| `AnchoredNames` | anchors resolved on later builds, and the names shown |

`Digest`, the content hash of an assertion, is a constant: any function that tells records
apart. The instances use one whose order scatters, so that the order of lines in a file is
not the order of writing. `AnnotateFile` keeps bodies (inodes) apart from names, because a
process that has the shared temporary file open keeps writing to its body after another one
has renamed it. In `AnchoredNames` a function of a build is the hash of its bytes; the hash
of its instruction shapes is a function of that, and `Rebuild` allows every other build.

### Firmware jobs

`FirmwareJob` is `e5r check` from reading the ELF to the result, with `Order` the modules of
the job file and `image` the generated one among them. A file is the number of its content;
what a compiled module was compiled from is the sequence of the contents of the modules up
to it, and so is a chain hash of `stages.json`. `run` is the process (its `step` is the stage
it comes to next), `noted` in it the manifest it has in memory, which is read once and written
whole after each module; a write that fails leaves the file as it was or cut short, and the next
one makes up for it. `calm` is history: nobody has touched the root since it began.
`Edit` is a person or a compiler at any moment, `Kill` an interrupted process, which may
leave a module that Lean has written and nobody has noted, or half a `stages.json`. The board
and symbol checks belong to `ReadElf`. One check runs at a time, because neither the code nor
its documentation makes room for two in one root. `FirmwareJobProofs` has the theorems,
`MCFirmwareJob` the instance for TLC.

### Dashboard

`Dashboard` is the request thread (`Serve`: take a request, read the manifest, answer at once
or `try_send`), the bounded queue, the worker (`Work`: compare keys, open the binary, read the
log several times, answer) and the files other processes change (`Edit`). `cached` is the one
resident analysis, `worker.at = "dead"` a worker that panicked: what it held is dropped, which
the HTTP library answers with 500. In the dashboard of a single project `single` is the
manifest as it was read at the start. `OneSnapshot` is about the binary and the annotations,
which the documentation calls a snapshot, and only as long as the manifest is left alone: of a
changed manifest the documentation says something else than the code does (below). `DashboardProofs` has the theorems.

### Patch sets

`PatchSet` records edits on one link of a program, places them through anchors on it or on
another link (`Relink`: a permutation of the functions in which the instructions of `Relative`,
such as calls, may have any other operand, so that a patched function is often found by its
shape and not by its bytes), previews, applies and reverts them. Two variables are history:
`built` has the functions of the build the set was recorded on, `meant` what the author wrote
over which instruction. The order of `set` is the order of content ids, any order. An edit that
expects an operand which the link changed does not match, and the whole set is refused. `ProjectFiles` has the same commands on files.
`PatchSetProofs` has the theorems.

### Project files

`ProjectFiles` has `registry.rs` create and import with their clean-up, `projects.rs` relocate,
`patch.rs` project add and emit: each command is a process that can be killed between two
system calls or see one fail. `owner`, `stuck`, `clashed` and `foreign` are history. The binary
and the file beside it are names of bodies, as in `AnnotateFile`. `Cut` and `Attach` are the two
halves of an add's `fs::write`, which empties the manifest in place and then writes it: over what
another add has written since, or killed half way, it leaves `Garbled`, a text nobody wrote, which
later commands may refuse or take for a manifest. `Relocate` renames, and an add that still has the
old file open goes `astray`: what it writes has no name any more.
`ProjectFilesProofs` has the theorems.

### PTX

`PtxBlock` is a launch of a kernel. `run` is `blocksearch::run`: CTA after CTA and thread after
thread, a step at a time (`Advance`, which is an iteration of `run_until_wait`), until the thread
waits, halts or faults (`EndTurn`), the barrier is released or has diverged (`EndRound`), or the
CTA is done (`EndCta`); it keeps the configuration, the record of accesses and the choices.
`cfg` is the launch the verdict is about, one thread at a time in any order, as
`Ptx/Semantics/SIMT.lean` and `interp.rs` define a step (`Step`, `Barrier`). It begins when the
search has ended: the two share nothing, and so each interleaving is met with the whole record.
Instructions are drawn from a list that has every kind of access the race check tells apart. A
word has one of `Modulus` values, and an atomic makes of it what `atom_val` does (`AtomVal`): `add`
wraps around, `min` and `max` are signed or not, `exch` and a `cas` belong to `atom` alone, and the
operations bit by bit are a constant (`Bits`). `Mingled` is a record in which two threads combine
into one word by different operations with no barrier between them.

`PtxCheck` is `e5r ptx check` of several processes in one directory or in their own: `at` is the
stage a check has come to, `tool` its Lean run, which is two processes (the `lake` that was
started and can be killed, and the Lean that `lake` started). `dir` holds what each file of a
directory was written from. What Lean finds is a fact of the text it reads, so a file that
another check replaced gives the verdict of that other text. `PtxProofs` has the theorems of both.

### Program recovery and SSA

| Module | What it is |
| --- | --- |
| `FunctionWalk` | `cfg.rs`: the walk of one function, as a function of an image and what is known |
| `BlockTable` | the interner: blocks held once, chunks, open addressing, publication |
| `Recovery` | `program.rs` and `noreturn.rs`: rounds, slices, gaps, non-returning functions, the second walk |
| `Ssa` | `func.rs` and `ssa.rs`: dominators, phis, renaming |
| `Dataflow` | `opt.rs`: the passes that do not compute, and one run of what they leave |
| `Lifting` | their composition: a program found, one of its functions renamed, optimised and run |
| `LiftingProofs` | the theorems about the walks, the rounds and the table in it |

`Recovery` EXTENDS the walk and the table and owns the order of things; the table's actions are
conjoined with its own (a function is interned block by block while its slice is merged).
`Dataflow` EXTENDS `Ssa`: `form` is what the passes have left of each block, and `Optimize` is one
round of them (copies and phis that are copies, repeated computations of a block, dead values).
`Lifting` conjoins recovery with it. A run takes the operations as they were lifted and the form
side by side, where a value is a token for what it was computed from: `run.agree` says that each
operation that is left sees and computes the same in both, `run.lost` which of the values that a
caller or a callee reads are no longer there. In a function as in `opt.rs`, a return and a call
read locations that they do not name (`Implicit`), so a pass can only guess which value that is.

### Structuring and emission

| Module | What it is |
| --- | --- |
| `RegionTree` | the regions of `structure.rs` and places in them |
| `Structure` | dominators, loops, joins, copied tails: from a graph to a region tree |
| `TailSinking` | shared tails written once, guards that leave early |
| `Emission` | from the tree to the control flow of C, which then runs beside the graph |

Each EXTENDS the one before. The phases are operators, because `structure.rs` is a sequential
function; `Emission` has the steps and the run. `exact` is history: it becomes false when a step
did what the comments of the code exclude (see below), and `ControlIsKept` is about the others.
The code asks two questions of a branch and the model has a set for each. `bare` are those for
which nothing is written (`head_emits_only_test`, which writes the statements and the copies of
phis and looks whether there is any text), `tests` those without an operation that is a statement
(`head_is_only_a_test`). A head with copies only is in `tests` and not in `bare`, one whose
statements are dead the other way round. Nested tests without an else and the written-once tail ask
the first, tests with a shared else and the heads of `while` the second.

## Runs

| Run | Instance | What it shows |
| --- | --- | --- |
| `work_store` | two writers and one reader on one task to revision 3 with one crash or failed operation; or two writers on two tasks with prerequisites both ways, two revisions | mutual exclusion, whole files, acknowledged revisions and rows that were shown stay in the history (`ToldIsKept`), one winner per revision, no rule between tasks is broken, refinement of `TaskBoard`, every command returns |
| `log_merge` | two branches, numbers 0 and 1, two lines | the fold finds the last writer, merge is union, a correction wins, redo inverts undo |
| `names_follow` | two functions, three addresses, four bodies in two shapes | a name follows its function where shapes tell functions apart |
| `annotate_file` | two processes, four inodes, two faults | the log survives, and changes by whole edits, while commands do not overlap |
| `job` | two jobs, an image and a proof, three contents each, three edits, three checks | a fresh check left in peace, and any check when no file goes back, proves what its result names; every check ends |
| `dashboard` | two projects, three requests, a queue of one, three reads of the log, two good texts of a log and a torn one, one edit | answers are of the project and manifest asked for; one reading of bytes and annotations while the manifest stays; every request answered |
| `patch_set` | two functions of two loads and calls, two edits that write loads, one other link with other calls | edits found by bytes that no other function has, or by a shape that only one has, land where they were meant; a revert that is sure restores, as long as no edit runs past the end of its function; no byte is written twice |
| `ptx_block` | every kernel of three out of 26 instructions, one block of two threads and two of one, two cells of three bits in each space | no report, and one operation for each word between barriers, means no interleaving has a fault or a race and all end alike; a reported race can be replayed |
| `ptx_check` | two checks, five kernels, three supplied proofs, one kept directory, one kill or failure | verdicts are about the kernel and proof they name, the routes exclude each other, nothing is left behind; every check ends |
| `project_files` | three users, five commands, two kills or failures, one process that patches | a created project keeps its tasks, and its owner's whole manifest unless adds overlap or stop half way; a failed create frees its name; a patched binary is whole |
| `lifting` | every program of five instructions from a list, three sets of symbols, at most six instructions and five blocks walked, four index slots, runs of four blocks | walks are exact, slices do not matter, blocks read back and are held once, non-returning functions do not return, the second walk only shortens, what any number of rounds of the passes leave of the SSA form computes what was lifted |
| `structure` | every graph of four blocks, its branches all or none bare, all or none only tests; graphs with a jump table; larger families with shared arms, guards and loops, and heads of every kind | the C goes through what is written for the blocks and the tests of the graph in its order, and nothing of the graph is lost |

Why the bounds are enough. The store's races need two writers, a third revision on top of a
contested one, and a crash or a failure in between; rules between tasks need the two ends
of one edge, and a cycle needs two edges. Merging needs two branches that have a record
in common and one of their own. A name can be led astray by one other function
of the same shape, and by one other address. The firmware hazards need a chain of two
modules, a first check that leaves something behind, a check in between that disturbs it,
and one that trusts it; three contents are needed for a file to move on twice, and the last
content is the one that is refused (by the exporter, or for a `sorry`). The dashboard needs a
job at work, one queued and one that finds the queue full; the first and the last of the reads
of the log fail and the ones in between do not, so three stand for five. A patch is led astray
by one other function of its shape, two edits can overlap, and one instruction with an address
in it, or two, are what a link changes. A race needs two accesses and a
barrier between or beside them: three instructions; a third thread adds no pair. Two checks in
one directory are the least that can disturb each other, and three users the least where one
cleans up, one creates and one adds. A value can be lost to a pass when it comes round a branch:
three blocks, and two registers, one that callers read and one that callees read. Four blocks are
a loop with an exit and an arm, or an
irreducible pair with a join; the larger families have the shapes that copied and sunk tails
need, and heads that write copies only. `MaxCopiedTail` is 2 and the floor of the budget of copies is 1, where the code has 12 and
8, so that both limits are met by graphs this small.

`MaxEdits`, `MaxRuns`, `MaxFaults`, `MaxSeq`, `MaxLines`, `MaxRedo`, `MaxAsks`, `MaxRelinks`,
`MaxCommands`, `MaxSteps` and `MaxRounds` bound counters and lists that the code does not;
`MaxRevision` stands for the last value of a `u64`, which the code refuses to pass.
Models that are checked without deadlock stop where their scenario ends.
`AnnotationLog`, `AnchoredNames`, `AnnotateFile`, `FirmwareJob`, `Dashboard`, `ProjectFiles` and
`PtxCheck` have a type invariant that documents their state; it is proved for all of these and for
`WorkStore`, where a run checks it as well.

### Fairness

* `WorkStore`: weak fairness of each command's own steps, no fairness of
  beginning, crashing or clearing a lock. The operating system goes on running a process
  that has not died, and none of these commands waits: a busy lock is an error.
* `FirmwareJob`: weak fairness of the check's own steps (they are file operations) and of
  `Limit`. No fairness of the tools: Lean may hang. `run_limited` looks at the clock ten
  times a second, so the limit is reached if nothing else happens. `gen_board.py` and
  `lean --version` run without a limit and are taken to return.
* `Dashboard`: weak fairness of the request thread and of the worker, which run as long as they
  have something to do. No fairness of requests, edits or panics.
* `PtxCheck`: weak fairness of each check's own steps, its limit among them, and of the Lean that
  `lake` has started. No fairness of `lake`, which may hang until the limit kills it. That Lean
  itself ends is an assumption that the code needs: the check waits for the end of Lean's output.

## Proofs

`WorkStoreProofs` proves for every set of writers and readers, every number of tasks, every
limit on revisions and on faults, from `WorkStoreAssumption` and the assumptions of
`TaskRules`:

* `TypesHold`: `[]TypeOK`
* `LockExcludes`: `[]OneWriter`
* `RulesHold`: `[]LegalBoard`
* `NothingTorn`: `[]NoTornTask`
* `StoreImplementsBoard`: `Spec => RefinesTaskBoard`

The inductive invariant `IInv` adds to `TypeOK`:

* `WholeFiles`: a task file is absent or whole;
* `HasRequest`: a command under way has a request;
* `HoldsLock`: a writer between listing and rename owns the lock (mutual exclusion);
* `PlanStands`: what a writer is about to save is still acceptable in the present files,
  though it was decided on an earlier listing. This is the heart: it is inductive only
  because the writer owns the lock, and because nobody else renames;
* `TemporaryWritten`: after the write, the temporary file holds the plan. Other writers'
  temporary files may hold anything;
* `Published`: after the rename, the file holds the plan;
* `LegalBoard`.

There is one lemma per action. `SaveKeepsLegal` carries the argument about data: `check`
refuses a content from which its own task can be reached, so the new edges close no cycle,
and the reopening rule protects started dependents. The refinement maps `tasks` to `files`;
every step but `Rename` leaves `files` alone, and `Rename` is a `Create` or an `Update` of
the board because the plan still stands.

It also proves, with histories on top of that invariant:

* `WhatIsToldIsKept`: `[]ToldIsKept`, what a writer was told is saved, and what a reader
  was shown, is in the history of its task for ever
* `OneReplaces`: `[]OneWinner`, of all writers that were told a revision only one wrote it

`HInv` adds to `IInv` that the file of a task has the number of its history's end
(`FilesNumbered`), that a renamed file is the next of its history (`PublishedNext`), and that
acknowledged and shown revisions are in the history (`AckedKept`, `RowsKept`). The argument is
that a history is only appended to, by the one writer that renames, at a number that is its
length.

`FirmwareJobProofs` proves for every order of modules with an image in it, every number of
jobs, contents, edits and checks, every refused ELF, pin and escape, from `OrderAssumption`
(no module twice, none called `elf`), `VersionsAssumption` and `PinAssumption`:

* `JobTypes`: `[]TypeOK`
* `FreshChecksAreExact`: `[]FreshIsExact`
* `ForwardChecksAreExact`: `[]ForwardIsExact`

Contents are numbers so that "goes back" can be said: `returned` becomes true when a file
gets a smaller one. `IInv` says, as long as it is false (`Forward`):

* `PresentStands`: a chain noted in some `stages.json`, or in the memory of the check
  (`Notes` has both), that names what the files hold now vouches for the modules up to it. A noted chain as such does not: Lean may have compiled
  what was edited after the hash;
* `ChainStands`: the same of the chain of the running check;
* `NotedIsOld`, `ChainIsOld`, `BeforeIsOld`, `ImageIsOld`: nothing names a content newer than
  the file's. So an edit makes every chain that names the edited file one that is never
  present again, which is what keeps `PresentStands` inductive; and at the end of a check the
  chain lies between two equal identities, so it is present. The generated image is the hard
  part: an export may write an older image than one that was noted only if nobody noted it,
  which `NotedImage` says;

and of every check left in peace (`Calm`) that its chain is present and, without `--resume`,
that what it went over was compiled from it. Notes are only lost (`OnlyLost`, `LossKeeps`) but
for the one a check makes of its own chain. `Lengths` and `RunStands` are the strengthening
of `TypeOK`. There is one lemma per action. TLC finds `IInv` true on the instance
of `job`, too.

`DashboardProofs` proves for every collection, set of contents, length of the queue, number of
reads, requests and changes, from `BoundsAssumption` and `ValuesAssumption`:

* `DashboardTypes`: `[]TypeOK`
* `AnswersAreOwn`: `[]AnswersOwnManifest`
* `SnapshotIsOne`: `OneSnapshot` (what is proved is stronger, `[]OneAnalysis` without the
  condition, because the code keeps its first manifest)

`HeldJobs` says that every job, wherever it is, is of the project that was asked for and, in the
dashboard of one project, of its one workspace. `Resident` says that the analysis in memory is of
the bytes and settings of its own key, that it is gone while the next is being made, and that the
job about to be answered has its key. `ShownIsKept` is what makes one snapshot inductive: as long
as the worker lives, all that a single project's dashboard has shown is the analysis in memory,
because a job of the same workspace never throws it away.

`PtxProofs` proves for every set of checkers, directories, jobs, kernels and proofs, from
`KernelsAssumption` and `JobsAssumption`:

* `CheckTypes`: `[]TypeOK`
* `VerdictsAreSound`: `[]ChecksAreSound`

The invariant has, of every check, that its stage is one its job and its kernel's class can lead
to (`OnRoute`) and its files are there in the order they are written (`Ordered`); that two checks
that use different directories have nothing in common (`Exclusive`); and of a check that shares
its directory with no other (`Earning`) that the files are its own, Lean reads its own text, and
each answer collected so far was earned by that text. There is one lemma per step, and `Stays`
says that a check's part of the invariant is not disturbed by another check's step.

Of `PtxBlock` it proves, for every set of kernels and of launches, of any length and size, from
`LaunchesAssumption` (a launch has at least one CTA and one thread in it, an allocation at least
one word, a word one value, and a kernel is a sequence of instructions) and `BitsAssumption` (`and`,
`or` and `xor` of two values are a value, and each gives the same for two operands in either order;
TLC evaluates it for words of three bits):

* `OneScheduleAlwaysEnough`: `[]OneScheduleIsEnough`
* `WitnessesAlwaysReplay`: `[]WitnessesReplay`

The first is about atomics that do not return what they found (`red`), and about records without
`Mingled`: what `atom` returns, and what different operations leave in a word, depends on the order
of the atomics, which are no race. The argument gives an execution a history
(`HistoryOf`): of each place, a thread and one of its instructions, the register and the phase it
comes with and its position among the accesses. A load read what the accesses before it left in
its word (`Leaves`: the last of the values a word goes through when the stores and atomics in it
come at their positions, `Traces`), the positions are different and
follow the threads and, within a CTA, the phases (`InLine`), and the threads of a CTA come to a
barrier together (`Aligned`). A step and a barrier make the history longer (`StepHistory`,
`ReleaseHistory`), so the search has one at its end, and its record has every access of it
(`Logged`). If there is no race in the record and nothing mingled, two accesses of a word that are neither
loads nor the same operation of `red` are of one CTA and in different phases (`Apart`). Then any interleaving has the history in common with the search
(`Follows`): at each place of it, it has done of the accesses that could race with the next one
what the search had done before that place (`InOrder`), so it reads the same, and the thread goes
on to the next place of the same history. What a step writes may come before atomics that the
search made earlier, but these are the same operation and commute with it (`AtomValsCommute`), so
the word ends as if it had come at its position (`LeavesMore`). A fault, a diverged barrier or a race would be one in
the history, and when all threads have halted the same accesses are behind them: `Leaves` gives
each word one value (`LeavesOne`).

The second needs `SearchReplays`: at any time the choices made so far, and the steps of the turn
that is not over, replay to the configuration of the search, and the prefix of each event to one
where its thread is about to make its access, in the phase that was recorded. The functions that
replay are recursive (`Exec`, `Chosen`); they are given their equations like those of
`AnnotationProofs`, and a prefix of the choices replays as it did when they were fewer.

`ProjectFilesProofs` proves for every set of users, names, tasks and bodies and every number of
commands and faults, from `UsersAssumption` and `NothingAssumption` (what stands for nothing is
none of the things):

* `FilesTyped`: `[]TypeOK`
* `ProjectsStay`: `[]CreatedStays`
* `FailuresFreeNames`: `[]NamesAreFreed`
* `PatchedIsWhole`: `[]BinaryIsWhole`, if at most one process patches

`PInv` adds that one process makes or cleans up a name (`Alone`); that until it is done the
directory has neither a manifest nor an owner and holds just what that process has written so far
(`Unborn`), so that a clean-up never meets a created project; that a manifest which was read is
one of the owner of the name, or garbled by a clash (`ReadsOwn`), so that writing it back late
changes no owner; that as long as no adds have clashed a manifest has one writer at most, and is
empty exactly while it has one (`Stays`), so that no write of an add meets another text; and that
`foreign` is exactly where another's file lies. `WholeInv` says of the one patcher that the file
beside the binary is another file than the binary, the one it has open, and whole when it is to
take the binary's place. With two patchers it is false: both open the same file.

`AnnotationProofs` proves for every set of authors, branches, keys and lines, every digest that
tells records apart and every bound, from `BoundsAssumption` and `DigestAssumption`:

* `TypeCorrect`: `[]TypeOK`
* `CorrectionsAlwaysWin`: `[]CorrectionsWin`
* `RedoAlwaysInvertsUndo`: `[]RedoInvertsUndo`
* `FoldAlwaysFindsLatest`: `[]FoldFindsLatest`
* `UnionIsAlwaysMerge`: `[]UnionIsMerge`

`LogOK` is what an open log keeps: its records, and those that wait for redo, are authentic (a
record's identity is the digest of the rest of it), they are in the order of identities, and none
has a number the log may hand out again. The files hold authentic records, in any order and any
number of copies, as a union merge leaves them. Most of the work is about functions, not about
steps: `from_text`, `fold` and `merge` are loops over the lines, written as recursive functions.
`Recursion` gives such a function its equations, and an induction over the lines is a search for a
least counterexample (`LeastOf`, from the well-foundedness of `<`), because the library's
induction theorems take a predicate as a parameter. `FoldIsLatest` says that what the fold has
after *n* lines is the greatest number and then the greatest identity among them; `MergeIsRead`
says that inserting one by one into an ordered list without copies gives the one list with these
records, however they come.

It also proves of the annotate commands, for every number of processes, commands, bodies and
faults, from `WritesAssumption`, `InodesAssumption` (a body is free when a command opens one; a full
disk is a `Fail`), `ContentsAssumption` (a file cut short is no list of records) and
`FaultsAssumption`:

* `CommandsTypeCorrect`: `[]CommandsTypeOK`, also while commands overlap
* `LogAlwaysSurvives`: `[]LogSurvives`
* `CommandsAlwaysAtomic`: `CommandsAreAtomic`, every step is a stutter or a step of `NameJournal`

`CommandInv` adds that the two names never refer to one body, which is why a command that was cut
in the temporary file has not touched the log; and while no two commands have overlapped
(`OneByOne`), that at most one process is not idle and that its log in memory is first what a
reader makes of the lines of the file (`Reading`), then one edit of them (`Edited`), and after the
write what the temporary file holds (`Underway`). That undo takes back the record the journal
calls the newest (`NewestLine`) needs the uniqueness of the newest line, and so that reading drops
copies. Both theorems are false once two commands have overlapped, and say so.

And of anchors, for any functions, addresses, bodies and shapes, from `OrderAssumption` and
`NoneAssumption` (finding nothing is no place): `NamesTypeCorrect`, `[]NamesTypeOK`, and
`NamesAlwaysFollow`, `[]NameFollows`. The second is about any two builds and so about `resolve` on
any of its states: equal bytes have equal shapes, so what the first look-up finds lies among
what the second would, which is one place; the address given as a hint is never asked.

`PatchSetProofs` proves for every program, any number of edits of any length, and any number of
links, from `SizesAssumption`:

* `AlwaysLandsAsMeant`: `[]LandsAsMeant`
* `AlwaysRestores`: `[]RevertRestores`
* `AlwaysWrittenOnce`: `[]WrittenOnce`

`Inv` says of each edit that what it expects is what its anchor holds of the function
(`Recorded`), that an applied image is what the set writes on the image it fitted (`Applied`), and
that as long as the set is not applied the author means of each instruction what an edit of it
says or else that it stays (`Meant`, `Known`), while every function keeps the shape it was built
with: links move functions and change operands (`LinkKeeps`). So an edit found by a shape of its
own is found in its function, and one found by its bytes too, unless another function has taken
them on (`FindsItsFunction`). `NeighboursSuffice` takes the nearest later edit to turn the comparison of
neighbours into one of all pairs. `Turns` says what applying a set does without mentioning the
order of it. `Restores` is the argument about revert: an edit that is found by a shape of its own
has kept every opcode, so all shapes are as they were and the edit is found where it was written;
an edit found by its bytes, after it was applied, has changed none of them; so an address that
some edit wrote and none writes back was written in vain.

`LiftingProofs` proves for every program, every image, all hints and caps, every size of the index
and every table of blocks, from `TableAssumption`, `CapsAssumption`, `HintsAssumption` (hints are
executable addresses, `program.rs:307-313`) and, for the last theorem only, `KnownAssumption` (a
function without a name has no known one) and `ImagesAssumption` (a call and a branch have one
target, `insn.rs:321-340`):

* `WalkIsAlwaysExact`: `[]WalkIsExact`
* `AlwaysReadsBack`: `[]ReadsBack`
* `AlwaysHeldOnce`: `[]HeldOnce`
* `SlicesNeverMatter`: `[]SlicesDoNotMatter`
* `RewalkAlwaysShortens`: `[]RewalkOnlyShortens`
* `NoReturnIsRight`: `[]NoReturnOfPlainTails`

The first is about `Walked`, a recursion over the turns of the loop in `build_raw`. `WalkInv` is
what a turn keeps. `RunInv` says of each run that its instructions run one after the other and end
at its last one; `Finishes`, that unless a cap ended the walk, it stops at a branch whose executable
targets were all seen, at a start that was seen, or where nothing runs; and each start that was seen
can be reached if it runs. `RunFound` is the argument about one run, with its four ways to stop.
`Left` falls with every turn, so `Turns` empty the stack (`WalkFinishes`): a new run pushes fewer
starts than there are addresses, and takes one from those that have no run. What the property
compares the blocks with, `Reachable`, is the least set that control does not leave
(`ReachableIsLeast`, `ReachableIsClosed`: it grows or is complete, and cannot grow more often than
there are addresses). The runs that overlap are cut, and `CutsCover` says that nothing is lost: an
instruction is in the block of the last start before it, because the run from there meets no end
that the run around it did not meet. `DiscoveryInv` carries this to the rounds: walks begin at
executable addresses, and as long as a slice is not merged nothing changes of what its walks were
given.

Each of the other five has the hypothesis `HashIsNumber`, that the hash of a block is a number (a `u64` in the code).
It is no `ASSUME`, because TLC cannot go through all that could be a block. Nothing else is said of
the hash: all blocks may have the same.

`TableInv` is inductive whatever is installed and whenever a table is published. `StoreInv` is
about what is stored: each chunk begins where the last one ended (`Linked`), no two entries are
equal (`Once`), and of the index (`Chained`) each id is in one slot, there is no free slot before
it from the slot of its hash, and there are fewer ids than slots. That is what makes a search
end, and end at the entry if there is one (`Looked`); it is lost when an index grows unless
every id is put in again (`GrownIsChained`, an induction over the old slots). `Extends` is the
heart of `ReadsBack`: interning and sealing leave every entry at its id, so ids that were
handed out spell the same blocks in every later table (`FunctionInv`), and those of a published
function lie below the end of its last chunk. `TodoInv` says the same of the function being
interned. `SliceInv` says what recovery hands to the table, sequences of blocks: it needs that a
walk ends with finitely many runs, so that its blocks can be listed by address (`BlocksAreListed`).

`SlicesNeverMatter` and `RewalkAlwaysShortens` compare what was found with `RoundsOf`, the rounds as a function of the program and
its hints, where no slice occurs. `RoundsInv` is the invariant of the first phase: `AtRound` says
that what is known is either what the n-th round knows (`Between`), or what it knows with a part W of
the waiting entries merged, where W, the slice and the rest of the batch are all that waited
(`InRound`). `MergeRoundHolds` is the step: a walk that was given the entries known when the round
started can be merged before or after any other, because it adds what it leads to and nothing it
adds is read by another merge of the round. A mutant whose walks see what the slice before
found breaks it. `RoundsEnd` counts: a round that leaves entries waiting has seen more of the
`LastAddr` addresses than the one before, so the last of `RoundsOf` has none waiting. What slices
publish reaches the table by `HandedOver`. From there on, `LeftoversInv` says that the functions
of the rounds stay as they were, and `GapsAreNew` that no entry of a gap was walked in a round:
where an instruction runs, a walk from it covers it (`EntryIsWalked`; here `CapsAssumption` is needed
to say that the caps are not 0, `error.rs:167-168`).

`RewalkInv` says of the second walks that the entries that no longer stop them are of functions
without blocks, where nothing runs. `WalkShrinks` then compares the two by `Reachable`: with more
functions that never return and with the stops that matter, control goes to no instruction it did
not go to, and the first walk found all of those unless a cap ended it. That is where the property
needs its exception, and why it is about functions that evidence led to: the walk of a gap
stops at data too.

`NoReturnIsRight` compares two fixpoints. One grows: `NoReturnSet`, the functions that the code says
never return, pass by pass. The other is the property's: `ComesBack`, the addresses from which
control gets to a return. `Vouched` is kept by every pass (`PassVouches`): each function of the set
has a known name, or ends of which each traps, calls one that does not return, or is a tail call of
a function with a call into the set. `CompleteWalk` says what the blocks of a walk tell when no cap
and no unresolved branch ended it (`WholeFlow`): an instruction's successors are covered, tail
targets are among the calls, and where control ends a block says how. With tail calls told apart,
`StaysInside` follows: control does not leave such a function but into the set. So the set, with all
that its functions cover, is shut (`Shut`), and no stage of `ComesBack` gets in (`ComesBackIsAway`).
The condition is what the code lacks: with a call into the set elsewhere in the function the
tail call may go anywhere. The rest carries this through the steps: `Finding` says that until
then each known function is as a walk found it that knew of none that never returns (`FoundAs`),
has the loader's name, and is not among those that wait, each of which waits once; `DenyingInv`,
that the functions of the set are not among those walked again, so what they deny stands. It needs
that the set is complete when the second walks begin: a mutant whose tail calls are
no way back breaks it.

What stays with TLC: SSA (`ReadsAgree`) and structuring; and liveness
(`CommandsReturn`, `ChecksEnd`, `EveryRequestAnswered`, `CheckEnds`). TLAPS does not do liveness under fairness nor `ENABLED`
here, and it does not take modules with `RECURSIVE` operators (`RegionTree` and those above
it). What a recursive function computes can be proved, one equation at a time
(`IterationExists`, `IterationStays`); a fold with an operator of the community modules cannot, because
its definition takes an operator as a parameter. `ReadsAgree` rests on such folds (`Dominators`,
`RenameBlock`, `RunBlock`); and that each read finds the definition that reaches it is the theory of
dominance, by induction over the paths of a graph.

## Where the code and its texts disagree

Met while reading and modelling. The models do what the code does; where a property is about
the documented promise, it says under which condition the code keeps it.

Task store and projects

* `work.rs:212` promises readiness and reasons "from the same saved state for all clients"; a
  board is read file by file without the lock, and can show a state the store was never in.
* `registry.rs:218-221`: import lists the source's tasks without its lock. `registry.rs:230`: a
  process killed while it creates a project leaves a name that can neither be created nor opened.
* `cli/patch.rs:42` writes a patch set in place; two at once lose one.
* `cli/patch.rs:480` writes a manifest in place, where `relocate` and `create` write beside it and
  rename (`projects.rs:97-99`, `registry.rs:256-258`). Two adds at once can lose one attachment, or
  leave a shorter text over the rest of a longer one for good; the text is a list of lines, so what
  is left may even parse as another manifest. An add that is overtaken by a relocate writes into
  the file that was replaced, and reports success. `CreatedStays` promises nothing of a manifest
  that two adds had open at once or that one left half way.

Annotations

* `log.rs:511`: a name that was undone can come back and win over its replacement;
  `db.md:55`: "the last assertion for a key wins".
* `annotate.rs:38-39`: "Write a log, atomically, so an interrupted write cannot lose the file."
  The temporary name is shared: two commands at once and a failure lose the log.
* `log.rs:340`: undo deletes a line that other branches keep. `docs/toolkit/design/db.md:56` and
  `tutorial.md:157` call undo a new assertion that rewrites no history.
* `main.rs:606` and `tutorial.md:153-154` offer redo on the command line, where it always
  answers that there is nothing to redo: `from_text` starts with an empty redo stack.
* After undo, a merge that brings the record back, and redo, the record is there twice, and
  one undo does not take it away (`log.rs:340-361`).
* Two functions with equal bytes resolve as exact, to the first one (`anchor.rs:394-397`, "The
  same bytes in the same binary: unambiguous."); `db.md:121-122` has them ambiguous.
* A renamed function may show its older name: the greater hash is shown (`main.rs:821-830`), and
  a guess by address can hide a confident name, which `tutorial.md:197-199` rules out.
* `db.md` has the file sorted by sequence number; it is sorted by content id.

Firmware jobs

* `job.rs:441`: "Everything a result depends on, hashed." With `--resume` a compiled module is
  trusted by a key that an edit during Lean's run makes wrong (`job.rs:518-522`, `:741`); the
  result names the ELF as it is at the end, not as it was exported (`job.rs:701`).

Dashboard

* `toolkit/dashboard.md:134-135` has changes of the manifest invalidate a cached analysis; the
  dashboard of a single project captures its manifest at the start (`dashboard.rs:420-421`), and
  goes on with it. `OneSnapshot` promises nothing of a dashboard whose manifest was changed.
* After the worker has panicked every analysis request gets "analysis queue is busy; retry
  shortly" for ever (`dashboard.rs:464-477`).

Patch sets

* Nothing keeps an edit from running past the end of its function (`cli/patch.rs:206-290`), and
  then a revert can be sure of every edit and still give back another file than there was: the
  edit changes the next function, while its own function's bytes stay and are found first in a
  twin that came to look like it. `RevertRestores` and `LandsAsMeant` are about edits that stay
  inside; `docs/toolkit/design/db.md:99` promises only that revert does not refuse.
* `patch.rs:8-12` has "a patch made before a relink still lands on the right instruction". Equal
  bytes are taken as exact whatever build they are in (`anchor.rs:394-397`, where the comment has
  "the same bytes in the same binary: unambiguous"): when another function has the bytes that the
  edited one had, because two were alike or because the link made it so, the edit lands in the
  first of them and is reported as exact. `LandsAsMeant` is about edits without such a lookalike
  (`Certain`), and about edits that were found with confidence; what `--allow-address-only` lets
  through is a guess.
* The comment of merge has "the later ones taking precedence"; merge is a union that keeps both.
* emit writes to a name shared by all processes (`cli/patch.rs:160-161`).

PTX check

* `ptx/mod.rs:90-93` has "Lean's own `--memory` otherwise"; no such option is passed, as `ptx.md`
  says.
* The limit kills `lake` only (`mod.rs:150-158`), and the join of the output readers waits for
  the Lean that `lake` started: a Lean that hangs keeps the check past its `--timeout`.
* Two checks at once with one `--keep` directory can take each other's `Proof.lean` and give a
  verdict about the other's kernel. An error while writing leaves the temporary directory
  (`mod.rs:317-334`, `:388-391`, `:452`).
* `blocksearch.rs:298-303` calls two atomics on one word no race whatever they compute, and
  `search` (`:366-443`) compares the memory of its one schedule: with `red.add` in one thread and
  `red.max` in another the memory depends on the order, and the search sees one outcome of several.
  The proof rules use one commutative operation for each word (`Ptx/Logic/Phases.lean:7-12`).
  `Diff/Main.lean:13-15` asks of its kernels that what they store does not depend on the order of
  atomics; nothing asks it of a kernel that is searched. Without `~Mingled` TLC finds
  `OneScheduleIsEnough` violated.

Program recovery and SSA

* `program.rs:532-533` has it that a second pass over non-returning functions finds nothing the
  first did not; the first computes on graphs that were walked with an empty set, so it may.
* `noreturn.rs:116-119`, `:133`: only blocks without successors count as ways out, so a
  conditional tail call (`cfg.rs:648-651`) is none, and a tail call counts as never returning
  when any call of the function is in the set. `NoReturnOfPlainTails` has the condition.
* The cap on instructions drops what was walked already; falling through into another function's
  entry does not end a walk; the second walk of functions found in gaps does without the data map
  (`program.rs:548-550`, `:582`).
* A loop back to the function's entry loses the value a location had on entry (`ssa.rs:296`).
* `opt.rs:262-263`: "The value a location holds at the end of a block, whether it was written
  there or arrived from a predecessor". `last_definition` (and `emit.rs` near 2290-2335) takes the
  newest version of the location anywhere in the function, which is the wrong one for
  `mov eax,1; jz D; mov eax,2; ret; D: ret`: the first write is then removed as dead, where
  `opt.rs:294-297` has it that the last value at a return is live. `ReadsAgree` asks for such a
  value only where the guess is right (`Foreseen`); without that condition TLC finds it violated.

Structuring and emission. `structure.rs:4-6`: "Inventing a shape that is not there is the one thing
this must not do". Graphs are written `1→{2,3}` for block 1 with successors 2 and 3.

* `structure.rs:2030-2043` looks for gotos in a part that also falls through, and not for the
  tail's own definition: `1→{2,3}, 2→3, 3→4, 4→2`.
* `structure.rs:2045` takes what follows a part that never ends for unreachable, although it may
  have a label.
* `emit.rs:1478-1504` and `1823-1876` fold a nested test whose head has a label; the label is gone
  and its `goto` has no target: `1→{2,3}, 2→{3,5}, 3→{2,4}, 4→5`. The folding of guards by `||`
  (`:1428`) does ask for labels, and the run shows that it has to.
* `emit.rs:1832` joins a test by `&&` and `:1306-1313` writes `while (c)` when the head has no
  operation that is a statement (`head_is_only_a_test`, `:1881-1886`), and neither writes the copies
  that phis ask for at the end of that head (`:1935-1967`): the assignments are gone. The comments
  have it that "a statement there runs on one path and `&&` would drop it" (`:1234-1235`) and that
  "The head's own statements compute the condition, so they run on every iteration" (`:1299-1300`).
  `1→{2,5}, 2→{3,5}, 3→{4,5}, 4→6, 5→6`, where a branch that is taken goes to 5, with copies at 3 and
  nothing written for 2; and any loop with copies at its head. `no_else_conjunction` (`:1492`) asks `head_emits_only_test`, which sees
  copies; with the other question there TLC finds `ControlIsKept` violated.
* `emit.rs:1223-1236` writes `if (a) { prep; if (b) { unique } } shared` without asking that
  `unique` ends control: `1→{2,3}, 2→{3,4}, 3→5, 4→5`.
* `structure.rs:998-1017` makes a `while` of a jump table with two targets at the head of a loop,
  whose condition does not exist.
* Every labelled branch head is counted twice by `labelled_twice`, so all rounds of the second
  walk are used; a comment near `structure.rs:775` ("Checked before the stop address") has the
  order the other way round.

## Not modelled, and why

`PROJECT.json` lists every part with its reason. Decoders, loaders, the assembler, SLEIGH,
expressions and types of the decompiler, the demanglers and the comparison are sequential
functions from data to data, where a model would repeat the program: they are most of the source,
and the reason why the map covers a small share of its lines. The Lean developments are proofs
already. No command attaches the analysis cache; only tests and a benchmark do.

Within the modelled parts: file system semantics below `rename` and `fsync`, collisions of 64-bit
hashes, the wording of texts, two firmware checks at once in one Lean root; instructions of
several sizes in the walk, and how a jump table is read; what operations compute, and so
the passes `fold`, `simplify`, `patterns` and `divisions`, which rewrite computations; the
rewritings of assignments (a diamond as `?:`, an arm that returns its value) and of text in the
emission, and the bound of 200 nested regions. The successors of a multi-way branch are exactly
the targets of its table (`cfg.rs:620-626`, `decompile.rs:355`), so a switch without a default never
leaves through one.

## Plan

Done: the task store, the annotation log and its commands, anchors, firmware jobs, the dashboard,
patch sets, project files, PTX launches and checks, program recovery, SSA and
its passes, structuring and emission; proofs about the store, the annotation log and its commands,
the names shown, patch sets, jobs, the
dashboard, project files, PTX launches and checks, the walks of functions, the rounds, the table of blocks and
the functions that never return.

Left, in this order:

1. The stack promotion, and the optimiser's passes that compute, beside `Dataflow`.
2. The matching of functions of two builds (`e5r-diff`), with its order of passes.
3. `AnalysisCache`, when a command attaches one.
