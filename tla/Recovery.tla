------------------------------ MODULE Recovery ------------------------------
(* How the functions of a program are found (program.rs discover, walk_pending,*)
(* refine_noreturn; noreturn.rs; the part of data.rs that reads literals), for *)
(* an architecture whose gaps are scanned. The functions of a round are walked *)
(* in slices; each slice is interned, published and merged before the next.    *)
EXTENDS FunctionWalk, BlockTable

CONSTANTS
    Images,      \* the programs to look at
    Hints,       \* what the loader may say: functions from entries to names
    NoName,      \* a function without one
    KnownNames   \* names of functions that never return

ASSUME KnownAssumption == NoName \notin KnownNames

(* A call and a branch have one target (insn.rs:321-340); a switch has those   *)
(* of its table.                                                               *)
ASSUME ImagesAssumption ==
    \A i \in Images : /\ i \in [Addrs -> Insns]
                      /\ \A a \in Addrs : i[a].flow \in {"call", "jump", "cond"} => \E t \in i[a].to : i[a].to = {t}

(* Of what the loader says, what is not code is left out.                      *)
ASSUME HintsAssumption == \A h \in Hints : DOMAIN h \subseteq Addrs

VARIABLES
    image, hints,
    phase,       \* "rounds", "leftovers", "refine", "rewalk", "done"
    pending,     \* entries that wait for the next round
    batch,       \* entries of this round that are not walked yet, in order
    slice,       \* those walked together, with what their walks found
    stop_at,     \* entries known when the round started
    evidence,    \* of each entry: [by, name]
    known,       \* of each function: [name, by, calls, has_indirect, halt]
    data,        \* addresses proved to be data when the gaps were scanned
    noreturn     \* functions that never return

discovery == <<pending, batch, slice, stop_at, evidence, known, data, noreturn>>
vars == <<image, hints, phase, discovery, table>>

With(f, a, x) == [b \in DOMAIN f \cup {a} |-> IF b = a THEN x ELSE f[b]]
Merge(ev, a, by, name) ==
    IF a \in DOMAIN ev
    THEN [ev EXCEPT ![a] = [by |-> @.by \cup {by}, name |-> IF @.name = NoName THEN name ELSE @.name]]
    ELSE With(ev, a, [by |-> {by}, name |-> name])
MergeAll(ev, as, by) ==
    [a \in DOMAIN ev \cup as |->
        IF a \in as THEN Merge(ev, a, by, NoName)[a] ELSE ev[a]]

Init ==
    /\ image \in Images /\ hints \in Hints
    /\ phase = "rounds" /\ pending = DOMAIN hints /\ batch = <<>> /\ slice = <<>>
    /\ stop_at = {} /\ known = <<>> /\ data = {} /\ noreturn = {}
    /\ evidence = [a \in DOMAIN hints |-> [by |-> {"Symbol"}, name |-> hints[a]]]
    /\ TableInit

Idle == batch = <<>> /\ slice = <<>>
BlocksOf(f) == ToSet(Read(f))
Covered == UNION {Covers(BlocksOf(f)) : f \in DOMAIN known}

-----------------------------------------------------------------------------
StartRound ==
    /\ phase = "rounds" /\ Idle /\ pending # {}
    /\ batch' = InOrder(pending \ DOMAIN known)
    /\ stop_at' = DOMAIN evidence
    /\ pending' = {}
    /\ UNCHANGED <<image, hints, phase, slice, evidence, known, data, noreturn, table>>

(* Mutant of Walking: a call found a moment ago stops a walk too. *)
WalkingLate(a) ==
    [image |-> image, entry |-> a, stop_at |-> DOMAIN evidence,
     noreturn |-> IF phase = "rewalk" THEN noreturn ELSE {},
     data |-> IF phase = "leftovers" THEN data ELSE {}]
(* What the walks of this phase are given. *)
Walking(a) ==
    [image |-> image, entry |-> a, stop_at |-> stop_at,
     noreturn |-> IF phase = "rewalk" THEN noreturn ELSE {},
     data |-> IF phase = "leftovers" THEN data ELSE {}]

(* The next functions of the batch, in parallel. The code takes 8192 at a time;*)
(* any number here, as the answer must not depend on it.                       *)
WalkSlice ==
    /\ slice = <<>> /\ batch # <<>>
    /\ \E n \in 1..Len(batch) :
         /\ slice' = [i \in 1..n |-> [at |-> batch[i], cfg |-> RawCfg(Walking(batch[i]))]]
         /\ batch' = SubSeq(batch, n + 1, Len(batch))
    /\ UNCHANGED <<image, hints, phase, pending, stop_at, evidence, known, data, noreturn, table>>

InSlice == {slice[i].at : i \in DOMAIN slice}
InternSlice ==
    /\ slice # <<>>
    /\ \/ /\ fresh # InSlice
          /\ LET i == Cardinality(fresh) + 1 IN Install(slice[i].at, slice[i].cfg.blocks)
       \/ Intern \/ Installed
    /\ UNCHANGED <<image, hints, phase, discovery>>

(* Merging: of a function without blocks nothing is kept. In a round its calls *)
(* are evidence, and those not seen before wait for the next round.            *)
MergeRound(acc, w) ==
    IF w.cfg.blocks = <<>> THEN acc
    ELSE LET calls == {t \in w.cfg.calls : IsExecutable(t)}
             ev == MergeAll(acc.evidence, calls, "CallTarget")
         IN  [evidence |-> ev,
              pending |-> acc.pending \cup (calls \ DOMAIN acc.evidence),
              known |-> With(acc.known, w.at,
                             [name |-> ev[w.at].name, by |-> ev[w.at].by, calls |-> w.cfg.calls,
                              has_indirect |-> w.cfg.has_indirect, halt |-> w.cfg.halt])]
MergeLeftover(acc, w) ==
    IF w.cfg.blocks = <<>> THEN acc
    ELSE [acc EXCEPT
             !.evidence = Restrict(@, DOMAIN @ \ {w.at}),
             !.known = With(@, w.at,
                            [name |-> acc.evidence[w.at].name, by |-> acc.evidence[w.at].by,
                             calls |-> w.cfg.calls, has_indirect |-> w.cfg.has_indirect,
                             halt |-> w.cfg.halt])]
MergeRewalk(acc, w) ==
    IF w.cfg.blocks = <<>> THEN acc
    ELSE [acc EXCEPT !.known[w.at] = [@ EXCEPT !.calls = w.cfg.calls,
                                               !.has_indirect = w.cfg.has_indirect,
                                               !.halt = w.cfg.halt]]

MergeWalk(acc, w) ==
    CASE phase = "rounds" -> MergeRound(acc, w)
      [] phase = "leftovers" -> MergeLeftover(acc, w)
      [] OTHER -> MergeRewalk(acc, w)

MergeSlice ==
    /\ slice # <<>> /\ todo = Nothing /\ fresh = InSlice
    /\ Publish(fresh)
    /\ LET merged[n \in 0..Len(slice)] ==
               IF n = 0 THEN [evidence |-> evidence, pending |-> pending, known |-> known]
               ELSE MergeWalk(merged[n - 1], slice[n])
           all == merged[Len(slice)]
       IN  evidence' = all.evidence /\ pending' = all.pending /\ known' = all.known
    /\ slice' = <<>>
    /\ UNCHANGED <<image, hints, phase, batch, stop_at, data, noreturn>>

-----------------------------------------------------------------------------
(* Words that instructions read, unless they are code that was walked.         *)
Data == {t \in UNION {image[a].to : a \in {x \in Covered : image[x].flow = "load"}} :
            t \notin Covered}

(* Prologues in the gaps, outside of what is data. *)
Prologues(known_data) ==
    {a \in Addrs \ Covered : a \notin known_data /\ image[a].flow = "open"}

ScanGaps ==
    /\ phase = "rounds" /\ Idle /\ pending = {} /\ DOMAIN hints # {}
    /\ data' = Data
    /\ LET found == Prologues(Data)
           ev == MergeAll(evidence, found, "ProloguePattern")
       IN  /\ evidence' = ev
           /\ batch' = InOrder(found)
           /\ stop_at' = DOMAIN ev
           /\ phase' = IF found = {} THEN "refine" ELSE "leftovers"
    /\ UNCHANGED <<image, hints, pending, slice, known, noreturn, table>>

EndLeftovers ==
    /\ phase = "leftovers" /\ Idle /\ phase' = "refine"
    /\ UNCHANGED <<image, hints, discovery, table>>

-----------------------------------------------------------------------------
(* A function none of whose ends returns, as far as the set knows.             *)
IsComplete(f) == known[f].halt = "Complete" /\ ~known[f].has_indirect
Ends(f) == {b \in BlocksOf(f) : b.successors = {}}
(* Mutant of NeverReturns: a tail call is no way back. *)
NeverReturnsTail(f, set) ==
    /\ BlocksOf(f) # {} /\ IsComplete(f) /\ Ends(f) # {}
    /\ \A b \in Ends(f) : b.term \in {"Trap", "NoReturnCall", "TailCall"}
NeverReturns(f, set) ==
    /\ BlocksOf(f) # {} /\ IsComplete(f) /\ Ends(f) # {}
    /\ \A b \in Ends(f) :
         \/ b.term \in {"Trap", "NoReturnCall"}
         \/ b.term = "TailCall" /\ known[f].calls \cap set # {}

(* Eight passes over the functions in order, each adding as it goes.           *)
Pass(set) ==
    LET order == InOrder(DOMAIN known \ set)
        s[n \in 0..Len(order)] ==
            IF n = 0 THEN set
            ELSE s[n - 1] \cup {f \in {order[n]} : NeverReturns(f, s[n - 1])}
    IN  s[Len(order)]
NoReturnSet ==
    LET s[n \in 0..8] == IF n = 0 THEN {f \in DOMAIN known : known[f].name \in KnownNames}
                         ELSE Pass(s[n - 1])
    IN  s[8]

(* Mutant of Refine: no function's entry stops the walks. *)
RefineAlone ==
    /\ phase = "refine" /\ phase' = "rewalk"
    /\ noreturn' = NoReturnSet
    /\ batch' = InOrder({f \in DOMAIN known \ NoReturnSet :
                                 known[f].calls \cap NoReturnSet # {}})
    /\ stop_at' = {}
    /\ UNCHANGED <<image, hints, pending, slice, evidence, known, data, table>>
Refine ==
    /\ phase = "refine" /\ phase' = "rewalk"
    /\ noreturn' = NoReturnSet
    /\ batch' = InOrder({f \in DOMAIN known \ NoReturnSet :
                                 known[f].calls \cap NoReturnSet # {}})
    /\ stop_at' = DOMAIN known
    /\ UNCHANGED <<image, hints, pending, slice, evidence, known, data, table>>

Finish ==
    /\ phase = "rewalk" /\ Idle /\ phase' = "done"
    /\ Publish(DOMAIN blocks)
    /\ UNCHANGED <<image, hints, discovery>>

Next ==
    \/ StartRound \/ WalkSlice \/ InternSlice \/ MergeSlice
    \/ ScanGaps \/ EndLeftovers \/ Refine \/ Finish

Spec == Init /\ [][Next]_vars

-----------------------------------------------------------------------------
(* WalkIsExact: a walk finds the instructions that control reaches from the    *)
(* entry, each in one block, with every edge from a last instruction to a      *)
(* first; however the runs met and were cut (cfg.rs:532-716).                  *)
WalkIsExact ==
    todo = Nothing /\ fresh = {} =>
    \A i \in DOMAIN slice : ExactBlocks(Walking(slice[i].at), slice[i].cfg)

(* The rounds by their definition: what is known before round n + 1, and the   *)
(* walk each entry has in the round it is first seen in.                       *)
Round(i, a, seen) == RawCfg([image |-> i, entry |-> a, stop_at |-> seen, noreturn |-> {}, data |-> {}])
CalledFrom(cfgs) ==
    UNION {{t \in cfgs[a].calls : IsExecutable(t)} : a \in {x \in DOMAIN cfgs : cfgs[x].blocks # <<>>}}
Combined(f, g) == [a \in DOMAIN f \cup DOMAIN g |-> IF a \in DOMAIN f THEN f[a] ELSE g[a]]
WithRound(r, cfgs) ==
    [seen |-> r.seen \cup CalledFrom(cfgs), last |-> CalledFrom(cfgs) \ r.seen, cfgs |-> Combined(r.cfgs, cfgs)]
NextRound(i, r) == WithRound(r, [a \in r.last |-> Round(i, a, r.seen)])
FirstRound(h) == [seen |-> DOMAIN h, last |-> DOMAIN h, cfgs |-> <<>>]
RoundsOf(i, h) ==
    LET r[n \in 0..LastAddr] == IF n = 0 THEN FirstRound(h) ELSE NextRound(i, r[n - 1])
    IN  r
Rounds == RoundsOf(image, hints)[LastAddr].cfgs

(* SlicesDoNotMatter: however a round is cut into slices, the functions and    *)
(* their blocks are those of the rounds: the answer is "independent of which   *)
(* thread finished first" (program.rs:3-6).                                    *)
SlicesDoNotMatter ==
    phase = "refine" => \A cfgs \in {Rounds} :
        LET found == {a \in DOMAIN known : "ProloguePattern" \notin known[a].by}
        IN  /\ found = {a \in DOMAIN cfgs : cfgs[a].blocks # <<>>}
            /\ \A a \in found : Read(a) = cfgs[a].blocks /\ known[a].calls = cfgs[a].calls

(* What a program does: a function comes back if control can get from its      *)
(* entry to a return, over the calls that come back. The functions with a      *)
(* known name do not.                                                          *)
Abort == {a \in DOMAIN hints : hints[a] \in KnownNames}
Flow(a, back) ==
    IF ~IsExecutable(a) \/ a \in Abort THEN {}
    ELSE CASE image[a].flow \in {"ret", "trap", "bad"} -> {}
           [] image[a].flow = "call" -> IF image[a].to \subseteq back THEN {a + 1} ELSE {}
           [] image[a].flow = "cond" -> image[a].to \cup {a + 1}
           [] image[a].flow \in {"jump", "switch"} -> image[a].to
           [] OTHER -> {a + 1}
Returning(back) ==
    LET comes[n \in 0..LastAddr] ==
            IF n = 0 THEN {a \in Addrs \ Abort : image[a].flow = "ret"}
            ELSE LET c == comes[n - 1] IN c \cup {a \in Addrs : Flow(a, back) \cap c # {}}
    IN  comes[LastAddr]
ComesBack ==
    LET b[n \in 0..LastAddr] == IF n = 0 THEN {} ELSE Returning(b[n - 1]) IN b[LastAddr]

(* A function whose tail calls are its only way on: it makes no other call,    *)
(* and no conditional branch leaves it.                                        *)
PlainTails(f) ==
    LET b == Covers(BlocksOf(f)) IN
    \/ \A a \in b : image[a].flow \in {"jump", "cond"} => image[a].to \cap known[f].calls = {}
    \/ /\ \E t \in known[f].calls : known[f].calls = {t}
       /\ \A a \in b : image[a].flow = "cond" => image[a].to \cap known[f].calls = {}

(* NoReturnOfPlainTails: a function that is said never to return does not (no  *)
(* path of the program leads from its entry to a return, noreturn.rs:114-119), *)
(* where tail calls are told apart.                                            *)
NoReturnOfPlainTails ==
    (phase = "rewalk" /\ \A f \in noreturn : PlainTails(f)) =>
        noreturn \cap ComesBack = {}

(* RewalkOnlyShortens: "a re-walk only ever shortens a function, so it cannot  *)
(* reach bytes the first walk did not" (program.rs:548): when all are walked   *)
(* again, a function that evidence led to, and no cap cut short, has no        *)
(* instruction that its round did not find.                                    *)
RewalkOnlyShortens ==
    phase = "rewalk" /\ Idle => \A cfgs \in {Rounds} :
        \A f \in DOMAIN known \cap DOMAIN cfgs : ~IsCapped(cfgs[f]) =>
            Covers(BlocksOf(f)) \subseteq Covers(ToSet(cfgs[f].blocks))
=============================================================================
