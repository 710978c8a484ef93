--------------------------- MODULE AnchoredNames ---------------------------
(***************************************************************************)
(* Names given to functions of one build and shown on the next ones:       *)
(* anchors (crates/e5r-db/src/anchor.rs), the fold of the log over them    *)
(* (log.rs) and the names a command shows (crates/e5r-cli/src/main.rs).    *)
(***************************************************************************)
EXTENDS Integers, FiniteSets

CONSTANTS
    Functions,    \* functions of the program's source
    Slots,        \* addresses, in order
    Bytes,        \* hashes of function bodies, in order
    ShapeOf,      \* the hash of the instruction shapes of each body
    Names,        \* texts
    None          \* nothing there

ASSUME OrderAssumption == Slots \subseteq Nat /\ Bytes \subseteq Nat /\ ShapeOf \in [Bytes -> Nat]

\* Finding nothing is no place.
ASSUME NoneAssumption ==
    \A a \in Slots, how \in {"exact", "shape"} : [at |-> a, how |-> how] # None

VARIABLES
    build,        \* the function at each address of the binary at hand
    winners       \* the folded log: the name of each anchored identity

namesVars == <<build, winners>>

\* A function of a build; its anchor is its bytes, their shape and its address.
Code == [fn : Functions, bytes : Bytes]

\* The winner for an identity, with the address it was made at. "fn" is history:
\* the function the author had in view.
Entry == [name : Names, abs : Slots, fn : Functions]

Occupied(b) == {a \in Slots : b[a] # None}

\* The binaries: a function has one place.
Builds ==
    {b \in [Slots -> Code \cup {None}] :
        \A a, c \in Occupied(b) : b[a].fn = b[c].fn => a = c}

Shape(a) == ShapeOf[build[a].bytes]

Lowest(S) == CHOOSE x \in S : \A y \in S : x <= y

-----------------------------------------------------------------------------
(* AnchorIndex::resolve: where an identity and its address hint land. *)

SameBytes(key) == {a \in Occupied(build) : build[a].bytes = key}

\* The index of shapes is sorted by shape, bytes and address.
SameShape(key) == {a \in Occupied(build) : Shape(a) = ShapeOf[key]}

FirstOfShape(key) ==
    LET least == Lowest({build[a].bytes : a \in SameShape(key)})
    IN  Lowest(SameBytes(least))

\* Faulty variant: the address is believed before the shape.
resolveAddressFirst(key, abs) ==
    IF SameBytes(key) # {} THEN [at |-> Lowest(SameBytes(key)), how |-> "exact"]
    ELSE IF abs \in Occupied(build) THEN [at |-> abs, how |-> "address"]
    ELSE IF Cardinality(SameShape(key)) = 1
           THEN [at |-> Lowest(SameShape(key)), how |-> "shape"]
    ELSE None

resolve(key, abs) ==
    CASE SameBytes(key) # {} ->
            [at |-> Lowest(SameBytes(key)), how |-> "exact"]
      [] SameBytes(key) = {} /\ Cardinality(SameShape(key)) = 1 ->
            [at |-> Lowest(SameShape(key)), how |-> "shape"]
      [] SameBytes(key) = {} /\ Cardinality(SameShape(key)) > 1 ->
            [at |-> IF abs \in SameShape(key) THEN abs ELSE FirstOfShape(key),
             how |-> "ambiguous"]
      [] SameShape(key) = {} /\ abs \in Occupied(build) ->
            [at |-> abs, how |-> "address"]
      [] OTHER -> None

is_confident(how) == how \in {"exact", "shape"}

Named == {key \in Bytes : winners[key] # None}

Landing(key) == resolve(key, winners[key].abs)

-----------------------------------------------------------------------------
NamesInit ==
    /\ build \in {b \in Builds : {b[a].fn : a \in Occupied(b)} = Functions}
    /\ winners = [key \in Bytes |-> None]

\* An author names the function at an address.
SetName(a, name) ==
    /\ build[a] # None
    /\ winners' = [winners EXCEPT ![build[a].bytes] =
                 [name |-> name, abs |-> a, fn |-> build[a].fn]]
    /\ UNCHANGED build

\* The program is built again from any source, and linked anywhere.
Rebuild ==
    /\ build' \in Builds
    /\ UNCHANGED winners

NamesNext == (\E a \in Slots, name \in Names : SetName(a, name)) \/ Rebuild

NamesSpec == NamesInit /\ [][NamesNext]_namesVars

-----------------------------------------------------------------------------
(* Properties. *)

\* A build places functions, and the log names identities.
NamesTypeOK ==
    /\ build \in Builds
    /\ winners \in [Bytes -> Entry \cup {None}]

\* "Naming a location so the name survives a rebuild" (anchor.rs:1): as long as
\* a named function keeps its instruction shapes, and no other function of the
\* build shares them, the name is found at the function's address with
\* confidence, wherever the linker put it and whatever its bytes have become.
NameFollows ==
    \A key \in Named, a \in Occupied(build) :
        /\ build[a].fn = winners[key].fn
        /\ SameShape(key) = {a}
        => Landing(key) # None /\ Landing(key).at = a /\ is_confident(Landing(key).how)
=============================================================================
