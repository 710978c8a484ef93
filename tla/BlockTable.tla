----------------------------- MODULE BlockTable -----------------------------
(* Every distinct block of a program, held once (cfg.rs BlockInterner,         *)
(* BlockTable, Blocks). Functions name blocks by id; the entries are kept in   *)
(* chunks that are sealed once and shared, and a function reads its ids in the *)
(* chunks that existed when its table was published.                           *)
EXTENDS Integers, Sequences, FiniteSets

CONSTANTS
    Hash(_),     \* hash_block
    Slots,       \* bound: the index starts with this many slots (1024 in the code)
    NoId         \* an empty slot

ASSUME TableAssumption == Slots \in Nat \ {0} /\ NoId \notin Nat

VARIABLES
    chunks,      \* the sealed chunks: [start, entries], with the id of the first entry
    open,        \* entries since the last seal
    slots,       \* the index: of each slot, an id or NoId
    todo,        \* the function being interned: [of, rest, ids], or Nothing
    blocks,      \* of each function: [ids, upto], the last chunk of its table
    fresh,       \* functions installed since the last publish
    raw          \* history: of each function, the blocks its walk found

table == <<chunks, open, slots, todo, blocks, fresh, raw>>

Nothing == [of |-> NoId]     \* nothing is being interned
TableInit ==
    /\ chunks = <<>> /\ open = <<>> /\ slots = [i \in 0..Slots - 1 |-> NoId]
    /\ todo = Nothing /\ blocks = <<>> /\ fresh = {} /\ raw = <<>>

-----------------------------------------------------------------------------
Sealed == IF chunks = <<>> THEN 0
          ELSE chunks[Len(chunks)].start + Len(chunks[Len(chunks)].entries)
NextId == Sealed + Len(open)

(* The chunk of an id among the first n: the last that does not start after it.*)
ChunkOf(n, id) == CHOOSE k \in 1..n : chunks[k].start <= id /\ (k < n => id < chunks[k + 1].start)
IsEntry(n, id) ==
    /\ \E k \in 1..n : chunks[k].start <= id
    /\ id - chunks[ChunkOf(n, id)].start < Len(chunks[ChunkOf(n, id)].entries)
Entry(n, id) == chunks[ChunkOf(n, id)].entries[id - chunks[ChunkOf(n, id)].start + 1]

(* The interner looks in the open chunk too. *)
Interned(id) == IF id >= Sealed THEN open[id - Sealed + 1] ELSE Entry(Len(chunks), id)

(* Linear probing: from the slot of a hash to the first that is good.          *)
Size(index) == Cardinality(DOMAIN index)
Probe(index, hash, good) ==
    LET at(i) == (hash + i) % Size(index)
        first == CHOOSE i \in DOMAIN index :
                     at(i) \in good /\ \A j \in 0..i - 1 : at(j) \notin good
    IN  at(first)

(* Twice the slots, and every id into the first free one, in the order of the  *)
(* old slots.                                                                  *)
(* Mutant of Grow: the ids stay where they are. *)
GrowInPlace(index) == [i \in 0..2 * Size(index) - 1 |-> IF i < Size(index) THEN index[i] ELSE NoId]
Free(index) == {i \in DOMAIN index : index[i] = NoId}
Moved(index, id) ==
    IF id = NoId THEN index
    ELSE [index EXCEPT ![Probe(index, Hash(Interned(id)), Free(index))] = id]
Grow(index) ==
    LET moved[n \in 0..Size(index)] ==
            IF n = 0 THEN [i \in 0..2 * Size(index) - 1 |-> NoId]
            ELSE Moved(moved[n - 1], index[n - 1])
    IN  moved[Size(index)]

IsFull == (NextId + 1) * 4 >= Size(slots) * 3

-----------------------------------------------------------------------------
(* A walked function is handed over, and its blocks interned one by one.       *)
Install(f, bs) ==
    /\ todo = Nothing
    /\ todo' = [of |-> f, rest |-> bs, ids |-> <<>>]
    /\ raw' = [g \in DOMAIN raw \cup {f} |-> IF g = f THEN bs ELSE raw[g]]
    /\ UNCHANGED <<chunks, open, slots, blocks, fresh>>

Intern ==
    /\ todo # Nothing /\ todo.rest # <<>>
    /\ LET b == Head(todo.rest)
           index == IF IsFull THEN Grow(slots) ELSE slots
           good == Free(index) \cup {i \in DOMAIN index \ Free(index) : Interned(index[i]) = b}
           slot == Probe(index, Hash(b), good)
           id == IF index[slot] = NoId THEN NextId ELSE index[slot]
       IN  /\ slots' = [index EXCEPT ![slot] = id]
           /\ open' = IF index[slot] = NoId THEN Append(open, b) ELSE open
           /\ todo' = [todo EXCEPT !.rest = Tail(todo.rest), !.ids = Append(todo.ids, id)]
    /\ UNCHANGED <<chunks, blocks, fresh, raw>>

Installed ==
    /\ todo # Nothing /\ todo.rest = <<>>
    /\ blocks' = [g \in DOMAIN blocks \cup {todo.of} |->
                     IF g = todo.of THEN [ids |-> todo.ids, upto |-> 0] ELSE blocks[g]]
    /\ fresh' = fresh \cup {todo.of}
    /\ todo' = Nothing
    /\ UNCHANGED <<chunks, open, slots, raw>>

(* Seal what was interned and give the table to these functions, among them    *)
(* every one installed since the last time.                                    *)
SealedChunks ==
    IF open = <<>> THEN chunks ELSE Append(chunks, [start |-> Sealed, entries |-> open])
(* Mutant of Publish: the table as it was before the seal. *)
PublishEarly(fs) ==
    /\ todo = Nothing /\ fresh \subseteq fs /\ fs \subseteq DOMAIN blocks
    /\ chunks' = SealedChunks /\ open' = <<>>
    /\ blocks' = [g \in DOMAIN blocks |->
                     IF g \in fs THEN [blocks[g] EXCEPT !.upto = Len(chunks)] ELSE blocks[g]]
    /\ fresh' = {}
    /\ UNCHANGED <<slots, todo, raw>>
Publish(fs) ==
    /\ todo = Nothing /\ fresh \subseteq fs /\ fs \subseteq DOMAIN blocks
    /\ chunks' = SealedChunks /\ open' = <<>>
    /\ blocks' = [g \in DOMAIN blocks |->
                     IF g \in fs THEN [blocks[g] EXCEPT !.upto = Len(SealedChunks)] ELSE blocks[g]]
    /\ fresh' = {}
    /\ UNCHANGED <<slots, todo, raw>>

(* The table on its own: any function, any blocks, published at any time.      *)
TableNext(fs, bss) ==
    \/ \E f \in fs, bs \in bss : Install(f, bs)
    \/ Intern \/ Installed
    \/ \E gs \in SUBSET fs : Publish(gs)

-----------------------------------------------------------------------------
(* What a function reads. *)
Read(f) == [i \in DOMAIN blocks[f].ids |-> Entry(blocks[f].upto, blocks[f].ids[i])]

(* ReadsBack: a function that is published reads the blocks its walk found,    *)
(* whatever blocks it shares with others and whatever has been interned since: *)
(* "an id means the same entry in every snapshot that is long enough to hold   *)
(* it" (cfg.rs:71-74), and the entry that "cannot happen" to be missing is     *)
(* there (cfg.rs:192).                                                         *)
ReadsBack ==
    \A f \in DOMAIN blocks \ fresh :
        /\ \A i \in DOMAIN blocks[f].ids : IsEntry(blocks[f].upto, blocks[f].ids[i])
        /\ (todo # Nothing => todo.of # f) => Read(f) = raw[f]

(* HeldOnce: "collapsing blocks that are identical" (cfg.rs:209): no block has *)
(* two entries, however often the index has grown and whatever collides; and   *)
(* the search for a block always comes to an end at a free slot (cfg.rs:262).  *)
HeldOnce ==
    /\ \A i, j \in 0..NextId - 1 : Interned(i) = Interned(j) => i = j
    /\ \E i \in DOMAIN slots : slots[i] = NoId
=============================================================================
