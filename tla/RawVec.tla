------------------------------- MODULE RawVec -------------------------------
(***************************************************************************)
(* RawVec: a vector that owns a raw buffer and may be changed through      *)
(* shared references.  The heap is a set of blocks; the allocator may hand *)
(* out any block that is not allocated, freed ones included, and may move  *)
(* a block or not when it grows it.  Elements are not zero sized.          *)
(***************************************************************************)
EXTENDS Naturals, Sequences, FiniteSets

CONSTANTS Vecs,        \* names of vectors
          Vals,        \* elements
          NoVal,       \* None, and what uninitialised memory holds
          Panic,       \* an operation that panicked
          Blocks,      \* addresses the allocator hands out
          Dangling,    \* NonNull::dangling
          Powers,      \* the powers of two that fit a usize
          FirstCap,    \* capacity of the first allocation: 4, or 8 for large elements
          SharedPush,  \* does a vector grow while an iterator over it is alive?
          MaxLen       \* bound: elements of a vector

Caps == Nat

ASSUME RawVecAssumption ==
    /\ NoVal \notin Vals
    /\ Panic \notin Vals \cup {NoVal}
    /\ Dangling \notin Blocks
    /\ MaxLen \in Nat /\ FirstCap \in Nat \ {0}
    /\ Powers \subseteq Nat
    /\ \A n \in 1..MaxLen : \E p \in Powers : p >= n /\ \A q \in Powers : q >= n => p <= q
    /\ SharedPush \in BOOLEAN

VARIABLES
    alive,   \* the vectors that exist
    vec,     \* ptr, cap and len of each vector
    heap,    \* the blocks that are allocated
    layout,  \* the size each block was allocated with
    cells,   \* what each block holds
    ret,     \* what the last operation returned
    iter     \* the shared iterator: its vector, block, next and last position

rvvars == <<alive, vec, heap, layout, cells, ret, iter>>

NoIter == [on |-> FALSE, of |-> NoVal, blk |-> Dangling, pos |-> 1, end |-> 0]
Blank == [i \in 1..MaxLen |-> NoVal]   \* memory nothing was written to, or freed
Empty == [ptr |-> Dangling, cap |-> 0, len |-> 0]

next_power_of_two(n) == CHOOSE p \in Powers : p >= n /\ \A q \in Powers : q >= n => p <= q

slice(v) == [i \in 1..vec[v].len |-> cells[vec[v].ptr][i]]

\* No iterator borrows v: what takes v by value or by a unique reference needs it.
Free(v) == ~ (iter.on /\ iter.of = v)

-----------------------------------------------------------------------------

Init ==
    /\ alive = {} /\ vec = [v \in Vecs |-> Empty]
    /\ heap = {} /\ layout = [b \in Blocks |-> 0]
    /\ cells = [b \in Blocks \cup {Dangling} |-> Blank]
    /\ ret = NoVal /\ iter = NoIter

\* with_cap: no memory for a capacity of zero.
with_cap(v, cap, b) ==
    /\ v \notin alive
    /\ alive' = alive \cup {v}
    /\ IF cap = 0
       THEN vec' = [vec EXCEPT ![v] = Empty] /\ UNCHANGED <<heap, layout>>
       ELSE /\ b \notin heap
            /\ vec' = [vec EXCEPT ![v] = [ptr |-> b, cap |-> cap, len |-> 0]]
            /\ heap' = heap \cup {b}
            /\ layout' = [layout EXCEPT ![b] = cap]
    /\ ret' = NoVal
    /\ UNCHANGED <<cells, iter>>

\* from_vec: the parts of a Vec, whose buffer has changed its owner.
from_vec(v, s, cap, b) ==
    /\ v \notin alive /\ b \notin heap
    /\ Len(s) <= cap /\ cap > 0
    /\ alive' = alive \cup {v}
    /\ vec' = [vec EXCEPT ![v] = [ptr |-> b, cap |-> cap, len |-> Len(s)]]
    /\ heap' = heap \cup {b}
    /\ layout' = [layout EXCEPT ![b] = cap]
    /\ cells' = [cells EXCEPT ![b] =
                    [i \in 1..MaxLen |-> IF i <= Len(s) THEN s[i] ELSE NoVal]]
    /\ ret' = NoVal
    /\ UNCHANGED iter

\* Where the buffer of v is, and how large, once it can hold one more: the
\* allocator may leave it where it is or move it to a block b.
new_size(v) == IF vec[v].len = 0 THEN FirstCap ELSE next_power_of_two(vec[v].len + 1)
full(v) == vec[v].len = vec[v].cap

Grown(v, b) == IF full(v) THEN [ptr |-> b, cap |-> new_size(v)]
               ELSE [ptr |-> vec[v].ptr, cap |-> vec[v].cap]

push_shared(v, x, b) ==
    LET old == vec[v].ptr
        len == vec[v].len
        new == Grown(v, b)
        data == [cells[old] EXCEPT ![len + 1] = x]
        moved == [cells EXCEPT ![old] = Blank, ![new.ptr] = data]
    IN  /\ v \in alive /\ len < MaxLen
        /\ SharedPush \/ Free(v) \/ ~ full(v)
        /\ full(v) => b \notin heap \/ b = old
        /\ heap' = IF full(v) THEN (heap \ {old}) \cup {b} ELSE heap
        /\ layout' = IF full(v) THEN [layout EXCEPT ![b] = new.cap] ELSE layout
        /\ cells' = moved
        /\ vec' = [vec EXCEPT ![v] = [ptr |-> new.ptr, cap |-> new.cap, len |-> len + 1]]
        /\ ret' = NoVal
        /\ UNCHANGED <<alive, iter>>

\* pop reads the last element, if there is one, and leaves it in memory.
pop(v) ==
    /\ v \in alive /\ Free(v)
    /\ \/ /\ vec[v].len = 0
          /\ ret' = NoVal
          /\ UNCHANGED vec
       \/ /\ vec[v].len > 0
          /\ ret' = cells[vec[v].ptr][vec[v].len]
          /\ vec' = [vec EXCEPT ![v].len = @ - 1]
    /\ UNCHANGED <<alive, heap, layout, cells, iter>>

\* An index past the elements is a panic, before anything is changed.
OutOfBounds(v, i) ==
    /\ v \in alive /\ Free(v) /\ i > vec[v].len
    /\ ret' = Panic
    /\ UNCHANGED <<alive, vec, heap, layout, cells, iter>>

\* Mutant: one element too few is shifted.
Mut_remove(v, i) ==
    LET len == vec[v].len
    IN  /\ v \in alive /\ Free(v) /\ i \in 1..len
        /\ ret' = cells[vec[v].ptr][i]
        /\ cells' = [cells EXCEPT ![vec[v].ptr] =
                        [j \in 1..MaxLen |-> IF j >= i /\ j < len - 1 THEN @[j + 1] ELSE @[j]]]
        /\ vec' = [vec EXCEPT ![v].len = len - 1]
        /\ UNCHANGED <<alive, heap, layout, iter>>

\* remove shifts what follows index i (from 1) down by one.
remove(v, i) ==
    LET len == vec[v].len
    IN  /\ v \in alive /\ Free(v) /\ i \in 1..len
        /\ ret' = cells[vec[v].ptr][i]
        /\ cells' = [cells EXCEPT ![vec[v].ptr] =
                        [j \in 1..MaxLen |-> IF j >= i /\ j < len THEN @[j + 1] ELSE @[j]]]
        /\ vec' = [vec EXCEPT ![v].len = len - 1]
        /\ UNCHANGED <<alive, heap, layout, iter>>

get(v, i) ==
    /\ v \in alive
    /\ ret' = IF i \in 1..vec[v].len THEN cells[vec[v].ptr][i] ELSE NoVal
    /\ UNCHANGED <<alive, vec, heap, layout, cells, iter>>

index_mut(v, i, x) ==
    /\ v \in alive /\ Free(v) /\ i \in 1..vec[v].len
    /\ cells' = [cells EXCEPT ![vec[v].ptr][i] = x]
    /\ ret' = NoVal
    /\ UNCHANGED <<alive, vec, heap, layout, iter>>

iter_mut_shared(v) ==
    /\ v \in alive /\ ~ iter.on /\ vec[v].len > 0
    /\ iter' = [on |-> TRUE, of |-> v, blk |-> vec[v].ptr, pos |-> 1, end |-> vec[v].len]
    /\ ret' = NoVal
    /\ UNCHANGED <<alive, vec, heap, layout, cells>>

\* The iterator writes through the pointer it was made from.
iter_next(x) ==
    /\ iter.on
    /\ cells' = IF iter.pos <= iter.end THEN [cells EXCEPT ![iter.blk][iter.pos] = x] ELSE cells
    /\ iter' = IF iter.pos < iter.end THEN [iter EXCEPT !.pos = @ + 1] ELSE NoIter
    /\ ret' = NoVal
    /\ UNCHANGED <<alive, vec, heap, layout>>

\* Mutant: the clone is another pointer to the buffer.
Mut_clone(v, w, b) ==
    /\ v \in alive /\ w \notin alive
    /\ alive' = alive \cup {w}
    /\ vec' = [vec EXCEPT ![w] = vec[v]]
    /\ ret' = NoVal
    /\ UNCHANGED <<heap, layout, cells, iter>>

\* to_vec copies the slice into a buffer of exactly its size.
clone(v, w, b) ==
    /\ v \in alive /\ w \notin alive
    /\ alive' = alive \cup {w}
    /\ IF vec[v].len = 0
       THEN vec' = [vec EXCEPT ![w] = Empty] /\ UNCHANGED <<heap, layout, cells>>
       ELSE /\ b \notin heap
            /\ vec' = [vec EXCEPT ![w] = [ptr |-> b, cap |-> vec[v].len, len |-> vec[v].len]]
            /\ heap' = heap \cup {b}
            /\ layout' = [layout EXCEPT ![b] = vec[v].len]
            /\ cells' = [cells EXCEPT ![b] =
                            [i \in 1..MaxLen |-> IF i <= vec[v].len THEN cells[vec[v].ptr][i]
                                                 ELSE NoVal]]
    /\ ret' = NoVal
    /\ UNCHANGED iter

\* Consuming a vector ends it and the ownership of its buffer.
Consume(v, result) ==
    /\ v \in alive /\ Free(v)
    /\ alive' = alive \ {v}
    /\ heap' = IF vec[v].cap = 0 THEN heap ELSE heap \ {vec[v].ptr}
    /\ cells' = [cells EXCEPT ![vec[v].ptr] = Blank]
    /\ vec' = [vec EXCEPT ![v] = Empty]
    /\ ret' = result
    /\ UNCHANGED <<layout, iter>>

\* drop frees the buffer and not the elements in it.
drop(v) == Consume(v, NoVal)

\* into_iter hands the elements to a Vec, which frees the buffer after them.
into_iter(v) == Consume(v, slice(v))

Next ==
    \/ \E v \in Vecs, b \in Blocks :
        \/ \E cap \in 0..MaxLen : with_cap(v, cap, b)
        \/ \E n \in 0..MaxLen, cap \in 0..MaxLen : \E s \in [1..n -> Vals] : from_vec(v, s, cap, b)
        \/ \E x \in Vals : push_shared(v, x, b)
        \/ \E w \in Vecs : clone(v, w, b)
    \/ \E v \in Vecs :
        \/ pop(v) \/ drop(v) \/ into_iter(v) \/ iter_mut_shared(v)
        \/ \E i \in 1..(MaxLen + 1) : get(v, i) \/ remove(v, i) \/ OutOfBounds(v, i)
        \/ \E i \in 1..MaxLen, x \in Vals : index_mut(v, i, x)
    \/ \E x \in Vals : iter_next(x)

Spec == Init /\ [][Next]_rvvars

-----------------------------------------------------------------------------
(* Properties *)

Cell == Vals \cup {NoVal}

\* The type invariant.
TypeOK ==
    /\ alive \subseteq Vecs
    /\ vec \in [Vecs -> [ptr : Blocks \cup {Dangling}, cap : Caps, len : 0..MaxLen]]
    /\ heap \subseteq Blocks
    /\ layout \in [Blocks -> Caps]
    /\ cells \in [Blocks \cup {Dangling} -> [1..MaxLen -> Cell]]
    /\ ret \in Cell \cup {Panic} \cup Seq(Cell)
    /\ iter \in [on : BOOLEAN, of : Vecs \cup {NoVal}, blk : Blocks \cup {Dangling},
                 pos : 1..(MaxLen + 1), end : 0..MaxLen]

\* A vector has memory of its own for all its elements: its buffer is
\* allocated with the layout it will be freed with, holds its length, and
\* belongs to no other vector, whatever was cloned, grown or freed before.
OwnsBuffer ==
    \A v \in Vecs :
        /\ vec[v].len <= vec[v].cap
        /\ vec[v].cap = 0 => vec[v] = Empty
        /\ vec[v].cap > 0 => /\ v \in alive
                             /\ vec[v].ptr \in heap
                             /\ layout[vec[v].ptr] = vec[v].cap
        /\ \A w \in Vecs : vec[v].cap > 0 /\ v # w => vec[v].ptr # vec[w].ptr

\* No buffer is leaked: every allocated block belongs to a vector.
NoLeak == \A b \in heap : \E v \in alive : vec[v].cap > 0 /\ vec[v].ptr = b

\* Every element that can be read was written: no vector exposes memory that
\* was never initialised.
Initialised == \A v \in Vecs : \A i \in 1..vec[v].len : cells[vec[v].ptr][i] \in Vals

\* Buffers are owned by one vector, freed when it goes, and read only where
\* they were written.
MemorySound == OwnsBuffer /\ NoLeak /\ Initialised

\* Whatever is done to other vectors, and pushed to its own, while an iterator
\* over shared memory is alive, it points into the buffer of its vector, which
\* is still allocated, and not past the elements.
IterLive ==
    iter.on => /\ iter.of \in alive
               /\ iter.blk \in heap
               /\ vec[iter.of].cap > 0 /\ vec[iter.of].ptr = iter.blk
               /\ iter.pos <= iter.end /\ iter.end <= vec[iter.of].len

\* No element is forgotten with its vector: what a vector still holds when it
\* goes is handed to whoever consumes it.  drop forgets its elements.
NothingForgotten ==
    [][\A v \in alive \ alive' : slice(v) = << >> \/ ret' = slice(v)]_rvvars

\* RawVec implements the vectors of VectorSpec.
elems == [v \in Vecs |-> slice(v)]
VS == INSTANCE VectorSpec WITH elems <- elems
=============================================================================
