---------------------------- MODULE RawVecProofs ----------------------------
(***************************************************************************)
(* The vectors for any number of them, any elements and any allocator.     *)
(***************************************************************************)
EXTENDS MCRawVec, SequenceTheorems, TLAPS

-----------------------------------------------------------------------------
(* Operators *)

\* The capacity push grows to holds the new element.
LEMMA NextPowerOfTwo ==
    ASSUME NEW n \in 1..MaxLen
    PROVE  next_power_of_two(n) \in Nat /\ next_power_of_two(n) >= n
<1>1. \E p \in Powers : p >= n /\ \A q \in Powers : q >= n => p <= q
  BY RawVecAssumption
<1>2. next_power_of_two(n) \in Powers /\ next_power_of_two(n) >= n
  BY <1>1 DEF next_power_of_two
<1> QED
  BY <1>2, RawVecAssumption

LEMMA NewSize ==
    ASSUME TypeOK, NEW v \in Vecs, vec[v].len < MaxLen
    PROVE  new_size(v) \in Nat /\ new_size(v) > vec[v].len
<1>1. vec[v].len \in 0..MaxLen
  BY DEF TypeOK
<1>2. CASE vec[v].len = 0
  BY <1>1, <1>2, RawVecAssumption DEF new_size
<1>3. CASE vec[v].len # 0
  <2>1. vec[v].len + 1 \in 1..MaxLen
    BY <1>1, <1>3, RawVecAssumption
  <2> QED
    BY <1>1, <1>3, <2>1, NextPowerOfTwo DEF new_size
<1> QED
  BY <1>2, <1>3

\* from_vec takes the elements of a Vec of n elements.
LEMMA LenOfFunction ==
    ASSUME NEW n \in Nat, NEW s \in [1..n -> Vals]
    PROVE  s \in Seq(Vals) /\ Len(s) = n
  OBVIOUS

\* What pop and remove do to the vector they shorten.
Shortened(v) == [ptr |-> vec[v].ptr, cap |-> vec[v].cap, len |-> vec[v].len - 1]

LEMMA PopShortens ==
    ASSUME TypeOK, NEW v \in Vecs
    PROVE  [vec EXCEPT ![v].len = vec[v].len - 1] = [vec EXCEPT ![v] = Shortened(v)]
<1>1. vec[v] \in [ptr : Blocks \cup {Dangling}, cap : Caps, len : 0..MaxLen]
  BY DEF TypeOK
<1>2. [vec[v] EXCEPT !.len = vec[v].len - 1] = Shortened(v)
  BY <1>1 DEF Shortened
<1> QED
  BY <1>2

-----------------------------------------------------------------------------
(* Type correctness *)

Iterators == [on : BOOLEAN, of : Vecs \cup {NoVal}, blk : Blocks \cup {Dangling},
              pos : 1..(MaxLen + 1), end : 0..MaxLen]


LEMMA TypeStep ==
    ASSUME TypeOK, [Next]_rvvars
    PROVE  TypeOK'
<1> USE DEF TypeOK, Iterators
<1>m. MaxLen \in Nat
  BY RawVecAssumption
<1>0. CASE UNCHANGED rvvars
  BY <1>0 DEF rvvars
<1>1. ASSUME NEW v \in Vecs, NEW b \in Blocks, NEW cap \in 0..MaxLen, with_cap(v, cap, b)
      PROVE  TypeOK'
  <2>1. vec' \in [Vecs -> [ptr : Blocks \cup {Dangling}, cap : Caps, len : 0..MaxLen]]
    <3>1. PICK r \in [ptr : Blocks \cup {Dangling}, cap : Nat, len : 0..MaxLen] :
                 vec' = [vec EXCEPT ![v] = r]
      BY <1>1, <1>m DEF with_cap, Empty
    <3> QED
      BY <3>1 DEF Caps
  <2>2. layout' \in [Blocks -> Caps] /\ heap' \subseteq Blocks
    <3>1. heap' \subseteq Blocks
      BY <1>1 DEF with_cap
    <3>2. layout' = layout \/ layout' = [layout EXCEPT ![b] = cap]
      BY <1>1 DEF with_cap
    <3>3. cap \in Nat
      BY <1>m
    <3> QED
      BY <3>1, <3>2, <3>3 DEF Caps
  <2> QED
    BY <1>1, <2>1, <2>2 DEF with_cap, Cell
<1>2. ASSUME NEW v \in Vecs, NEW b \in Blocks, NEW n \in 0..MaxLen, NEW cap \in 0..MaxLen,
             NEW s \in [1..n -> Vals], from_vec(v, s, cap, b)
      PROVE  TypeOK'
  <2>1. Len(s) = n
    BY LenOfFunction, <1>m
  <2>2. [i \in 1..MaxLen |-> IF i <= Len(s) THEN s[i] ELSE NoVal] \in [1..MaxLen -> Cell]
    BY <2>1, <1>m DEF Cell
  <2> QED
    BY <1>2, <2>1, <2>2, <1>m DEF from_vec, Caps, Cell
<1>3. ASSUME NEW v \in Vecs, NEW b \in Blocks, NEW x \in Vals, push_shared(v, x, b)
      PROVE  TypeOK'
  <2> DEFINE new == Grown(v, b)
             data == [cells[vec[v].ptr] EXCEPT ![vec[v].len + 1] = x]
  <2>1. new.ptr \in Blocks \cup {Dangling} /\ new.cap \in Nat
    BY <1>3, NewSize DEF Grown, push_shared, Caps
  <2>2. data \in [1..MaxLen -> Cell]
    BY <1>3, <1>m DEF push_shared, Cell
  <2>3. Blank \in [1..MaxLen -> Cell]
    BY DEF Blank, Cell
  <2>4. cells' = [cells EXCEPT ![vec[v].ptr] = Blank, ![new.ptr] = data]
    BY <1>3 DEF push_shared
  <2>5. vec' = [vec EXCEPT ![v] = [ptr |-> new.ptr, cap |-> new.cap, len |-> vec[v].len + 1]]
    BY <1>3 DEF push_shared
  <2>6. layout' \in [Blocks -> Nat] /\ heap' \subseteq Blocks
    BY <1>3, <2>1 DEF push_shared, Caps
  <2>7. vec[v].len + 1 \in 0..MaxLen
    BY <1>3, <1>m DEF push_shared
  <2> HIDE DEF new, data
  <2>8. cells' \in [Blocks \cup {Dangling} -> [1..MaxLen -> Cell]]
    BY <2>1, <2>2, <2>3, <2>4
  <2>9. vec' \in [Vecs -> [ptr : Blocks \cup {Dangling}, cap : Caps, len : 0..MaxLen]]
    BY <2>1, <2>5, <2>7 DEF Caps
  <2> QED
    BY <1>3, <2>6, <2>8, <2>9 DEF push_shared, Caps, Cell
<1>4. ASSUME NEW v \in Vecs, NEW b \in Blocks, NEW w \in Vecs, clone(v, w, b)
      PROVE  TypeOK'
  <2> DEFINE copy == [i \in 1..MaxLen |-> IF i <= vec[v].len THEN cells[vec[v].ptr][i]
                                         ELSE NoVal]
  <2>1. vec' \in [Vecs -> [ptr : Blocks \cup {Dangling}, cap : Caps, len : 0..MaxLen]]
    <3>1. PICK r \in [ptr : Blocks \cup {Dangling}, cap : Nat, len : 0..MaxLen] :
                 vec' = [vec EXCEPT ![w] = r]
      BY <1>4, <1>m DEF clone, Empty
    <3> QED
      BY <3>1 DEF Caps
  <2>2. layout' \in [Blocks -> Caps] /\ heap' \subseteq Blocks
    BY <1>4, <1>m DEF clone, Caps
  <2>3. copy \in [1..MaxLen -> Cell]
    BY <1>m DEF Cell
  <2>4. cells' = cells \/ cells' = [cells EXCEPT ![b] = copy]
    BY <1>4 DEF clone
  <2> HIDE DEF copy
  <2>5. cells' \in [Blocks \cup {Dangling} -> [1..MaxLen -> Cell]]
    BY <2>3, <2>4
  <2> QED
    BY <1>4, <2>1, <2>2, <2>5 DEF clone, Cell
<1>5. ASSUME NEW v \in Vecs, pop(v)
      PROVE  TypeOK'
  <2>1. CASE vec[v].len = 0
    BY <1>5, <2>1 DEF pop, Cell
  <2>2. CASE vec[v].len # 0
    <3>1. vec[v].len \in 1..MaxLen
      BY <2>2, <1>m
    <3>0. ret' = cells[vec[v].ptr][vec[v].len] /\ vec' = [vec EXCEPT ![v].len = @ - 1]
      BY <1>5, <2>2 DEF pop
    <3>2. ret' \in Cell
      <4>1. cells[vec[v].ptr] \in [1..MaxLen -> Cell]
        OBVIOUS
      <4> HIDE DEF TypeOK
      <4> QED
        BY <3>0, <3>1, <4>1
    <3>3. Shortened(v) \in [ptr : Blocks \cup {Dangling}, cap : Caps, len : 0..MaxLen]
      BY <3>1, <1>m DEF Shortened
    <3>4. vec' = [vec EXCEPT ![v] = Shortened(v)]
      BY <3>0, PopShortens
    <3>5. vec' \in [Vecs -> [ptr : Blocks \cup {Dangling}, cap : Caps, len : 0..MaxLen]]
      BY <3>3, <3>4
    <3> QED
      BY <1>5, <3>2, <3>5 DEF pop
  <2> QED
    BY <2>1, <2>2
<1>6. ASSUME NEW v \in Vecs, NEW r, r \in Cell \cup Seq(Cell), Consume(v, r)
      PROVE  TypeOK'
  BY <1>6, <1>m DEF Consume, Empty, Blank, Caps, Cell
<1>6a. ASSUME NEW v \in Vecs, drop(v) \/ into_iter(v)
       PROVE  TypeOK'
  <2>1. slice(v) \in [1..vec[v].len -> Cell] /\ vec[v].len \in Nat
    BY <1>m DEF slice
  <2>2. slice(v) \in Seq(Cell)
    BY <2>1
  <2>3. NoVal \in Cell
    BY DEF Cell
  <2> HIDE DEF TypeOK
  <2> QED
    BY <1>6, <1>6a, <2>2, <2>3 DEF drop, into_iter
<1>6b. ASSUME NEW v \in Vecs, NEW i \in 1..(MaxLen + 1), OutOfBounds(v, i)
       PROVE  TypeOK'
  BY <1>6b DEF OutOfBounds
<1>7. ASSUME NEW v \in Vecs, iter_mut_shared(v)
      PROVE  TypeOK'
  BY <1>7, <1>m DEF iter_mut_shared, Caps, Cell
<1>8. ASSUME NEW v \in Vecs, NEW i \in 1..(MaxLen + 1), get(v, i)
      PROVE  TypeOK'
  BY <1>8, <1>m DEF get, Caps, Cell
<1>9. ASSUME NEW v \in Vecs, NEW i \in 1..(MaxLen + 1), remove(v, i)
      PROVE  TypeOK'
  <2> DEFINE c == cells[vec[v].ptr]
             shifted == [j \in 1..MaxLen |-> IF j >= i /\ j < vec[v].len THEN c[j + 1] ELSE c[j]]
  <2>1. vec[v].len \in 0..MaxLen /\ c \in [1..MaxLen -> Cell]
    OBVIOUS
  <2>2. shifted \in [1..MaxLen -> Cell]
    BY <2>1, <1>m
  <2>3. cells' = [cells EXCEPT ![vec[v].ptr] = shifted]
    BY <1>9 DEF remove
  <2>4. ret' \in Cell /\ vec[v].len - 1 \in 0..MaxLen
    BY <1>9, <1>m DEF remove
  <2> HIDE DEF shifted
  <2>5. Shortened(v) \in [ptr : Blocks \cup {Dangling}, cap : Caps, len : 0..MaxLen]
    BY <2>4 DEF Shortened
  <2>6. vec' = [vec EXCEPT ![v] = Shortened(v)]
    BY <1>9, PopShortens DEF remove
  <2>7. vec' \in [Vecs -> [ptr : Blocks \cup {Dangling}, cap : Caps, len : 0..MaxLen]]
    BY <2>5, <2>6
  <2>8. cells' \in [Blocks \cup {Dangling} -> [1..MaxLen -> Cell]]
    BY <2>2, <2>3
  <2> QED
    BY <1>9, <2>4, <2>7, <2>8 DEF remove
<1>10. ASSUME NEW v \in Vecs, NEW i \in 1..MaxLen, NEW x \in Vals, index_mut(v, i, x)
       PROVE  TypeOK'
  BY <1>10, <1>m DEF index_mut, Caps, Cell
<1>11. ASSUME NEW x \in Vals, iter_next(x)
       PROVE  TypeOK'
  <2>1. iter' \in Iterators
    <3>1. NoIter \in Iterators
      BY <1>m DEF NoIter
    <3>2. ASSUME iter.pos < iter.end
          PROVE  [iter EXCEPT !.pos = iter.pos + 1] \in
                   Iterators
      <4>1. iter.pos \in 1..(MaxLen + 1) /\ iter.end \in 0..MaxLen
        OBVIOUS
      <4>2. iter.pos + 1 \in 1..(MaxLen + 1)
        BY <3>2, <4>1, <1>m
      <4> QED
        BY <4>2
    <3> QED
      BY <1>11, <3>1, <3>2 DEF iter_next
  <2>2. cells' \in [Blocks \cup {Dangling} -> [1..MaxLen -> Cell]]
    BY <1>11, <1>m DEF iter_next, Cell
  <2> QED
    BY <1>11, <2>1, <2>2 DEF iter_next, Cell
<1> QED
  BY <1>0, <1>1, <1>2, <1>3, <1>4, <1>5, <1>6a, <1>6b, <1>7, <1>8, <1>9, <1>10, <1>11 DEF Next

-----------------------------------------------------------------------------
(* MemorySound and their owners.  Nothing here depends on the iterator: it may *)
(* write to any block, but it only writes elements.                        *)

BufInv == TypeOK /\ MemorySound

\* A new vector without memory.
LEMMA NewEmpty ==
    ASSUME BufInv, NEW v \in Vecs, v \notin alive,
           alive' = alive \cup {v}, vec' = [vec EXCEPT ![v] = Empty],
           UNCHANGED <<heap, layout, cells>>
    PROVE  MemorySound'
<1>1. vec[v].cap = 0 /\ vec[v] = Empty
  BY DEF BufInv, MemorySound, OwnsBuffer, TypeOK, Caps
<1>2. vec' = vec
  BY <1>1 DEF BufInv, TypeOK
<1>3. OwnsBuffer'
  BY <1>2 DEF BufInv, MemorySound, OwnsBuffer
<1>4. NoLeak'
  BY <1>2 DEF BufInv, MemorySound, NoLeak
<1>5. Initialised'
  BY <1>2 DEF BufInv, MemorySound, Initialised
<1> QED
  BY <1>3, <1>4, <1>5 DEF MemorySound

\* A new vector with a block nobody has.
LEMMA NewBuffer ==
    ASSUME BufInv, NEW v \in Vecs, v \notin alive, NEW b \in Blocks, b \notin heap,
           NEW cap \in Nat \ {0}, NEW len \in 0..MaxLen, len <= cap,
           alive' = alive \cup {v},
           vec' = [vec EXCEPT ![v] = [ptr |-> b, cap |-> cap, len |-> len]],
           heap' = heap \cup {b}, layout' = [layout EXCEPT ![b] = cap],
           \A c \in Blocks \cup {Dangling} : c # b => cells'[c] = cells[c],
           \A i \in 1..len : cells'[b][i] \in Vals
    PROVE  MemorySound'
<1>1. \A w \in Vecs : w # v => vec'[w] = vec[w]
  BY DEF BufInv, TypeOK
<1>2. vec'[v] = [ptr |-> b, cap |-> cap, len |-> len]
  BY DEF BufInv, TypeOK
<1>3. \A w \in Vecs : w # v => vec[w].ptr # b
  <2> SUFFICES ASSUME NEW w \in Vecs, w # v
               PROVE  vec[w].ptr # b
    OBVIOUS
  <2>1. CASE vec[w].cap = 0
    BY <2>1, RawVecAssumption DEF BufInv, MemorySound, OwnsBuffer, Empty
  <2>2. CASE vec[w].cap # 0
    BY <2>2 DEF BufInv, MemorySound, OwnsBuffer, TypeOK, Caps
  <2> QED
    BY <2>1, <2>2
<1>4. OwnsBuffer'
  <2> SUFFICES ASSUME NEW u \in Vecs
               PROVE  /\ vec'[u].len <= vec'[u].cap
                      /\ vec'[u].cap = 0 => vec'[u] = Empty
                      /\ vec'[u].cap > 0 => /\ u \in alive'
                                            /\ vec'[u].ptr \in heap'
                                            /\ layout'[vec'[u].ptr] = vec'[u].cap
                      /\ \A w \in Vecs : vec'[u].cap > 0 /\ u # w => vec'[u].ptr # vec'[w].ptr
    BY DEF OwnsBuffer, Empty
  <2>1. CASE u = v
    BY <1>1, <1>2, <1>3, <2>1 DEF BufInv, TypeOK
  <2>2. CASE u # v
    <3>1. vec'[u] = vec[u] /\ vec[u].ptr # b
      BY <1>1, <1>3, <2>2
    <3>2. /\ vec[u].len <= vec[u].cap
          /\ vec[u].cap = 0 => vec[u] = Empty
          /\ vec[u].cap > 0 => /\ u \in alive
                               /\ vec[u].ptr \in heap
                               /\ layout[vec[u].ptr] = vec[u].cap
          /\ \A w \in Vecs : vec[u].cap > 0 /\ u # w => vec[u].ptr # vec[w].ptr
      BY DEF BufInv, MemorySound, OwnsBuffer
    <3>3. vec[u].ptr \in heap => layout'[vec[u].ptr] = layout[vec[u].ptr]
      BY <3>1 DEF BufInv, TypeOK
    <3>4. \A w \in Vecs : vec[u].cap > 0 /\ u # w => vec[u].ptr # vec'[w].ptr
      BY <1>1, <1>2, <3>1, <3>2
    <3> QED
      BY <3>1, <3>2, <3>3, <3>4
  <2> QED
    BY <2>1, <2>2
<1>5. NoLeak'
  <2> SUFFICES ASSUME NEW c \in heap'
               PROVE  \E w \in alive' : vec'[w].cap > 0 /\ vec'[w].ptr = c
    BY DEF NoLeak
  <2>1. CASE c = b
    BY <1>2, <2>1
  <2>2. CASE c # b
    <3>1. PICK w \in alive : vec[w].cap > 0 /\ vec[w].ptr = c
      BY <2>2 DEF BufInv, MemorySound, NoLeak
    <3> QED
      BY <1>1, <3>1 DEF BufInv, TypeOK
  <2> QED
    BY <2>1, <2>2
<1>6. Initialised'
  <2> SUFFICES ASSUME NEW u \in Vecs, NEW i \in 1..vec'[u].len
               PROVE  cells'[vec'[u].ptr][i] \in Vals
    BY DEF Initialised
  <2>1. CASE u = v
    BY <1>2, <2>1
  <2>2. CASE u # v
    BY <1>1, <1>3, <2>2 DEF BufInv, MemorySound, Initialised, TypeOK
  <2> QED
    BY <2>1, <2>2
<1> QED
  BY <1>4, <1>5, <1>6 DEF MemorySound

\* What one vector writes in its own memory no other vector sees.
LEMMA OwnWrites ==
    ASSUME BufInv, NEW v \in Vecs, v \in alive, NEW len \in 0..MaxLen, len <= vec[v].cap,
           vec' = [vec EXCEPT ![v] = [ptr |-> vec[v].ptr, cap |-> vec[v].cap, len |-> len]],
           \A c \in Blocks \cup {Dangling} : c # vec[v].ptr => cells'[c] = cells[c],
           \A i \in 1..len : cells'[vec[v].ptr][i] \in Vals,
           UNCHANGED <<alive, heap, layout>>
    PROVE  MemorySound'
<1>1. \A w \in Vecs : w # v => vec'[w] = vec[w]
  BY DEF BufInv, TypeOK
<1>2. vec'[v] = [ptr |-> vec[v].ptr, cap |-> vec[v].cap, len |-> len]
  BY DEF BufInv, TypeOK
<1>3. \A w \in Vecs : vec'[w].ptr = vec[w].ptr /\ vec'[w].cap = vec[w].cap
  BY <1>1, <1>2
<1>4. OwnsBuffer'
  <2> SUFFICES ASSUME NEW u \in Vecs
               PROVE  /\ vec'[u].len <= vec'[u].cap
                      /\ vec'[u].cap = 0 => vec'[u] = Empty
                      /\ vec'[u].cap > 0 => /\ u \in alive'
                                            /\ vec'[u].ptr \in heap'
                                            /\ layout'[vec'[u].ptr] = vec'[u].cap
                      /\ \A w \in Vecs : vec'[u].cap > 0 /\ u # w => vec'[u].ptr # vec'[w].ptr
    BY DEF OwnsBuffer, Empty
  <2>1. /\ vec[u].len <= vec[u].cap
        /\ vec[u].cap = 0 => vec[u] = Empty
        /\ vec[u].cap > 0 => /\ u \in alive
                             /\ vec[u].ptr \in heap
                             /\ layout[vec[u].ptr] = vec[u].cap
        /\ \A w \in Vecs : vec[u].cap > 0 /\ u # w => vec[u].ptr # vec[w].ptr
    BY DEF BufInv, MemorySound, OwnsBuffer
  <2>2. vec'[u].len <= vec'[u].cap
    BY <1>1, <1>2, <2>1
  <2>3. vec'[u].cap = 0 => vec'[u] = Empty
    <3>1. CASE u = v
      BY <1>2, <2>1, <3>1 DEF Empty
    <3>2. CASE u # v
      BY <1>1, <2>1, <3>2
    <3> QED
      BY <3>1, <3>2
  <2> QED
    BY <1>3, <2>1, <2>2, <2>3
<1>5. NoLeak'
  BY <1>3 DEF NoLeak, BufInv, MemorySound, TypeOK
<1>6. Initialised'
  <2> SUFFICES ASSUME NEW u \in Vecs, NEW i \in 1..vec'[u].len
               PROVE  cells'[vec'[u].ptr][i] \in Vals
    BY DEF Initialised
  <2>1. CASE u = v
    BY <1>2, <2>1
  <2>2. CASE u # v
    <3>1. vec'[u] = vec[u] /\ vec[u].cap > 0 /\ vec[u].ptr \in Blocks \cup {Dangling}
      BY <1>1, <2>2 DEF BufInv, MemorySound, OwnsBuffer, TypeOK, Caps
    <3>2. vec[u].ptr # vec[v].ptr
      BY <2>2, <3>1 DEF BufInv, MemorySound, OwnsBuffer
    <3> QED
      BY <3>1, <3>2 DEF BufInv, MemorySound, Initialised
  <2> QED
    BY <2>1, <2>2
<1> QED
  BY <1>4, <1>5, <1>6 DEF MemorySound

\* push into a full buffer: the elements move to a larger one, which nobody
\* else has, and the old one is free.
LEMMA GrowStep ==
    ASSUME BufInv, NEW v \in Vecs, NEW x \in Vals, NEW b \in Blocks,
           push_shared(v, x, b), full(v)
    PROVE  MemorySound'
<1> DEFINE old == vec[v].ptr
           len == vec[v].len
           cap == new_size(v)
           data == [cells[old] EXCEPT ![len + 1] = x]
<1>1. /\ v \in alive /\ len \in 0..MaxLen /\ len < MaxLen /\ MaxLen \in Nat
      /\ b \notin heap \/ b = old
      /\ old \in Blocks \cup {Dangling}
      /\ cap \in Nat /\ cap > len
  BY RawVecAssumption, NewSize DEF BufInv, TypeOK, push_shared
<1>2. /\ heap' = (heap \ {old}) \cup {b}
      /\ layout' = [layout EXCEPT ![b] = cap]
      /\ cells' = [cells EXCEPT ![old] = Blank, ![b] = data]
      /\ vec' = [vec EXCEPT ![v] = [ptr |-> b, cap |-> cap, len |-> len + 1]]
      /\ alive' = alive
  BY DEF push_shared, Grown
<1>3. \A w \in Vecs : w # v => vec'[w] = vec[w]
  BY <1>2 DEF BufInv, TypeOK
<1>4. vec'[v] = [ptr |-> b, cap |-> cap, len |-> len + 1]
  BY <1>2 DEF BufInv, TypeOK
<1> HIDE DEF cap
<1>5. \A w \in Vecs : w # v => vec[w].ptr # b /\ (vec[w].cap > 0 => vec[w].ptr # old)
  <2> SUFFICES ASSUME NEW w \in Vecs, w # v
               PROVE  vec[w].ptr # b /\ (vec[w].cap > 0 => vec[w].ptr # old)
    OBVIOUS
  <2>1. CASE vec[w].cap = 0
    BY <2>1, RawVecAssumption DEF BufInv, MemorySound, OwnsBuffer, Empty
  <2>2. CASE vec[w].cap # 0
    BY <1>1, <2>2 DEF BufInv, MemorySound, OwnsBuffer, TypeOK, Caps
  <2> QED
    BY <2>1, <2>2
<1>6. \A c \in Blocks \cup {Dangling} : c # old /\ c # b => cells'[c] = cells[c]
  BY <1>2 DEF BufInv, TypeOK
<1>7. OwnsBuffer'
  <2> SUFFICES ASSUME NEW u \in Vecs
               PROVE  /\ vec'[u].len <= vec'[u].cap
                      /\ vec'[u].cap = 0 => vec'[u] = Empty
                      /\ vec'[u].cap > 0 => /\ u \in alive'
                                            /\ vec'[u].ptr \in heap'
                                            /\ layout'[vec'[u].ptr] = vec'[u].cap
                      /\ \A w \in Vecs : vec'[u].cap > 0 /\ u # w => vec'[u].ptr # vec'[w].ptr
    BY DEF OwnsBuffer, Empty
  <2>1. CASE u = v
    BY <1>1, <1>2, <1>3, <1>4, <1>5, <2>1 DEF BufInv, TypeOK
  <2>2. CASE u # v
    <3>1. vec'[u] = vec[u] /\ vec[u].ptr # b /\ (vec[u].cap > 0 => vec[u].ptr # old)
      BY <1>3, <1>5, <2>2
    <3>2. /\ vec[u].len <= vec[u].cap
          /\ vec[u].cap = 0 => vec[u] = Empty
          /\ vec[u].cap > 0 => /\ u \in alive
                               /\ vec[u].ptr \in heap
                               /\ layout[vec[u].ptr] = vec[u].cap
          /\ \A w \in Vecs : vec[u].cap > 0 /\ u # w => vec[u].ptr # vec[w].ptr
      BY DEF BufInv, MemorySound, OwnsBuffer
    <3>3. vec[u].ptr \in heap => layout'[vec[u].ptr] = layout[vec[u].ptr]
      BY <1>2, <3>1 DEF BufInv, TypeOK
    <3>4. \A w \in Vecs : vec[u].cap > 0 /\ u # w => vec[u].ptr # vec'[w].ptr
      BY <1>3, <1>4, <3>1, <3>2
    <3> QED
      BY <1>2, <3>1, <3>2, <3>3, <3>4
  <2> QED
    BY <2>1, <2>2
<1>8. NoLeak'
  <2> SUFFICES ASSUME NEW c \in heap'
               PROVE  \E w \in alive' : vec'[w].cap > 0 /\ vec'[w].ptr = c
    BY DEF NoLeak
  <2>1. CASE c = b
    BY <1>1, <1>2, <1>4, <2>1
  <2>2. CASE c # b
    <3>1. c \in heap /\ c # old
      BY <1>2, <2>2
    <3>2. PICK w \in alive : vec[w].cap > 0 /\ vec[w].ptr = c
      BY <3>1 DEF BufInv, MemorySound, NoLeak
    <3> QED
      BY <1>2, <1>3, <3>1, <3>2 DEF BufInv, TypeOK
  <2> QED
    BY <2>1, <2>2
<1>9. Initialised'
  <2> SUFFICES ASSUME NEW u \in Vecs, NEW i \in 1..vec'[u].len
               PROVE  cells'[vec'[u].ptr][i] \in Vals
    BY DEF Initialised
  <2>1. CASE u = v
    <3>1. cells'[b] = data
      BY <1>2 DEF BufInv, TypeOK
    <3>2. i \in 1..(len + 1) /\ vec'[u].ptr = b
      BY <1>4, <2>1
    <3>3. CASE i = len + 1
      BY <1>1, <3>1, <3>2, <3>3 DEF BufInv, TypeOK
    <3>4. CASE i # len + 1
      <4>1. i \in 1..len /\ data[i] = cells[old][i]
        BY <1>1, <3>2, <3>4 DEF BufInv, TypeOK
      <4> QED
        BY <3>1, <3>2, <4>1 DEF BufInv, MemorySound, Initialised
    <3> QED
      BY <3>3, <3>4
  <2>2. CASE u # v
    <3>1. vec'[u] = vec[u] /\ vec[u].cap > 0 /\ vec[u].ptr \in Blocks \cup {Dangling}
      BY <1>3, <2>2 DEF BufInv, MemorySound, OwnsBuffer, TypeOK, Caps
    <3>2. vec[u].ptr # old /\ vec[u].ptr # b
      BY <1>5, <2>2, <3>1
    <3> QED
      BY <1>6, <3>1, <3>2 DEF BufInv, MemorySound, Initialised
  <2> QED
    BY <2>1, <2>2
<1> QED
  BY <1>7, <1>8, <1>9 DEF MemorySound

\* Consuming a vector frees its block and no other.
LEMMA ConsumeStep ==
    ASSUME BufInv, NEW v \in Vecs, NEW r, Consume(v, r)
    PROVE  MemorySound'
<1> DEFINE old == vec[v].ptr
<1>1. /\ alive' = alive \ {v} /\ layout' = layout
      /\ heap' = heap \ {old}
      /\ vec' = [vec EXCEPT ![v] = Empty]
      /\ cells' = [cells EXCEPT ![old] = Blank]
  <2>1. vec[v].cap = 0 => old \notin heap
    BY RawVecAssumption DEF BufInv, MemorySound, OwnsBuffer, Empty, TypeOK
  <2>2. heap' = IF vec[v].cap = 0 THEN heap ELSE heap \ {old}
    BY DEF Consume
  <2>3. heap' = heap \ {old}
    BY <2>1, <2>2
  <2> QED
    BY <2>3 DEF Consume
<1>2. \A w \in Vecs : w # v => vec'[w] = vec[w]
  BY <1>1 DEF BufInv, TypeOK
<1>3. vec'[v] = Empty /\ Empty.cap = 0 /\ Empty.len = 0 /\ Empty.ptr = Dangling
  BY <1>1 DEF BufInv, TypeOK, Empty
<1>4. \A c \in Blocks \cup {Dangling} : c # old => cells'[c] = cells[c]
  BY <1>1 DEF BufInv, TypeOK
<1>5. \A w \in Vecs : w # v /\ vec[w].cap > 0 => vec[w].ptr # old
  BY DEF BufInv, MemorySound, OwnsBuffer
<1>6. OwnsBuffer'
  <2> SUFFICES ASSUME NEW u \in Vecs
               PROVE  /\ vec'[u].len <= vec'[u].cap
                      /\ vec'[u].cap = 0 => vec'[u] = Empty
                      /\ vec'[u].cap > 0 => /\ u \in alive'
                                            /\ vec'[u].ptr \in heap'
                                            /\ layout'[vec'[u].ptr] = vec'[u].cap
                      /\ \A w \in Vecs : vec'[u].cap > 0 /\ u # w => vec'[u].ptr # vec'[w].ptr
    BY DEF OwnsBuffer, Empty
  <2>1. CASE u = v
    BY <1>3, <2>1
  <2>2. CASE u # v
    <3>1. vec'[u] = vec[u] /\ (vec[u].cap > 0 => vec[u].ptr # old)
      BY <1>2, <1>5, <2>2
    <3>2. /\ vec[u].len <= vec[u].cap
          /\ vec[u].cap = 0 => vec[u] = Empty
          /\ vec[u].cap > 0 => /\ u \in alive
                               /\ vec[u].ptr \in heap
                               /\ layout[vec[u].ptr] = vec[u].cap
          /\ \A w \in Vecs : vec[u].cap > 0 /\ u # w => vec[u].ptr # vec[w].ptr
      BY DEF BufInv, MemorySound, OwnsBuffer
    <3>3. \A w \in Vecs : vec[u].cap > 0 /\ u # w => vec[u].ptr # vec'[w].ptr
      <4> SUFFICES ASSUME NEW w \in Vecs, vec[u].cap > 0, u # w
                   PROVE  vec[u].ptr # vec'[w].ptr
        OBVIOUS
      <4>1. vec[u].ptr # Dangling
        BY <3>2, RawVecAssumption DEF BufInv, TypeOK
      <4> QED
        BY <1>2, <1>3, <3>2, <4>1
    <3> QED
      BY <1>1, <2>2, <3>1, <3>2, <3>3
  <2> QED
    BY <2>1, <2>2
<1>7. NoLeak'
  <2> SUFFICES ASSUME NEW c \in heap'
               PROVE  \E w \in alive' : vec'[w].cap > 0 /\ vec'[w].ptr = c
    BY DEF NoLeak
  <2>1. PICK w \in alive : vec[w].cap > 0 /\ vec[w].ptr = c
    BY <1>1 DEF BufInv, MemorySound, NoLeak
  <2>2. w # v
    BY <1>1, <2>1
  <2> QED
    BY <1>1, <1>2, <2>1, <2>2 DEF BufInv, TypeOK
<1>8. Initialised'
  <2> SUFFICES ASSUME NEW u \in Vecs, NEW i \in 1..vec'[u].len
               PROVE  cells'[vec'[u].ptr][i] \in Vals
    BY DEF Initialised
  <2>1. u # v
    BY <1>3
  <2>2. vec'[u] = vec[u] /\ vec[u].cap > 0 /\ vec[u].ptr \in Blocks \cup {Dangling}
    BY <1>2, <2>1 DEF BufInv, MemorySound, OwnsBuffer, TypeOK, Caps
  <2>3. cells'[vec[u].ptr] = cells[vec[u].ptr]
    BY <1>4, <1>5, <2>1, <2>2
  <2> QED
    BY <2>2, <2>3 DEF BufInv, MemorySound, Initialised
<1> QED
  BY <1>6, <1>7, <1>8 DEF MemorySound

\* Writing an element over an element, wherever it is, changes no owner.
LEMMA ElementWrite ==
    ASSUME BufInv, TypeOK', NEW x \in Vals,
           \A c \in Blocks \cup {Dangling}, i \in 1..MaxLen :
               cells'[c][i] = cells[c][i] \/ cells'[c][i] = x,
           UNCHANGED <<alive, vec, heap, layout>>
    PROVE  MemorySound'
<1>1. OwnsBuffer' /\ NoLeak'
  BY DEF BufInv, MemorySound, OwnsBuffer, NoLeak
<1>2. Initialised'
  <2> SUFFICES ASSUME NEW u \in Vecs, NEW i \in 1..vec[u].len
               PROVE  cells'[vec[u].ptr][i] \in Vals
    BY DEF Initialised
  <2>1. vec[u].ptr \in Blocks \cup {Dangling} /\ i \in 1..MaxLen
    BY RawVecAssumption DEF BufInv, TypeOK
  <2>2. cells[vec[u].ptr][i] \in Vals
    BY DEF BufInv, MemorySound, Initialised
  <2> QED
    BY <2>1, <2>2
<1> QED
  BY <1>1, <1>2 DEF MemorySound

LEMMA BufferStep ==
    ASSUME BufInv, [Next]_rvvars
    PROVE  BufInv'
<1>t. TypeOK /\ TypeOK'
  BY TypeStep DEF BufInv
<1>m. MaxLen \in Nat
  BY RawVecAssumption
<1> SUFFICES MemorySound'
  BY <1>t DEF BufInv
<1>0. CASE UNCHANGED <<alive, vec, heap, layout, cells>>
  BY <1>0 DEF BufInv, MemorySound, OwnsBuffer, NoLeak, Initialised
<1>1. ASSUME NEW v \in Vecs, NEW b \in Blocks, NEW cap \in 0..MaxLen, with_cap(v, cap, b)
      PROVE  MemorySound'
  <2>1. CASE cap = 0
    BY <1>1, <2>1, NewEmpty DEF with_cap
  <2>2. CASE cap # 0
    <3>1. cap \in Nat \ {0} /\ 0 \in 0..MaxLen /\ 0 <= cap
      BY <1>m, <2>2
    <3> QED
      BY <1>1, <2>2, <3>1, NewBuffer DEF with_cap
  <2> QED
    BY <2>1, <2>2
<1>2. ASSUME NEW v \in Vecs, NEW b \in Blocks, NEW n \in 0..MaxLen, NEW cap \in 0..MaxLen,
             NEW s \in [1..n -> Vals], from_vec(v, s, cap, b)
      PROVE  MemorySound'
  <2>1. Len(s) = n
    BY LenOfFunction, <1>m
  <2>2. \A c \in Blocks \cup {Dangling} : c # b => cells'[c] = cells[c]
    BY <1>2, <1>t DEF from_vec, TypeOK
  <2>3. \A i \in 1..n : cells'[b][i] \in Vals
    BY <1>2, <1>t, <1>m, <2>1 DEF from_vec, TypeOK
  <2>4. cap \in Nat \ {0} /\ n <= cap
    BY <1>2, <1>m, <2>1 DEF from_vec
  <2> QED
    BY <1>2, <2>1, <2>2, <2>3, <2>4, NewBuffer DEF from_vec
<1>3. ASSUME NEW v \in Vecs, NEW b \in Blocks, NEW x \in Vals, push_shared(v, x, b)
      PROVE  MemorySound'
  <2>1. CASE full(v)
    BY <1>3, <2>1, GrowStep
  <2>2. CASE ~ full(v)
    <3> DEFINE len == vec[v].len
               data == [cells[vec[v].ptr] EXCEPT ![len + 1] = x]
    <3>1. /\ vec' = [vec EXCEPT ![v] = [ptr |-> vec[v].ptr, cap |-> vec[v].cap, len |-> len + 1]]
          /\ cells' = [cells EXCEPT ![vec[v].ptr] = Blank, ![vec[v].ptr] = data]
          /\ UNCHANGED <<alive, heap, layout>>
      BY <1>3, <2>2 DEF push_shared, Grown
    <3>2. v \in alive /\ len + 1 \in 0..MaxLen /\ len + 1 <= vec[v].cap
      BY <1>3, <1>t, <1>m, <2>2 DEF push_shared, full, TypeOK, BufInv, MemorySound, OwnsBuffer, Caps
    <3>3. \A c \in Blocks \cup {Dangling} : c # vec[v].ptr => cells'[c] = cells[c]
      BY <3>1, <1>t DEF TypeOK
    <3>4. cells'[vec[v].ptr] = data
      BY <3>1, <1>t DEF TypeOK
    <3>5. \A i \in 1..(len + 1) : data[i] \in Vals
      BY <1>t, <1>m, <3>2 DEF TypeOK, BufInv, MemorySound, Initialised
    <3> HIDE DEF data
    <3> QED
      BY <3>1, <3>2, <3>3, <3>4, <3>5, OwnWrites
  <2> QED
    BY <2>1, <2>2
<1>4. ASSUME NEW v \in Vecs, NEW b \in Blocks, NEW w \in Vecs, clone(v, w, b)
      PROVE  MemorySound'
  <2>1. CASE vec[v].len = 0
    BY <1>4, <2>1, NewEmpty DEF clone
  <2>2. CASE vec[v].len # 0
    <3>1. \A c \in Blocks \cup {Dangling} : c # b => cells'[c] = cells[c]
      BY <1>4, <1>t, <2>2 DEF clone, TypeOK
    <3>2. vec[v].len \in Nat \ {0} /\ vec[v].len \in 0..MaxLen /\ vec[v].len <= vec[v].len
      BY <1>t, <2>2 DEF TypeOK
    <3>3. cells' = [cells EXCEPT ![b] = [i \in 1..MaxLen |-> IF i <= vec[v].len THEN cells[vec[v].ptr][i]
                                                             ELSE NoVal]]
      BY <1>4, <2>2 DEF clone
    <3>4. \A i \in 1..vec[v].len : cells'[b][i] = cells[vec[v].ptr][i]
      BY <1>t, <1>m, <3>2, <3>3 DEF TypeOK
    <3>5. \A i \in 1..vec[v].len : cells'[b][i] \in Vals
      BY <3>4 DEF BufInv, MemorySound, Initialised
    <3> QED
      BY <1>4, <2>2, <3>1, <3>2, <3>5, NewBuffer DEF clone
  <2> QED
    BY <2>1, <2>2
<1>5. ASSUME NEW v \in Vecs, pop(v)
      PROVE  MemorySound'
  <2>0. CASE vec[v].len = 0
    BY <1>0, <1>5, <2>0 DEF pop
  <2>a. CASE vec[v].len > 0
    <3>0. vec[v].len \in 0..MaxLen /\ vec[v].cap \in Nat /\ vec[v].len <= vec[v].cap
      BY <1>t DEF TypeOK, BufInv, MemorySound, OwnsBuffer, Caps
    <3>1. vec' = [vec EXCEPT ![v] = [ptr |-> vec[v].ptr, cap |-> vec[v].cap, len |-> vec[v].len - 1]]
      <4>1. vec' = [vec EXCEPT ![v].len = vec[v].len - 1]
        BY <1>5, <2>a, <3>0 DEF pop
      <4> QED
        BY <1>t, <4>1, PopShortens DEF Shortened
    <3>2. vec[v].len - 1 \in 0..MaxLen /\ vec[v].len - 1 <= vec[v].cap
      BY <2>a, <3>0, <1>m
    <3>3. \A i \in 1..(vec[v].len - 1) : cells[vec[v].ptr][i] \in Vals
      BY <3>0 DEF BufInv, MemorySound, Initialised
    <3> QED
      BY <1>5, <3>1, <3>2, <3>3, OwnWrites DEF pop
  <2> QED
    BY <1>t, <2>0, <2>a DEF TypeOK
<1>6. ASSUME NEW v \in Vecs, drop(v) \/ into_iter(v)
      PROVE  MemorySound'
  BY <1>6, ConsumeStep DEF drop, into_iter
<1>6a. ASSUME NEW v \in Vecs, NEW i \in 1..(MaxLen + 1), OutOfBounds(v, i)
       PROVE  MemorySound'
  BY <1>0, <1>6a DEF OutOfBounds
<1>7. ASSUME NEW v \in Vecs, iter_mut_shared(v)
      PROVE  MemorySound'
  BY <1>0, <1>7 DEF iter_mut_shared
<1>8. ASSUME NEW v \in Vecs, NEW i \in 1..(MaxLen + 1), get(v, i)
      PROVE  MemorySound'
  BY <1>0, <1>8 DEF get
<1>9. ASSUME NEW v \in Vecs, NEW i \in 1..(MaxLen + 1), remove(v, i)
      PROVE  MemorySound'
  <2> DEFINE c == cells[vec[v].ptr]
             len == vec[v].len
             shifted == [j \in 1..MaxLen |-> IF j >= i /\ j < len THEN c[j + 1] ELSE c[j]]
  <2>1. vec' = [vec EXCEPT ![v] = [ptr |-> vec[v].ptr, cap |-> vec[v].cap, len |-> len - 1]]
    BY <1>9, <1>t, PopShortens DEF remove, Shortened
  <2>2. len \in Nat /\ len - 1 \in 0..MaxLen /\ len - 1 <= vec[v].cap
    BY <1>9, <1>t, <1>m DEF remove, TypeOK, BufInv, MemorySound, OwnsBuffer, Caps
  <2>3. cells' = [cells EXCEPT ![vec[v].ptr] = shifted]
    BY <1>9 DEF remove
  <2>4. \A j \in 1..(len - 1) : shifted[j] \in Vals
    BY <1>t, <1>m, <2>2 DEF TypeOK, BufInv, MemorySound, Initialised
  <2> HIDE DEF shifted
  <2>5. cells'[vec[v].ptr] = shifted
    BY <1>t, <2>3 DEF TypeOK
  <2>6. \A d \in Blocks \cup {Dangling} : d # vec[v].ptr => cells'[d] = cells[d]
    BY <1>t, <2>3 DEF TypeOK
  <2> QED
    BY <1>9, <2>1, <2>2, <2>4, <2>5, <2>6, OwnWrites DEF remove
<1>10. ASSUME NEW v \in Vecs, NEW i \in 1..MaxLen, NEW x \in Vals, index_mut(v, i, x)
       PROVE  MemorySound'
  <2>1. \A c \in Blocks \cup {Dangling}, j \in 1..MaxLen :
            cells'[c][j] = cells[c][j] \/ cells'[c][j] = x
    BY <1>10, <1>t DEF index_mut, TypeOK
  <2> QED
    BY <1>10, <1>t, <2>1, ElementWrite DEF index_mut
<1>11. ASSUME NEW x \in Vals, iter_next(x)
       PROVE  MemorySound'
  <2>1. \A c \in Blocks \cup {Dangling}, j \in 1..MaxLen :
            cells'[c][j] = cells[c][j] \/ cells'[c][j] = x
    BY <1>11, <1>t DEF iter_next, TypeOK
  <2> QED
    BY <1>11, <1>t, <2>1, ElementWrite DEF iter_next
<1> QED
  BY <1>0, <1>1, <1>2, <1>3, <1>4, <1>5, <1>6, <1>6a, <1>7, <1>8, <1>9, <1>10, <1>11 DEF Next, rvvars

LEMMA BufferInit == Init => BufInv
<1> SUFFICES ASSUME Init
             PROVE  BufInv
  OBVIOUS
<1>m. MaxLen \in Nat
  BY RawVecAssumption
<1>1. TypeOK
  <2>1. NoIter \in Iterators
    BY <1>m DEF NoIter, Iterators
  <2>2. Empty \in [ptr : Blocks \cup {Dangling}, cap : Caps, len : 0..MaxLen]
    BY <1>m DEF Empty, Caps
  <2>3. Blank \in [1..MaxLen -> Cell]
    BY DEF Blank, Cell
  <2> QED
    BY <2>1, <2>2, <2>3 DEF Init, TypeOK, Caps, Cell, Iterators
<1>2. MemorySound
  BY DEF Init, MemorySound, OwnsBuffer, NoLeak, Initialised, Empty
<1> QED
  BY <1>1, <1>2 DEF BufInv

-----------------------------------------------------------------------------
(* The iterator.  It stays inside the buffer of its vector if that vector  *)
(* does not grow under it, whatever is done to the others.                 *)

MemInv == BufInv /\ IterLive

\* A step that leaves the vector of the iterator, and its block, as they are.
LEMMA IterKept ==
    ASSUME MemInv, iter' = iter,
           iter.on => /\ iter.of \in alive'
                      /\ vec'[iter.of].ptr = vec[iter.of].ptr
                      /\ vec'[iter.of].cap = vec[iter.of].cap
                      /\ vec'[iter.of].len >= vec[iter.of].len
                      /\ vec'[iter.of].len \in Nat
                      /\ iter.blk \in heap'
    PROVE  IterLive'
<1>1. iter.on => vec[iter.of].len \in Nat /\ iter.end \in Nat
  BY DEF MemInv, IterLive, BufInv, TypeOK
<1> QED
  BY <1>1 DEF MemInv, IterLive

\* The others own other blocks.
LEMMA IterOther ==
    ASSUME MemInv, NEW v \in Vecs, NEW r, vec' = [vec EXCEPT ![v] = r],
           iter' = iter, Free(v), alive \ {v} \subseteq alive',
           vec[v].cap > 0 => heap \ {vec[v].ptr} \subseteq heap',
           ~ (vec[v].cap > 0) => heap \subseteq heap'
    PROVE  IterLive'
<1> SUFFICES ASSUME iter.on
             PROVE  /\ iter.of \in alive' /\ vec'[iter.of] = vec[iter.of] /\ iter.blk \in heap'
                    /\ vec[iter.of].len \in Nat
  BY IterKept
<1>1. iter.of \in alive /\ iter.of # v /\ iter.of \in Vecs
  BY DEF MemInv, IterLive, BufInv, TypeOK, Free
<1>2. vec'[iter.of] = vec[iter.of] /\ vec[iter.of].len \in Nat
  BY <1>1 DEF MemInv, BufInv, TypeOK
<1>3. iter.blk \in heap /\ vec[iter.of].ptr = iter.blk /\ vec[iter.of].cap > 0
  BY DEF MemInv, IterLive
<1>4. iter.blk # vec[v].ptr
  BY <1>1, <1>3 DEF MemInv, BufInv, MemorySound, OwnsBuffer
<1> QED
  BY <1>1, <1>2, <1>3, <1>4

LEMMA MemoryStep ==
    ASSUME ~ SharedPush, MemInv, [Next]_rvvars
    PROVE  MemInv'
<1>t. BufInv /\ BufInv' /\ IterLive /\ TypeOK /\ TypeOK'
  BY BufferStep DEF MemInv, BufInv
<1> SUFFICES IterLive'
  BY <1>t DEF MemInv
<1>m. MaxLen \in Nat
  BY RawVecAssumption
<1>0. CASE UNCHANGED <<alive, vec, heap, iter>>
  BY <1>0, <1>t DEF IterLive
<1>n. ASSUME NEW v \in Vecs, v \notin alive PROVE Free(v) /\ ~ (vec[v].cap > 0)
  BY <1>n, <1>t DEF Free, IterLive, BufInv, MemorySound, OwnsBuffer
<1>1. ASSUME NEW v \in Vecs, NEW b \in Blocks, NEW cap \in 0..MaxLen, with_cap(v, cap, b)
      PROVE  IterLive'
  <2>1. CASE cap = 0
    BY <1>1, <1>n, <2>1, IterOther DEF with_cap
  <2>2. CASE cap # 0
    BY <1>1, <1>n, <2>2, IterOther DEF with_cap
  <2> QED
    BY <2>1, <2>2
<1>2. ASSUME NEW v \in Vecs, NEW b \in Blocks, NEW n \in 0..MaxLen, NEW cap \in 0..MaxLen,
             NEW s \in [1..n -> Vals], from_vec(v, s, cap, b)
      PROVE  IterLive'
  BY <1>2, <1>n, IterOther DEF from_vec
<1>3. ASSUME NEW v \in Vecs, NEW b \in Blocks, NEW x \in Vals, push_shared(v, x, b)
      PROVE  IterLive'
  <2> DEFINE r == [ptr |-> Grown(v, b).ptr, cap |-> Grown(v, b).cap, len |-> vec[v].len + 1]
  <2>1. vec' = [vec EXCEPT ![v] = r] /\ iter' = iter /\ alive' = alive /\ v \in alive
    BY <1>3 DEF push_shared
  <2>2. CASE full(v)
    <3>1. Free(v) /\ heap' = (heap \ {vec[v].ptr}) \cup {b}
      BY <1>3, <2>2 DEF push_shared
    <3>2. ~ (vec[v].cap > 0) => heap \subseteq heap'
      <4>1. ~ (vec[v].cap > 0) => vec[v].ptr = Dangling
        BY <1>t DEF BufInv, MemorySound, OwnsBuffer, TypeOK, Caps, Empty
      <4> QED
        BY <1>t, <3>1, <4>1, RawVecAssumption DEF TypeOK
    <3> HIDE DEF r
    <3> QED
      BY <2>1, <3>1, <3>2, IterOther
  <2>3. CASE ~ full(v)
    <3>1. r = [ptr |-> vec[v].ptr, cap |-> vec[v].cap, len |-> vec[v].len + 1] /\ heap' = heap
      BY <1>3, <2>3 DEF push_shared, Grown
    <3>2. ASSUME iter.on
          PROVE  /\ iter.of \in alive' /\ vec'[iter.of].ptr = vec[iter.of].ptr
                 /\ vec'[iter.of].cap = vec[iter.of].cap
                 /\ vec'[iter.of].len >= vec[iter.of].len
                 /\ vec'[iter.of].len \in Nat
                 /\ iter.blk \in heap'
      <4>1. iter.of \in alive /\ iter.of \in Vecs /\ vec[iter.of].len \in Nat
        BY <1>t, <3>2 DEF IterLive, TypeOK
      <4>2. CASE iter.of = v
        BY <1>t, <2>1, <3>1, <3>2, <4>1, <4>2 DEF IterLive, TypeOK
      <4>3. CASE iter.of # v
        <5>1. vec'[iter.of] = vec[iter.of]
          BY <1>t, <2>1, <4>1, <4>3 DEF TypeOK
        <5> QED
          BY <1>t, <2>1, <3>1, <3>2, <4>1, <5>1 DEF IterLive
      <4> QED
        BY <4>2, <4>3
    <3> QED
      BY <2>1, <3>2, IterKept
  <2> QED
    BY <2>2, <2>3
<1>4. ASSUME NEW v \in Vecs, NEW b \in Blocks, NEW w \in Vecs, clone(v, w, b)
      PROVE  IterLive'
  <2>1. CASE vec[v].len = 0
    BY <1>4, <1>n, <2>1, IterOther DEF clone
  <2>2. CASE vec[v].len # 0
    BY <1>4, <1>n, <2>2, IterOther DEF clone
  <2> QED
    BY <2>1, <2>2
<1>5. ASSUME NEW v \in Vecs, pop(v)
      PROVE  IterLive'
  <2>1. CASE vec[v].len = 0
    BY <1>0, <1>5, <2>1 DEF pop
  <2>2. CASE vec[v].len # 0
    <3>1. vec' = [vec EXCEPT ![v] = Shortened(v)]
      BY <1>5, <1>t, <2>2, PopShortens DEF pop
    <3> QED
      BY <1>5, <3>1, IterOther DEF pop
  <2> QED
    BY <2>1, <2>2
<1>6. ASSUME NEW v \in Vecs, drop(v) \/ into_iter(v)
      PROVE  IterLive'
  <2>1. PICK r : Consume(v, r)
    BY <1>6 DEF drop, into_iter
  <2>2. vec[v].cap > 0 \/ vec[v].cap = 0
    BY <1>t DEF TypeOK, Caps
  <2>3. ~ (vec[v].cap > 0) => heap' = heap
    BY <2>1, <2>2 DEF Consume
  <2>4. vec[v].cap > 0 => heap' = heap \ {vec[v].ptr}
    BY <2>1 DEF Consume
  <2> QED
    BY <2>1, <2>3, <2>4, IterOther DEF Consume
<1>7. ASSUME NEW v \in Vecs, iter_mut_shared(v)
      PROVE  IterLive'
  <2>1. vec[v].len > 0 /\ vec[v].len \in Nat /\ vec[v].cap > 0 /\ vec[v].ptr \in heap /\ v \in alive
    BY <1>7, <1>t DEF iter_mut_shared, BufInv, MemorySound, OwnsBuffer, TypeOK, Caps
  <2> QED
    BY <1>7, <2>1 DEF iter_mut_shared, IterLive
<1>8. ASSUME NEW v \in Vecs, NEW i \in 1..(MaxLen + 1), get(v, i) \/ OutOfBounds(v, i)
      PROVE  IterLive'
  BY <1>8, <1>0 DEF get, OutOfBounds
<1>9. ASSUME NEW v \in Vecs, NEW i \in 1..(MaxLen + 1), remove(v, i)
      PROVE  IterLive'
  <2>1. vec' = [vec EXCEPT ![v] = Shortened(v)]
    BY <1>9, <1>t, PopShortens DEF remove
  <2> QED
    BY <1>9, <2>1, IterOther DEF remove
<1>10. ASSUME NEW v \in Vecs, NEW i \in 1..MaxLen, NEW x \in Vals, index_mut(v, i, x)
      PROVE  IterLive'
  BY <1>10, <1>0 DEF index_mut
<1>11. ASSUME NEW x \in Vals, iter_next(x)
      PROVE  IterLive'
  <2>1. CASE iter.pos < iter.end
    <3>1. iter' = [iter EXCEPT !.pos = @ + 1]
      BY <1>11, <2>1 DEF iter_next
    <3>2. /\ iter'.on = iter.on /\ iter'.of = iter.of /\ iter'.blk = iter.blk
          /\ iter'.end = iter.end /\ iter'.pos = iter.pos + 1
      BY <3>1, <1>t DEF TypeOK
    <3>3. iter.on /\ iter.pos + 1 <= iter.end
      BY <1>11, <1>t, <2>1 DEF iter_next, TypeOK
    <3> QED
      BY <1>11, <1>t, <3>2, <3>3 DEF iter_next, IterLive
  <2>2. CASE ~ (iter.pos < iter.end)
    BY <1>11, <2>2 DEF iter_next, NoIter, IterLive
  <2> QED
    BY <2>1, <2>2
<1> QED
  BY <1>0, <1>1, <1>2, <1>3, <1>4, <1>5, <1>6, <1>7, <1>8, <1>9, <1>10, <1>11 DEF Next, rvvars

LEMMA MemoryInit == Init => MemInv
<1>1. Init => IterLive
  BY DEF Init, IterLive, NoIter
<1> QED
  BY <1>1, BufferInit DEF MemInv

\* Type correctness of the vectors, the heap and the iterator.
THEOREM VecTypes == Spec => []TypeOK
<1>1. Init => TypeOK
  BY BufferInit DEF BufInv
<1>2. TypeOK /\ [Next]_rvvars => TypeOK'
  BY TypeStep
<1> QED
  BY <1>1, <1>2, PTL DEF Spec

\* Whatever is created, pushed, cloned, removed and consumed, in any order and
\* with any allocator, and even if a vector grows under an iterator: every
\* vector owns its buffer, every buffer has an owner, and no vector shows
\* memory that was never written.
THEOREM BuffersAreSound == Spec => []MemorySound
<1>1. BufInv /\ [Next]_rvvars => BufInv'
  BY BufferStep
<1>2. BufInv => MemorySound
  BY DEF BufInv
<1> QED
  BY <1>1, <1>2, BufferInit, PTL DEF Spec

\* If no vector grows while an iterator over it is alive, what the iterator
\* points to is never freed or moved under it and never past the end of its
\* vector, although other vectors are pushed to, grown, shortened and freed,
\* and its own is pushed to where it has room.
THEOREM IteratorsStayLive == ~ SharedPush => (Spec => []IterLive)
<1> SUFFICES ASSUME ~ SharedPush
             PROVE  Spec => []IterLive
  OBVIOUS
<1>1. MemInv /\ [Next]_rvvars => MemInv'
  BY MemoryStep
<1>2. MemInv => IterLive
  BY DEF MemInv
<1> QED
  BY <1>1, <1>2, MemoryInit, PTL DEF Spec

-----------------------------------------------------------------------------
(* RawVec implements VectorSpec *)

\* What the vector operations do to the first n cells of a buffer, as
\* operations on sequences.
Cells(f, n) == [i \in 1..n |-> f[i]]

\* The elements of a vector after a step.
After(v) == Cells(cells'[vec'[v].ptr], vec'[v].len)

LEMMA CellsSeq ==
    ASSUME NEW n \in Nat, NEW f, \A i \in 1..n : f[i] \in Vals
    PROVE  /\ Cells(f, n) \in Seq(Vals)
           /\ Len(Cells(f, n)) = n
           /\ \A i \in 1..n : Cells(f, n)[i] = f[i]
<1>1. Cells(f, n) \in [1..n -> Vals]
  BY DEF Cells
<1>2. Cells(f, n) \in Seq(Vals) /\ Len(Cells(f, n)) = n
  BY <1>1, LenOfFunction
<1> QED
  BY <1>2 DEF Cells

LEMMA CellsAppend ==
    ASSUME NEW n \in Nat, NEW f, NEW g, NEW x \in Vals,
           \A i \in 1..n : f[i] \in Vals /\ g[i] = f[i], g[n + 1] = x
    PROVE  Cells(g, n + 1) = Append(Cells(f, n), x)
<1>1. Cells(f, n) \in Seq(Vals) /\ Len(Cells(f, n)) = n /\ \A i \in 1..n : Cells(f, n)[i] = f[i]
  BY CellsSeq
<1>2. \A i \in 1..(n + 1) : g[i] \in Vals
  OBVIOUS
<1>3. /\ Cells(g, n + 1) \in Seq(Vals) /\ Len(Cells(g, n + 1)) = n + 1
      /\ \A i \in 1..(n + 1) : Cells(g, n + 1)[i] = g[i]
  BY <1>2, CellsSeq, n + 1 \in Nat
<1>4. /\ Append(Cells(f, n), x) \in Seq(Vals) /\ Len(Append(Cells(f, n), x)) = n + 1
      /\ \A i \in 1..n : Append(Cells(f, n), x)[i] = f[i]
      /\ Append(Cells(f, n), x)[n + 1] = x
  BY <1>1, AppendProperties
<1>5. \A i \in 1..(n + 1) : Cells(g, n + 1)[i] = Append(Cells(f, n), x)[i]
  BY <1>3, <1>4
<1> QED
  BY <1>3, <1>4, <1>5, SeqEqual

LEMMA CellsFront ==
    ASSUME NEW n \in Nat \ {0}, NEW f, \A i \in 1..n : f[i] \in Vals
    PROVE  Cells(f, n - 1) = VS!Front(Cells(f, n))
<1> DEFINE s == Cells(f, n)
<1>1. s \in Seq(Vals) /\ Len(s) = n /\ \A i \in 1..n : s[i] = f[i]
  BY CellsSeq
<1>2. /\ Cells(f, n - 1) \in Seq(Vals) /\ Len(Cells(f, n - 1)) = n - 1
      /\ \A i \in 1..(n - 1) : Cells(f, n - 1)[i] = f[i]
  BY CellsSeq, n - 1 \in Nat
<1> HIDE DEF s
<1>3. \A i \in 1..(n - 1) : s[i] \in Vals
  BY <1>1
<1>4. /\ SubSeq(s, 1, n - 1) \in Seq(Vals)
      /\ Len(SubSeq(s, 1, n - 1)) = n - 1
      /\ \A i \in 1..(n - 1) : SubSeq(s, 1, n - 1)[i] = s[i]
  BY <1>3, SubSeqProperties
<1>5. \A i \in 1..(n - 1) : Cells(f, n - 1)[i] = SubSeq(s, 1, n - 1)[i]
  BY <1>1, <1>2, <1>4
<1>6. Cells(f, n - 1) = SubSeq(s, 1, n - 1)
  BY <1>2, <1>4, <1>5, SeqEqual
<1> QED
  BY <1>1, <1>6 DEF VS!Front, s

LEMMA CellsRemove ==
    ASSUME NEW n \in Nat \ {0}, NEW k \in 1..n, NEW f, NEW g,
           \A i \in 1..n : f[i] \in Vals,
           \A i \in 1..(n - 1) : g[i] = IF i >= k THEN f[i + 1] ELSE f[i]
    PROVE  Cells(g, n - 1) = VS!RemoveAt(Cells(f, n), k)
<1> DEFINE s == Cells(f, n)
           l == SubSeq(s, 1, k - 1)
           r == SubSeq(s, k + 1, n)
<1>1. s \in Seq(Vals) /\ Len(s) = n /\ \A i \in 1..n : s[i] = f[i] /\ f[i] \in Vals
  BY CellsSeq
<1>2. \A i \in 1..(n - 1) : g[i] \in Vals
  BY <1>1
<1>3. /\ Cells(g, n - 1) \in Seq(Vals) /\ Len(Cells(g, n - 1)) = n - 1
      /\ \A i \in 1..(n - 1) : Cells(g, n - 1)[i] = g[i]
  BY <1>2, CellsSeq, n - 1 \in Nat
<1> HIDE DEF s
<1>4. l \in Seq(Vals) /\ Len(l) = k - 1 /\ \A i \in 1..(k - 1) : l[i] = s[i]
  <2>1. \A i \in 1..(k - 1) : s[i] \in Vals
    BY <1>1
  <2> QED
    BY <2>1, SubSeqProperties
<1>5. r \in Seq(Vals) /\ Len(r) = n - k /\ \A i \in 1..(n - k) : r[i] = s[k + i]
  <2>1. \A i \in (k + 1)..n : s[i] \in Vals
    BY <1>1
  <2>2. /\ r \in Seq(Vals)
        /\ Len(r) = IF k + 1 <= n THEN n - (k + 1) + 1 ELSE 0
        /\ \A i \in 1..(n - (k + 1) + 1) : r[i] = s[(k + 1) + i - 1]
    BY <2>1, SubSeqProperties
  <2> QED
    BY <2>2
<1> HIDE DEF l, r
<1>6. /\ l \o r \in Seq(Vals) /\ Len(l \o r) = n - 1
      /\ \A i \in 1..(n - 1) : (l \o r)[i] = IF i <= k - 1 THEN l[i] ELSE r[i - (k - 1)]
  <2>1. Len(l) + Len(r) = n - 1
    BY <1>4, <1>5
  <2>2. /\ l \o r \in Seq(Vals) /\ Len(l \o r) = Len(l) + Len(r)
        /\ \A i \in 1..(Len(l) + Len(r)) : (l \o r)[i] = IF i <= Len(l) THEN l[i] ELSE r[i - Len(l)]
    BY <1>4, <1>5, ConcatProperties, Zenon
  <2> QED
    BY <1>4, <2>1, <2>2
<1>7. \A i \in 1..(n - 1) : Cells(g, n - 1)[i] = (l \o r)[i]
  <2> SUFFICES ASSUME NEW i \in 1..(n - 1)
               PROVE  g[i] = (l \o r)[i]
    BY <1>3
  <2>1. CASE i < k
    <3>1. i \in 1..(k - 1) /\ i \in 1..n /\ i <= k - 1
      BY <2>1
    <3>2. (l \o r)[i] = l[i]
      BY <1>6, <3>1
    <3> QED
      BY <1>1, <1>4, <2>1, <3>1, <3>2
  <2>2. CASE ~ (i < k)
    <3>1. (l \o r)[i] = r[i - (k - 1)]
      BY <1>6, <2>2
    <3>2. i - (k - 1) \in 1..(n - k)
      BY <2>2
    <3>3. r[i - (k - 1)] = s[i + 1]
      BY <1>5, <3>2
    <3>4. i + 1 \in 1..n
      BY <2>2
    <3>5. g[i] = f[i + 1] /\ s[i + 1] = f[i + 1]
      BY <1>1, <2>2, <3>4
    <3> QED
      BY <3>1, <3>3, <3>5
  <2> QED
    BY <2>1, <2>2
<1>8. Cells(g, n - 1) = l \o r
  BY <1>3, <1>6, <1>7, SeqEqual
<1>9. VS!RemoveAt(s, k) = l \o r
  BY <1>1 DEF VS!RemoveAt, l, r
<1> QED
  BY <1>8, <1>9 DEF s

\* The elements of a vector are a sequence.
LEMMA SliceSeq ==
    ASSUME BufInv, NEW v \in Vecs
    PROVE  /\ slice(v) \in Seq(Vals)
           /\ Len(slice(v)) = vec[v].len
           /\ DOMAIN slice(v) = 1..vec[v].len
           /\ \A i \in 1..vec[v].len : slice(v)[i] = cells[vec[v].ptr][i]
           /\ elems[v] = slice(v)
<1>1. vec[v].len \in Nat
  BY DEF BufInv, TypeOK
<1>2. \A i \in 1..vec[v].len : cells[vec[v].ptr][i] \in Vals
  BY DEF BufInv, MemorySound, Initialised
<1>3. slice(v) \in [1..vec[v].len -> Vals]
  BY <1>2 DEF slice
<1>4. slice(v) \in Seq(Vals) /\ Len(slice(v)) = vec[v].len
  BY <1>1, <1>3, LenOfFunction
<1> QED
  BY <1>4 DEF slice, elems

\* A step that touches only the block of v, or blocks nobody has, leaves the
\* elements of all other vectors alone.
LEMMA OthersKeep ==
    ASSUME BufInv, NEW v \in Vecs, NEW r, vec' = [vec EXCEPT ![v] = r],
           \A c \in heap : c # vec[v].ptr => cells'[c] = cells[c]
    PROVE  elems' = [elems EXCEPT ![v] = After(v)]
<1>1. ASSUME NEW u \in Vecs, u # v
      PROVE  After(u) = slice(u)
  <2>1. vec'[u] = vec[u]
    BY <1>1 DEF BufInv, TypeOK
  <2>2. CASE vec[u].cap > 0
    BY <1>1, <2>1, <2>2 DEF After, Cells, slice, BufInv, MemorySound, OwnsBuffer
  <2>3. CASE ~ (vec[u].cap > 0)
    <3>1. vec[u].len = 0
      BY <2>3 DEF BufInv, TypeOK, MemorySound, OwnsBuffer, Empty, Caps
    <3> QED
      BY <2>1, <3>1 DEF After, Cells, slice
  <2> QED
    BY <2>2, <2>3
<1>2. elems' = [u \in Vecs |-> After(u)]
  BY DEF elems, slice, After, Cells
<1>3. elems = [u \in Vecs |-> slice(u)]
  BY DEF elems
<1> QED
  BY <1>1, <1>2, <1>3

\* Every step of RawVec is the step of VectorSpec of the same name; making
\* an iterator only forgets what the last operation returned, and a step of
\* the iterator is a write to the vector it was made from.
LEMMA StepSimulation ==
    ASSUME ~ SharedPush, MemInv, [Next]_rvvars
    PROVE  [VectorStep]_(VS!vsvars)
<1>b. BufInv /\ BufInv' /\ TypeOK /\ IterLive /\ TypeOK'
  BY BufferStep DEF MemInv, BufInv
<1>m. MaxLen \in Nat /\ Dangling \notin Blocks
  BY RawVecAssumption
<1>d. \A v \in Vecs : v \notin alive => vec[v].ptr \notin heap
  BY <1>b, <1>m DEF BufInv, MemorySound, OwnsBuffer, TypeOK, Caps, Empty
<1>c. \A v \in Vecs : /\ elems[v] = Cells(cells[vec[v].ptr], vec[v].len)
                      /\ DOMAIN elems[v] = 1..vec[v].len
                      /\ \A i \in 1..vec[v].len : elems[v][i] = cells[vec[v].ptr][i]
                      /\ \A i \in 1..vec[v].len : cells[vec[v].ptr][i] \in Vals
  BY <1>b DEF slice, elems, Cells, BufInv, MemorySound, Initialised
<1>0. CASE UNCHANGED rvvars
  BY <1>0 DEF rvvars, VS!vsvars, elems, slice
<1>1. ASSUME NEW v \in Vecs, NEW b \in Blocks, NEW cap \in 0..MaxLen, with_cap(v, cap, b)
      PROVE  VectorStep
  <2>0. PICK r \in {Empty, [ptr |-> b, cap |-> cap, len |-> 0]} : vec' = [vec EXCEPT ![v] = r]
    BY <1>1 DEF with_cap
  <2>1. vec' = [vec EXCEPT ![v] = r] /\ r.len = 0
    BY <2>0 DEF Empty
  <2>2. elems' = [elems EXCEPT ![v] = After(v)]
    BY <1>b, <1>1, <2>1, OthersKeep DEF with_cap
  <2>3. vec'[v].len = 0
    BY <1>b, <2>1 DEF TypeOK
  <2>4. After(v) = << >>
    BY <2>3 DEF After, Cells
  <2>5. << >> \in [1..0 -> Vals] /\ 0 \in 0..MaxLen
    BY <1>m
  <2>6. << >> \in Sequences0
    BY <2>5 DEF Sequences0
  <2>7. VS!Create(v, << >>)
    BY <1>1, <2>2, <2>4 DEF with_cap, VS!Create
  <2> QED
    BY <2>6, <2>7 DEF VectorStep
<1>2. ASSUME NEW v \in Vecs, NEW b \in Blocks, NEW n \in 0..MaxLen, NEW cap \in 0..MaxLen,
             NEW s \in [1..n -> Vals], from_vec(v, s, cap, b)
      PROVE  VectorStep
  <2>1. Len(s) = n
    BY LenOfFunction, <1>m
  <2>2. \A c \in heap : cells'[c] = cells[c]
    BY <1>b, <1>2 DEF from_vec, TypeOK
  <2>3. elems' = [elems EXCEPT ![v] = After(v)]
    BY <1>b, <1>2, <2>2, OthersKeep DEF from_vec
  <2>4. vec'[v].len = n /\ vec'[v].ptr = b
    BY <1>b, <1>2, <2>1 DEF from_vec, TypeOK
  <2>5. \A i \in 1..n : cells'[b][i] = s[i]
    BY <1>b, <1>2, <1>m, <2>1 DEF from_vec, TypeOK
  <2>6. After(v) = s
    BY <2>4, <2>5 DEF After, Cells
  <2>7. VS!Create(v, s)
    BY <1>2, <2>3, <2>6 DEF from_vec, VS!Create
  <2> QED
    BY <2>7 DEF VectorStep, Sequences0
<1>3. ASSUME NEW v \in Vecs, NEW b \in Blocks, NEW x \in Vals, push_shared(v, x, b)
      PROVE  VectorStep
  <2> DEFINE old == vec[v].ptr
             len == vec[v].len
             ptr == Grown(v, b).ptr
             data == [cells[old] EXCEPT ![len + 1] = x]
  <2>1. /\ cells' = [cells EXCEPT ![old] = Blank, ![ptr] = data]
        /\ vec' = [vec EXCEPT ![v] = [ptr |-> ptr, cap |-> Grown(v, b).cap, len |-> len + 1]]
        /\ v \in alive /\ len < MaxLen /\ alive' = alive /\ ret' = NoVal
    BY <1>3 DEF push_shared
  <2>2. ptr \in Blocks \cup {Dangling} /\ (ptr = old \/ ptr \notin heap) /\ len \in Nat
    BY <1>3, <1>b DEF push_shared, Grown, TypeOK
  <2>3. data[len + 1] = x /\ \A i \in 1..len : data[i] = cells[old][i]
    BY <1>b, <1>m, <2>1 DEF TypeOK
  <2> HIDE DEF ptr, data
  <2>4. vec'[v].len = len + 1 /\ vec'[v].ptr = ptr /\ cells'[ptr] = data
    BY <1>b, <2>1, <2>2 DEF TypeOK
  <2>5. \A c \in heap : c # old => cells'[c] = cells[c]
    BY <1>b, <2>1, <2>2 DEF TypeOK
  <2>6. elems' = [elems EXCEPT ![v] = After(v)]
    BY <1>b, <2>1, <2>5, OthersKeep
  <2>7. After(v) = Cells(data, len + 1)
    BY <2>4 DEF After
  <2>8. Cells(data, len + 1) = Append(Cells(cells[old], len), x)
    <3>1. \A i \in 1..len : cells[old][i] \in Vals /\ data[i] = cells[old][i]
      BY <1>c, <2>3
    <3> DEFINE f == cells[old]
               n == len
    <3>2. n \in Nat /\ (\A i \in 1..n : f[i] \in Vals /\ data[i] = f[i]) /\ data[n + 1] = x
      BY <2>2, <2>3, <3>1
    <3> HIDE DEF f, n
    <3>3. Cells(data, n + 1) = Append(Cells(f, n), x)
      BY <3>2, CellsAppend
    <3> QED
      BY <3>3 DEF f, n
  <2>9. After(v) = Append(elems[v], x)
    BY <1>c, <2>7, <2>8
  <2>10. VS!Push(v, x)
    BY <2>1, <2>6, <2>9 DEF VS!Push
  <2> QED
    BY <2>10 DEF VectorStep
<1>4. ASSUME NEW v \in Vecs, NEW b \in Blocks, NEW w \in Vecs, clone(v, w, b)
      PROVE  VectorStep
  <2>1. CASE vec[v].len = 0
    <3>1. elems' = [elems EXCEPT ![w] = After(w)]
      BY <1>b, <1>4, <2>1, OthersKeep DEF clone
    <3>2. vec'[w].len = 0
      BY <1>b, <1>4, <2>1 DEF clone, TypeOK, Empty
    <3>3. After(w) = elems[v]
      <4>1. \A f, g : Cells(f, 0) = Cells(g, 0)
        BY DEF Cells
      <4> QED
        BY <1>c, <2>1, <3>2, <4>1 DEF After
    <3>4. VS!Clone(v, w)
      BY <1>4, <3>1, <3>3 DEF VS!Clone, clone
    <3> QED
      BY <3>4 DEF VectorStep
  <2>2. CASE vec[v].len # 0
    <3>1. cells' = [cells EXCEPT ![b] = [i \in 1..MaxLen |-> IF i <= vec[v].len THEN cells[vec[v].ptr][i]
                                                             ELSE NoVal]]
      BY <1>4, <2>2 DEF clone
    <3>2. \A c \in heap : cells'[c] = cells[c]
      BY <1>b, <1>4, <2>2, <3>1 DEF clone, TypeOK
    <3>3. elems' = [elems EXCEPT ![w] = After(w)]
      BY <1>b, <1>4, <2>2, <3>2, OthersKeep DEF clone
    <3>4. vec'[w].len = vec[v].len /\ vec'[w].ptr = b
      BY <1>b, <1>4, <2>2 DEF clone, TypeOK
    <3>5. \A i \in 1..vec[v].len : cells'[b][i] = cells[vec[v].ptr][i]
      BY <1>b, <1>m, <3>1 DEF TypeOK
    <3>6. After(w) = elems[v]
      BY <1>c, <3>4, <3>5 DEF After, Cells
    <3>7. VS!Clone(v, w)
      BY <1>4, <3>3, <3>6 DEF VS!Clone, clone
    <3> QED
      BY <3>7 DEF VectorStep
  <2> QED
    BY <2>1, <2>2
<1>5. ASSUME NEW v \in Vecs, pop(v)
      PROVE  VectorStep
  <2>a. CASE vec[v].len = 0
    <3>1. elems' = elems /\ elems[v] = << >>
      BY <1>b, <1>5, <2>a, SliceSeq DEF pop, elems, slice
    <3>2. VS!Pop(v)
      BY <1>5, <2>a, <3>1 DEF VS!Pop, pop
    <3> QED
      BY <3>2 DEF VectorStep
  <2>0. CASE vec[v].len # 0
    <3> DEFINE len == vec[v].len
    <3>1. /\ vec' = [vec EXCEPT ![v] = Shortened(v)] /\ cells' = cells /\ alive' = alive
          /\ v \in alive /\ len \in Nat \ {0} /\ ret' = cells[vec[v].ptr][len]
      <4>1. len \in Nat \ {0}
        BY <1>b, <2>0 DEF TypeOK
      <4> QED
        BY <1>b, <1>5, <4>1, PopShortens DEF pop
    <3>2. elems' = [elems EXCEPT ![v] = After(v)]
      BY <1>b, <3>1, OthersKeep
    <3>3. vec'[v].len = len - 1 /\ vec'[v].ptr = vec[v].ptr
      BY <1>b, <3>1 DEF TypeOK, Shortened
    <3>4. After(v) = VS!Front(elems[v])
      <4> DEFINE f == cells[vec[v].ptr]
      <4>1. After(v) = Cells(f, len - 1)
        BY <3>1, <3>3 DEF After
      <4>2. elems[v] = Cells(f, len) /\ \A i \in 1..len : f[i] \in Vals
        BY <1>c
      <4> HIDE DEF f
      <4> QED
        BY <3>1, <4>1, <4>2, CellsFront
    <3>5. Len(elems[v]) = len /\ elems[v] # << >>
      BY <1>b, <3>1, SliceSeq
    <3>6. ret' = elems[v][Len(elems[v])]
      BY <1>c, <3>1, <3>5
    <3>7. VS!Pop(v)
      BY <3>1, <3>2, <3>4, <3>5, <3>6 DEF VS!Pop
    <3> QED
      BY <3>7 DEF VectorStep
  <2> QED
    BY <2>a, <2>0
<1>6. ASSUME NEW v \in Vecs, NEW r, Consume(v, r)
      PROVE  /\ v \in alive /\ alive' = alive \ {v} /\ ret' = r
             /\ elems' = [elems EXCEPT ![v] = << >>]
  <2>1. vec' = [vec EXCEPT ![v] = Empty] /\ \A c \in heap : c # vec[v].ptr => cells'[c] = cells[c]
    BY <1>b, <1>6 DEF Consume, TypeOK
  <2>2. elems' = [elems EXCEPT ![v] = After(v)]
    BY <1>b, <2>1, OthersKeep
  <2>3. vec'[v].len = 0
    BY <1>b, <2>1 DEF TypeOK, Empty
  <2>4. After(v) = << >>
    BY <2>3 DEF After, Cells
  <2> QED
    BY <1>6, <2>2, <2>4 DEF Consume
<1>6a. ASSUME NEW v \in Vecs, drop(v) \/ into_iter(v)
       PROVE  VectorStep
  <2>1. elems[v] = slice(v)
    BY <1>b, SliceSeq
  <2>2. drop(v) => VS!Drop(v)
    BY <1>6 DEF drop, VS!Drop
  <2>3. into_iter(v) => VS!IntoIter(v)
    BY <1>6, <2>1 DEF into_iter, VS!IntoIter
  <2> QED
    BY <1>6a, <2>2, <2>3 DEF VectorStep
<1>6b. ASSUME NEW v \in Vecs, NEW i \in 1..(MaxLen + 1), OutOfBounds(v, i)
       PROVE  VectorStep
  <2>1. elems' = elems
    BY <1>6b DEF OutOfBounds, elems, slice
  <2>2. i \notin DOMAIN elems[v]
    BY <1>b, <1>c, <1>6b DEF OutOfBounds, TypeOK
  <2>3. VS!OutOfBounds(v, i)
    BY <1>6b, <2>1, <2>2 DEF VS!OutOfBounds, OutOfBounds
  <2> QED
    BY <2>3 DEF VectorStep
<1>7. ASSUME NEW v \in Vecs, iter_mut_shared(v)
      PROVE  VectorStep
  <2>1. elems' = elems
    BY <1>7 DEF iter_mut_shared, elems, slice
  <2>2. MaxLen + 1 \in 1..(MaxLen + 1) /\ MaxLen + 1 \notin 1..vec[v].len
    BY <1>b, <1>m DEF TypeOK
  <2>3. VS!Get(v, MaxLen + 1)
    BY <1>7, <1>c, <2>1, <2>2 DEF VS!Get, iter_mut_shared
  <2> QED
    BY <2>2, <2>3 DEF VectorStep
<1>8. ASSUME NEW v \in Vecs, NEW i \in 1..(MaxLen + 1), get(v, i)
      PROVE  VectorStep
  <2>1. elems' = elems
    BY <1>8 DEF get, elems, slice
  <2>2. ret' = IF i \in DOMAIN elems[v] THEN elems[v][i] ELSE NoVal
    BY <1>8, <1>c DEF get
  <2>3. VS!Get(v, i)
    BY <1>8, <2>1, <2>2 DEF VS!Get, get
  <2> QED
    BY <2>3 DEF VectorStep
<1>9. ASSUME NEW v \in Vecs, NEW k \in 1..(MaxLen + 1), remove(v, k)
      PROVE  VectorStep
  <2> DEFINE len == vec[v].len
             c == cells[vec[v].ptr]
             shifted == [j \in 1..MaxLen |-> IF j >= k /\ j < len THEN c[j + 1] ELSE c[j]]
  <2>1. /\ vec' = [vec EXCEPT ![v] = Shortened(v)] /\ alive' = alive
        /\ cells' = [cells EXCEPT ![vec[v].ptr] = shifted]
        /\ v \in alive /\ len \in Nat \ {0} /\ len <= MaxLen /\ k \in 1..len /\ ret' = c[k]
    <3>1. len \in Nat \ {0} /\ len <= MaxLen /\ k \in 1..len
      BY <1>b, <1>9, <1>m DEF remove, TypeOK
    <3> QED
      BY <1>b, <1>9, <3>1, PopShortens DEF remove
  <2>2. \A j \in 1..(len - 1) : shifted[j] = IF j >= k THEN c[j + 1] ELSE c[j]
    BY <2>1, <1>m
  <2> HIDE DEF shifted
  <2>3. cells'[vec[v].ptr] = shifted /\ \A d \in heap : d # vec[v].ptr => cells'[d] = cells[d]
    BY <1>b, <2>1 DEF TypeOK
  <2>4. elems' = [elems EXCEPT ![v] = After(v)]
    BY <1>b, <2>1, <2>3, OthersKeep
  <2>5. vec'[v].len = len - 1 /\ vec'[v].ptr = vec[v].ptr
    BY <1>b, <2>1 DEF TypeOK, Shortened
  <2>6. After(v) = Cells(shifted, len - 1)
    BY <2>3, <2>5 DEF After
  <2>7. Cells(shifted, len - 1) = VS!RemoveAt(Cells(c, len), k)
    <3> DEFINE f == cells[vec[v].ptr]
               n == len
    <3>1. /\ n \in Nat \ {0} /\ k \in 1..n /\ \A i \in 1..n : f[i] \in Vals
          /\ \A i \in 1..(n - 1) : shifted[i] = IF i >= k THEN f[i + 1] ELSE f[i]
      BY <1>c, <2>1, <2>2
    <3> HIDE DEF f, n
    <3>2. Cells(shifted, n - 1) = VS!RemoveAt(Cells(f, n), k)
      BY <3>1, CellsRemove
    <3> QED
      BY <3>2 DEF f, n
  <2>8. After(v) = VS!RemoveAt(elems[v], k)
    BY <1>c, <2>6, <2>7
  <2>9. VS!Delete(v, k)
    BY <1>c, <2>1, <2>4, <2>8 DEF VS!Delete
  <2> QED
    BY <2>9 DEF VectorStep
<1>w. ASSUME NEW v \in Vecs, v \in alive, vec' = vec, alive' = alive, ret' = NoVal,
             NEW i \in 1..vec[v].len, NEW x \in Vals,
             cells' = [cells EXCEPT ![vec[v].ptr][i] = x]
      PROVE  VectorStep
  <2>1. vec[v].ptr \in Blocks \cup {Dangling} /\ i \in 1..MaxLen
    BY <1>b, <1>m DEF TypeOK
  <2>2. /\ \A c \in heap : c # vec[v].ptr => cells'[c] = cells[c]
        /\ cells'[vec[v].ptr] = [cells[vec[v].ptr] EXCEPT ![i] = x]
    BY <1>b, <1>w, <2>1 DEF TypeOK
  <2>3. vec' = [vec EXCEPT ![v] = vec[v]]
    BY <1>b, <1>w DEF TypeOK
  <2>4. elems' = [elems EXCEPT ![v] = After(v)]
    BY <1>b, <2>2, <2>3, OthersKeep
  <2>5. After(v) = [elems[v] EXCEPT ![i] = x]
    <3>1. \A j \in 1..vec[v].len : cells'[vec[v].ptr][j] = IF j = i THEN x ELSE cells[vec[v].ptr][j]
      BY <1>b, <1>m, <2>1, <2>2 DEF TypeOK
    <3>2. After(v) = [j \in 1..vec[v].len |-> IF j = i THEN x ELSE cells[vec[v].ptr][j]]
      BY <1>w, <3>1 DEF After, Cells
    <3>3. elems[v] = [j \in 1..vec[v].len |-> cells[vec[v].ptr][j]]
      BY <1>c DEF Cells
    <3> QED
      BY <3>2, <3>3
  <2>6. VS!Set(v, i, x)
    BY <1>c, <1>w, <2>4, <2>5 DEF VS!Set
  <2> QED
    BY <2>1, <2>6 DEF VectorStep
<1>10. ASSUME NEW v \in Vecs, NEW i \in 1..MaxLen, NEW x \in Vals, index_mut(v, i, x)
       PROVE  VectorStep
  BY <1>10, <1>w DEF index_mut
<1>11. ASSUME NEW x \in Vals, iter_next(x)
       PROVE  VectorStep
  <2>1. PICK v \in alive : vec[v].cap > 0 /\ vec[v].ptr = iter.blk /\ iter.end <= vec[v].len
    BY <1>11, <1>b DEF iter_next, IterLive
  <2>2. v \in Vecs /\ iter.pos <= iter.end /\ iter.pos \in 1..vec[v].len
    BY <1>11, <1>b, <2>1 DEF iter_next, IterLive, TypeOK
  <2>3. cells' = [cells EXCEPT ![vec[v].ptr][iter.pos] = x]
    BY <1>11, <2>1, <2>2 DEF iter_next
  <2>4. vec' = vec /\ alive' = alive /\ ret' = NoVal
    BY <1>11 DEF iter_next
  <2> QED
    BY <1>w, <2>1, <2>2, <2>3, <2>4
<1> QED
  BY <1>0, <1>1, <1>2, <1>3, <1>4, <1>5, <1>6a, <1>6b, <1>7, <1>8, <1>9, <1>10, <1>11 DEF Next

\* The steps of VectorStep are steps of VectorSpec.
LEMMA BoundedStep ==
    ASSUME BufInv, VectorStep
    PROVE  VS!Next
<1>1. Sequences0 \subseteq Seq(Vals)
  BY LenOfFunction, RawVecAssumption DEF Sequences0
<1>2. \A i \in 1..(MaxLen + 1) : i \in Nat
  BY RawVecAssumption
<1>3. \A v \in Vecs, i \in 1..MaxLen, x \in Vals : VS!Set(v, i, x) => i \in DOMAIN elems[v]
  BY DEF VS!Set
<1> QED
  BY <1>1, <1>2, <1>3 DEF VectorStep, VS!Next

LEMMA VectorInit == Init => VS!Init
  BY DEF Init, VS!Init, elems, slice, Empty

\* RawVec implements vectors that are sequences of their own: an operation on
\* one returns and changes what it would for a sequence, and leaves all others
\* alone, whatever the allocator moves, frees and hands out again.
THEOREM VectorsImplemented == ~ SharedPush => (Spec => ImplementsVectors)
<1> SUFFICES ASSUME ~ SharedPush
             PROVE  Spec => ImplementsVectors
  OBVIOUS
<1>1. MemInv /\ [Next]_rvvars => [VectorStep]_(VS!vsvars)
  BY StepSimulation
<1>3. MemInv /\ [Next]_rvvars => MemInv'
  BY MemoryStep
<1> QED
  BY <1>1, <1>3, MemoryInit, VectorInit, PTL DEF Spec, ImplementsVectors

\* The same for sequences of any length: the specification of RawVec implies
\* the whole of VectorSpec.
THEOREM RefinesVectorSpec == ~ SharedPush => (Spec => VS!Spec)
<1> SUFFICES ASSUME ~ SharedPush
             PROVE  Spec => VS!Spec
  OBVIOUS
<1>1. MemInv /\ [Next]_rvvars => [VS!Next]_(VS!vsvars)
  BY StepSimulation, BoundedStep DEF MemInv
<1>3. MemInv /\ [Next]_rvvars => MemInv'
  BY MemoryStep
<1> QED
  BY <1>1, <1>3, MemoryInit, VectorInit, PTL DEF Spec, VS!Spec
=============================================================================
