------------------------------ MODULE Interner ------------------------------
(***************************************************************************)
(* The string interner behind every Ident (ast/parse/symbol.rs): one table *)
(* under one global mutex, shared by the main thread and all the parser    *)
(* threads.  A call of with_intern is one atomic step.  What escapes the   *)
(* lock are tokens and `&'static str` slices into the interner's buffers,  *)
(* and they are used while other threads go on interning: the slices are   *)
(* sound only if no buffer is ever moved or freed.                         *)
(*                                                                         *)
(* A name is an opaque value with a length.  A buffer is a generation      *)
(* number: a new String, and a String that grows and so moves, is a new    *)
(* generation; a slice is a range of one generation.                       *)
(***************************************************************************)
EXTENDS Naturals, Sequences, FiniteSets

CONSTANTS
    Thread,
    Name,           \* the strings that may be interned
    Length,         \* their lengths in bytes
    Keywords,       \* the list the interner is pre-loaded with, "" first
    Suffix,         \* what push_str may append
    Push(_, _),     \* format!("{}{}", base, suffix)
    PowersOfTwo     \* the capacities next_power_of_two can return

ASSUME InternerAssumption ==
    /\ Length \in [Name -> Nat]
    /\ Keywords \in Seq(Name)
    /\ \A i, j \in 1..Len(Keywords) : Keywords[i] = Keywords[j] => i = j
    /\ PowersOfTwo \subseteq Nat

VARIABLES
    map,      \* name -> token
    vec,      \* token + 1 -> slice
    buf,      \* the buffer being filled: generation, length and capacity
    full,     \* generations of the buffers kept alive in `full`
    idents,   \* per thread, the Idents it holds, with the text they stand for
    view      \* per thread, the slices that calls of name() gave it

vars == <<map, vec, buf, full, idents, view>>

\* Slices of the keyword list live in the program text: generation 0.
Slice == [name : Name, gen : Nat, start : Nat]

Buffer == [gen : Nat, len : Nat, cap : Nat]

Ident == [tkn : Nat, name : Name]

\* Interner::pre_load, on the first use of the Lazy.
pre_load ==
    /\ map = [n \in {Keywords[i] : i \in 1..Len(Keywords)} |->
                (CHOOSE i \in 1..Len(Keywords) : Keywords[i] = n) - 1]
    /\ vec = [i \in 1..Len(Keywords) |->
                [name |-> Keywords[i], gen |-> 0, start |-> 0]]
    /\ buf = [gen |-> 1, len |-> 0, cap |-> Len(Keywords) \div 2]
    /\ full = {}

Init ==
    /\ pre_load
    /\ idents = [t \in Thread |-> {}]
    /\ view = [t \in Thread |-> {}]

\* usize::next_power_of_two
IsNextPowerOfTwo(c, m) == c \in PowersOfTwo /\ m <= c /\ c < 2 * m

Larger(m, n) == IF m >= n THEN m ELSE n

\* The old buffer is dropped; the new one is pushed in its place.
Mut_RetireNone(b) == full
\* The buffer is kept in `full` so that the slices into it stay good.
Retire(b) == full \cup {b.gen}

\* Is there no room for n more bytes?
NoRoom(b, n) == b.cap < b.len + n

\* String::push_str: a String without room grows, and so moves.
Filled(b, n) ==
    IF b.len + n <= b.cap
    THEN [b EXCEPT !.len = @ + n]
    ELSE [gen |-> b.gen + 1, len |-> b.len + n, cap |-> 2 * (b.len + n)]

\* The slice of the whole buffer instead of its new end.
Mut_StartOf(b) == 0

\* The copied bytes begin where the buffer ended.
StartOf(b) == b.len

\* Interner::alloc copies the name behind the bytes already there, in a new
\* buffer if this one is too small: the buffer, the retired buffers and the
\* start of the slice afterwards.
alloc(name) ==
    LET n == Length[name]
        fresh == {[gen |-> buf.gen + 1, len |-> 0, cap |-> c] :
                    c \in {c \in PowersOfTwo :
                             IsNextPowerOfTwo(c, Larger(buf.cap, n) + 1)}}
    IN  IF NoRoom(buf, n)
        THEN {[buf |-> Filled(b, n), full |-> Retire(buf), start |-> StartOf(b)] : b \in fresh}
        ELSE {[buf |-> Filled(buf, n), full |-> full, start |-> StartOf(buf)]}

\* map.len() read after the insertion.
Mut_NewToken == Cardinality(DOMAIN map) + 1

\* The token of a name that is not in the map yet: map.len() as u32.  (2^32
\* names do not fit into memory.)
NewToken == Cardinality(DOMAIN map)

\* The lookup saw the map before another thread inserted the name.
Mut_Known(name) == name \in {Keywords[i] : i \in 1..Len(Keywords)}

\* A name the map knows is not allocated again.
Known(name) == name \in DOMAIN map

Token(name) == IF Known(name) THEN map[name] ELSE NewToken

\* Interner::intern
intern(name) ==
    \/ /\ Known(name)
       /\ UNCHANGED <<map, vec, buf, full>>
    \/ /\ ~ Known(name)
       /\ map' = [n \in DOMAIN map \cup {name} |-> IF n = name THEN NewToken ELSE map[n]]
       /\ \E a \in alloc(name) :
            /\ buf' = a.buf
            /\ full' = a.full
            /\ vec' = Append(vec, [name |-> name, gen |-> a.buf.gen, start |-> a.start])

lookup_str(tkn) == vec[tkn + 1]

Hold(t, name) ==
    idents' = [idents EXCEPT ![t] = @ \cup {[tkn |-> Token(name), name |-> name]}]

\* Ident::new
new(t, name) ==
    /\ intern(name)
    /\ Hold(t, name)
    /\ UNCHANGED view

\* Ident::push_str: lookup and intern under one lock.
push_str(t, i, s) ==
    LET name == Push(lookup_str(i.tkn).name, s) IN
      /\ name \in Name
      /\ intern(name)
      /\ Hold(t, name)
      /\ UNCHANGED view

\* Ident::name: the slice is used after the lock is gone.
name_of(t, i) ==
    /\ view' = [view EXCEPT ![t] = @ \cup {lookup_str(i.tkn)}]
    /\ UNCHANGED <<map, vec, buf, full, idents>>

\* The uses of the slices are over.
forget(t) ==
    /\ view[t] # {}
    /\ view' = [view EXCEPT ![t] = {}]
    /\ UNCHANGED <<map, vec, buf, full, idents>>

Next ==
    \E t \in Thread :
        \/ \E n \in Name : new(t, n)
        \/ \E i \in idents[t] : \E s \in Suffix : push_str(t, i, s)
        \/ \E i \in idents[t] : name_of(t, i)
        \/ forget(t)

Spec == Init /\ [][Next]_vars

-----------------------------------------------------------------------------
(* Properties *)

TypeOK ==
    /\ DOMAIN map \subseteq Name
    /\ \A n \in DOMAIN map : map[n] \in Nat
    /\ vec \in Seq(Slice)
    /\ buf \in Buffer
    /\ full \subseteq 1..(buf.gen - 1)
    /\ idents \in [Thread -> SUBSET Ident]
    /\ view \in [Thread -> SUBSET Slice]

\* Ident compares tokens and nothing else: the name table and the token table
\* are inverse to each other, so two Idents are equal exactly if their texts
\* are, and `ident == "text"` (lookup_tkn) agrees with name().
TokensUnique ==
    /\ \A i \in 1..Len(vec) : vec[i].name \in DOMAIN map /\ map[vec[i].name] = i - 1
    /\ \A n \in DOMAIN map : map[n] + 1 \in 1..Len(vec) /\ vec[map[n] + 1].name = n

\* An Ident made by any thread, at any time, still reads back as the text it was
\* made from.
IdentsStable ==
    \A t \in Thread : \A i \in idents[t] :
        i.tkn + 1 \in 1..Len(vec) /\ lookup_str(i.tkn).name = i.name

\* The buffer a slice points into is still allocated where it was: it is the
\* program text, the current buffer, or kept in `full`.
Live(s) == s.gen \in {0, buf.gen} \cup full

\* alloc hands out `&'static str`s: every slice in the table, and every slice a
\* thread has taken out of the lock with name(), stays valid for ever, although
\* other threads keep interning and the buffer is replaced again and again.
SlicesLive ==
    /\ \A i \in 1..Len(vec) : Live(vec[i])
    /\ \A t \in Thread : \A s \in view[t] : Live(s)

Ends(s) == s.start + Length[s.name]

\* No two slices of one buffer share a byte: interning a name never overwrites
\* the text of another.
SlicesDisjoint ==
    \A i, j \in 1..Len(vec) :
        i # j /\ vec[i].gen # 0 /\ vec[i].gen = vec[j].gen =>
            Ends(vec[i]) <= vec[j].start \/ Ends(vec[j]) <= vec[i].start

=============================================================================
