----------------------------- MODULE VectorSpec -----------------------------
(***************************************************************************)
(* What RawVec promises: every vector is a sequence of its own, and an     *)
(* operation on one leaves all others alone.                               *)
(***************************************************************************)
EXTENDS Naturals, Sequences, SequencesExt

CONSTANTS Vecs,   \* names of vectors
          Vals,   \* elements
          NoVal,  \* None
          Panic   \* an operation that panicked

VARIABLES alive,  \* the vectors that exist
          elems,  \* their elements; << >> for those that do not
          ret     \* what the last operation returned

vsvars == <<alive, elems, ret>>

Init == alive = {} /\ elems = [v \in Vecs |-> << >>] /\ ret = NoVal

\* A new vector: empty, or made of given elements.
Create(v, s) ==
    /\ v \notin alive
    /\ alive' = alive \cup {v}
    /\ elems' = [elems EXCEPT ![v] = s]
    /\ ret' = NoVal

Push(v, x) ==
    /\ v \in alive
    /\ elems' = [elems EXCEPT ![v] = Append(@, x)]
    /\ ret' = NoVal
    /\ UNCHANGED alive

\* The last element; None, and no change, if there is none.
Pop(v) ==
    /\ v \in alive
    /\ ret' = IF elems[v] = << >> THEN NoVal ELSE elems[v][Len(elems[v])]
    /\ elems' = IF elems[v] = << >> THEN elems ELSE [elems EXCEPT ![v] = Front(@)]
    /\ UNCHANGED alive

Delete(v, i) ==
    /\ v \in alive /\ i \in DOMAIN elems[v]
    /\ ret' = elems[v][i]
    /\ elems' = [elems EXCEPT ![v] = RemoveAt(@, i)]
    /\ UNCHANGED alive

\* Removing from or indexing a place that holds no element changes nothing.
OutOfBounds(v, i) ==
    /\ v \in alive /\ i \notin DOMAIN elems[v]
    /\ ret' = Panic
    /\ UNCHANGED <<alive, elems>>

Get(v, i) ==
    /\ v \in alive
    /\ ret' = IF i \in DOMAIN elems[v] THEN elems[v][i] ELSE NoVal
    /\ UNCHANGED <<alive, elems>>

Set(v, i, x) ==
    /\ v \in alive /\ i \in DOMAIN elems[v]
    /\ elems' = [elems EXCEPT ![v][i] = x]
    /\ ret' = NoVal
    /\ UNCHANGED alive

Clone(v, w) ==
    /\ v \in alive /\ w \notin alive
    /\ alive' = alive \cup {w}
    /\ elems' = [elems EXCEPT ![w] = elems[v]]
    /\ ret' = NoVal

\* The end of a vector: its elements are forgotten, or handed over.
Drop(v) ==
    /\ v \in alive
    /\ alive' = alive \ {v}
    /\ elems' = [elems EXCEPT ![v] = << >>]
    /\ ret' = NoVal

IntoIter(v) ==
    /\ v \in alive
    /\ alive' = alive \ {v}
    /\ elems' = [elems EXCEPT ![v] = << >>]
    /\ ret' = elems[v]

Next ==
    \E v \in Vecs :
        \/ \E s \in Seq(Vals) : Create(v, s)
        \/ \E x \in Vals : Push(v, x) \/ \E i \in DOMAIN elems[v] : Set(v, i, x)
        \/ Pop(v) \/ Drop(v) \/ IntoIter(v)
        \/ \E i \in Nat : Delete(v, i) \/ Get(v, i) \/ OutOfBounds(v, i)
        \/ \E w \in Vecs : Clone(v, w)

Spec == Init /\ [][Next]_vsvars
=============================================================================
