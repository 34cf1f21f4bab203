------------------------------ MODULE MCRawVec ------------------------------
(* An instance of RawVec for TLC.  Seq(Vals) is not finite, so the step of  *)
(* VectorSpec that creates a vector is spelled out over bounded sequences.  *)
EXTENDS RawVec, TLC

\* Vectors, elements and blocks are interchangeable.
Symmetry == Permutations(Vecs) \cup Permutations(Vals) \cup Permutations(Blocks)

Sequences0 == UNION {[1..n -> Vals] : n \in 0..MaxLen}

\* A step of VectorSpec, over bounded sequences and indices.
VectorStep ==
    \E v \in Vecs :
        \/ \E s \in Sequences0 : VS!Create(v, s)
        \/ \E x \in Vals : VS!Push(v, x) \/ \E i \in 1..MaxLen : VS!Set(v, i, x)
        \/ VS!Pop(v) \/ VS!Drop(v) \/ VS!IntoIter(v)
        \/ \E i \in 1..(MaxLen + 1) : VS!Delete(v, i) \/ VS!Get(v, i) \/ VS!OutOfBounds(v, i)
        \/ \E w \in Vecs : VS!Clone(v, w)

\* Every step of RawVec is a step of VectorSpec or leaves it unchanged:
\* pushes, pops, removals and clones act on sequences, and each vector keeps
\* its elements when the buffer of another one is grown, freed or reused.
ImplementsVectors == VS!Init /\ [][VectorStep]_(VS!vsvars)
=============================================================================
