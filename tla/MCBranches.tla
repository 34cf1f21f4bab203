----------------------------- MODULE MCBranches -----------------------------
(***************************************************************************)
(* Instances of Branches.                                                  *)
(***************************************************************************)
EXTENDS Branches

Enum(v)  == [k |-> "enum", v |-> v]
Value(v) == [k |-> "value", v |-> v]

\* match e { E::A => { .. } E::B(x) => { .. } }, the arms in either order, and
\* match b { true => { .. } false => { .. } }, one of them written twice
MCMatches == { << <<Enum(0)>>, <<Enum(1)>> >>, << <<Enum(1)>>, <<Enum(0)>> >>,
               << <<Value(1)>>, <<Value(1)>>, <<Value(0)>> >> }

-----------------------------------------------------------------------------
(* What the code gets wrong: see README.md, section 5. *)

\* RightBlock: a match that does not name every value, with and without an arm
\* for the others
WildMatches == { << <<Value(0)>>, << >> >>, << <<Enum(0)>> >> }
\* RightBlock: match e { E::A(1) => { .. } E::B => { .. } }
PayloadMatches == { << <<Enum(0), Value(1)>>, <<Enum(1)>> >> }
=============================================================================
