----------------------------- MODULE MCConstFold ----------------------------
(* Expressions for ConstFold: all with one operator over literals and a
   variable, and those with one of them as an operand. *)
EXTENDS ConstFold

Leaf  == {Value(IntV(n)) : n \in {0, 3, MaxInt}} \cup {Ident("int")}
BLeaf == {Value(BoolV(b)) : b \in BOOLEAN} \cup {Ident("bool")}

BoolOps == Compare \cup Logic \cup {"BitAnd", "BitXor", "BitOr"}

Two  == {Binary(op, l, r) : op \in Arith, l \in Leaf, r \in Leaf} \cup
        {Urnary("OnesComp", l) : l \in Leaf}
BTwo == {Binary(op, l, r) : op \in Compare \cup Logic, l \in Leaf, r \in Leaf} \cup
        {Binary(op, l, r) : op \in BoolOps, l \in BLeaf, r \in BLeaf} \cup
        {Urnary("Not", l) : l \in BLeaf \cup Leaf}

\* as above, with the ends of the range as literals
Small == {Value(IntV(2)), Urnary("OnesComp", Value(IntV(0))),
          Urnary("OnesComp", Value(IntV(MaxInt))), Ident("int")}

MCInputs ==
  Two \cup BTwo \cup
  {Binary(op, Parens(e), s) : op \in Arith \cup Compare, e \in Two, s \in Small} \cup
  {Binary(op, s, e) : op \in Arith, e \in Two, s \in Small} \cup
  {Binary(op, Parens(e), s) : op \in BoolOps, e \in BTwo, s \in BLeaf} \cup
  {Urnary("Not", Parens(e)) : e \in Two \cup BTwo} \cup
  {Urnary("OnesComp", Parens(Parens(e))) : e \in Two} \cup
  {Binary("Add", Call(<<e>>), s) : e \in Two, s \in Small}
=============================================================================
