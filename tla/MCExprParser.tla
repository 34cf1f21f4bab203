---------------------------- MODULE MCExprParser ----------------------------
(* Four operators of four precedences; all short inputs and longer chains *)
EXTENDS ExprParser

MCOp == {"*", "+", "==", "&&"}
MCPrec == [o \in MCOp |-> CASE o = "*" -> 13 [] o = "+" -> 12 [] o = "==" -> 7 [] o = "&&" -> 6]

Strings(S, n) == [1..n -> S]

\* Everything of up to five tokens, the malformed included.
Short == {s \o <<";">> : s \in UNION {Strings({"*", "+", "term", "bool", "(", ")", "!", "stop"}, n) : n \in 0..5}}

\* a o b o c o d o e
Chain(ops) == [i \in 1..(2 * Len(ops) + 1) |-> IF i % 2 = 1 THEN "term" ELSE ops[i \div 2]]

Chains == {Chain(ops) : ops \in UNION {Strings(MCOp, n) : n \in 1..4}}

\* A chain with a part of it in parentheses, or behind a prefix.
Nested ==
    {<<"term", o>> \o <<"(">> \o c \o <<")">> \o <<p>> \o d :
        o \in {"*", "&&"}, p \in {"+"},
        c \in {Chain(ops) : ops \in UNION {Strings({"*", "+"}, n) : n \in 1..2}},
        d \in {<<"!", "term", "*", "term">>, <<"(", "term", ")", "==", "term">>}}

MCInputs == Short \cup {s \o <<";">> : s \in Chains \cup Nested}

\* a + b * c * d
ThreeOps == {Chain(ops) \o <<";">> : ops \in Strings({"*", "+"}, 3)}

\* true && a
LeadingBool == {<<"bool", "&&", "term", ";">>}

\* a + ;
Dangling == {Chain(ops) \o <<"+", ";">> : ops \in Strings({"*", "+"}, 1)}
=============================================================================
