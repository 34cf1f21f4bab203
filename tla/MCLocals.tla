------------------------------- MODULE MCLocals -------------------------------
(* Functions of up to three statements.  The first operand of every builder  *)
(* is the place that tells its expressions apart.                            *)
EXTENDS Locals, TLC

\* A place inside a place.
At_(i, k) == Append(i, k)

Id(i, n) == [k |-> "id", name |-> n, at |-> i]
Val(i, t) == [k |-> "val", ty |-> t, at |-> i]
Sum(i, l, r) == [k |-> "sum", lhs |-> l, rhs |-> r, at |-> i]
Let(i, n, e) == [k |-> "let", lval |-> Id(At_(i, 8), n), e |-> e, given |-> None]
Given(i, n, t, e) == [Let(i, n, e) EXCEPT !.given = t]
Set(i, n, e) == [k |-> "assign", lval |-> Id(At_(i, 8), n), e |-> e]
Op(i, n, e) == [k |-> "op", lval |-> Id(At_(i, 8), n), e |-> e]
Call(e) == [k |-> "call", e |-> e]
If(e, b, c) == [k |-> "if", e |-> e, blk |-> b, els |-> c]
While(e, b) == [k |-> "while", e |-> e, blk |-> b]
Match(e, arms) == [k |-> "match", e |-> e, arms |-> arms]
ArmOf(i, p, b) == [pat |-> p, blk |-> b, at |-> i]
Bind(n) == [k |-> "bind", name |-> n]
PatVal(t) == [k |-> "val", ty |-> t]
Variant(p) == [k |-> "variant", item |-> p]
Ret(e) == [k |-> "ret", e |-> e]
Exit(i) == [k |-> "exit", at |-> i]
Block(b) == [k |-> "block", blk |-> b]

\* The expressions at place i.
Exprs(i) ==
  {Id(i, n) : n \in {"x", "y", "p"}} \cup {Val(i, "Int"), Val(i, "Bool"),
   Sum(i, Id(At_(i, 1), "x"), Val(At_(i, 2), "Int")), Sum(i, Id(At_(i, 1), "p"), Val(At_(i, 2), "Int"))}

\* The statements at place i without a block.
Simple(i) ==
  {Let(i, n, e) : n \in {"x", "y"}, e \in Exprs(At_(i, 9))}
    \cup {Set(i, "x", e) : e \in Exprs(At_(i, 9))}
    \cup {Op(i, "x", e) : e \in {Id(At_(i, 9), "p"), Val(At_(i, 9), "Int"), Val(At_(i, 9), "Bool")}}
    \cup {Call(Id(At_(i, 9), n)) : n \in {"x", "y", "p"}}
    \cup {Given(i, "x", "Int", Id(At_(i, 9), n)) : n \in {"p", "y"}}

\* Those with one: lets in an if are fine, and so are lets in the arms of a
\* match that is not itself in an if, a while or a block.
Inner(i) ==
  {Let(i, "x", Val(At_(i, 9), "Int")), Let(i, "y", Id(At_(i, 9), "x")), Call(Id(At_(i, 9), "x")),
   Set(i, "x", Val(At_(i, 9), "Bool")), Call(Id(At_(i, 9), "v"))}

Branches(i) ==
  {If(Id(At_(i, 7), "p"), <<s>>, <<t>>) : s \in Inner(At_(i, 1)), t \in Inner(At_(i, 2))}
    \cup {While(Sum(At_(i, 7), Id(At_(i, 1), "p"), Id(At_(i, 2), "x")), <<s>>) : s \in Inner(At_(i, 1))}
    \cup {Block(<<s>>) : s \in Inner(At_(i, 1)) \ {t \in Inner(At_(i, 1)) : t.k = "let"}}
    \cup {Match(Id(At_(i, 7), "p"), <<ArmOf(At_(i, 5), q, <<s>>), ArmOf(At_(i, 6), Bind("w"), <<Call(Id(At_(i, 2), n))>>)>>) :
            q \in {Bind("v"), PatVal("Int"), PatVal("Bool"), Variant(Bind("v"))},
            s \in Inner(At_(i, 1)), n \in {"v", "w"}}

\* Matches on the enum, none of whose names is used outside its own arm.
EnumMatches(i) ==
  {Match(Id(At_(i, 7), "m"), <<ArmOf(At_(i, 5), q, <<s>>), ArmOf(At_(i, 6), Bind("w"), <<Call(Id(At_(i, 2), "w"))>>)>>) :
     q \in {Variant(Bind("v")), Variant(PatVal("Int")), PatVal("Int")},
     s \in {t \in Inner(At_(i, 1)) : t.k /= "call" \/ t.e.name /= "v"} \cup {Set(At_(i, 1), "p", Id(At_(i, 4), "v"))}}

Ending(i, ret) == IF ret = "Void" THEN {Exit(i), Call(Id(At_(i, 9), "x")), Call(Id(At_(i, 9), "v"))}
                ELSE {Ret(e) : e \in {Id(i, "x"), Id(i, "p"), Val(i, "Bool")}}

Fn(ps, ret, body) == [params |-> ps, ret |-> ret, body |-> body, overlap |-> FALSE,
                      others |-> [n \in {} |-> None], other_ret |-> "Void"]
P == "p" :> "Int"
PM == ("p" :> "Int") @@ ("m" :> "E")

MCPrograms ==
  {Fn(P, r, <<a, b, c>>) : r \in {"Void"}, a \in Simple(<<1>>), b \in Branches(<<2>>), c \in Ending(<<3>>, "Void")}
    \cup {Fn(P, "Int", <<a, b, c>>) : a \in Simple(<<1>>), b \in Simple(<<2>>), c \in Ending(<<3>>, "Int")}
    \cup {Fn(PM, "Void", <<a, b, c>>) : a \in Simple(<<1>>), b \in EnumMatches(<<2>>),
            c \in {Call(Id(<<3, 9>>, "x")), Call(Id(<<3, 9>>, "p"))}}

MCGlobals == "g" :> "Int"

-------------------------------------------------------------------------------
(* Functions the checker gets wrong, with the property that shows it *)

\* ReportsIllegal: a name bound in the arm of another variant
GhostPrograms ==
  {Fn("m" :> "E", "Void", <<Match(Id(<<1>>, "m"),
       <<ArmOf(<<6>>, Variant(Bind("v")), <<Call(Id(<<2>>, "v"))>>), ArmOf(<<7>>, q, <<Call(Id(<<3>>, n))>>)>>)>>) :
     q \in {Variant(PatVal("Int")), Variant(Bind("w"))}, n \in {"v", "w", "m"}}
\* AcceptsLegal: the name of a parameter bound in an arm
ShadowPrograms ==
  {Fn(P, "Void", <<Match(Id(<<1>>, "p"), <<ArmOf(<<6>>, Bind(n), <<Call(Id(<<2>>, n))>>)>>), Call(Id(<<3>>, "p"))>>) :
     n \in {"p", "v"}}
\* AcceptsLegal: a let in a block
BlockPrograms ==
  {Fn(P, "Void", <<Block(<<Let(<<1>>, n, Id(<<2>>, "p"))>>), Call(Id(<<3>>, n))>>) : n \in {"x", "y"}}
\* AcceptsLegal: a let in a match in an if
NestedPrograms ==
  {Fn(P, "Void", <<If(Id(<<1>>, "p"), <<Match(Id(<<2>>, "p"), <<ArmOf(<<6>>, Bind("v"),
       <<Let(<<3>>, n, Id(<<4>>, "v"))>>)>>)>>, <<>>), Call(Id(<<5>>, n))>>) : n \in {"x", "y"}}
\* ReportsIllegal: int + float
PromotePrograms ==
  {Fn(P, "Void", <<Let(<<1>>, "x", Sum(<<2>>, Id(<<3>>, "p"), Val(<<4>>, t))), Call(Id(<<5>>, "x"))>>) : t \in {"Int", "Float"}}
\* GivenTypesChecked: a let of another type than its right side, stuff/parse_ui/trait/trait_err.cm:15-16
GivenPrograms ==
  {Fn("item" :> t, "Void", <<Given(<<1>>, "x", "Int", Id(<<2>>, "item")), Call(Id(<<3>>, "x"))>>) : t \in {"Int", "Bool"}}
\* NeverPanics: a match on an unknown name
PanicPrograms ==
  {Fn(P, "Void", <<Match(Id(<<1>>, n), <<ArmOf(<<6>>, Bind("v"), <<Call(Id(<<2>>, "v"))>>)>>)>>) : n \in {"p", "q"}}
\* AcceptsLegal: a function of another file with the same span
OverlapPrograms ==
  {[Fn(P, "Void", <<Call(Id(<<1>>, "p"))>>) EXCEPT !.overlap = TRUE, !.others = o] : o \in {"p" :> "Bool", "q" :> "Int"}}
===============================================================================
