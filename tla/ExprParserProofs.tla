-------------------------- MODULE ExprParserProofs --------------------------
(***************************************************************************)
(* make_expr, for every input, every set of operators and every precedence *)
(* table: its two stacks never lose, repeat or reorder an operand, and an  *)
(* operator never takes one of its own or a lower precedence into its      *)
(* right operand.                                                          *)
(*                                                                         *)
(* The inductive invariant says what the loops of make_expr rely on: the   *)
(* precedences on an operator stack strictly increase, only the bottom of  *)
(* an output stack can hold operators of the same call, and whatever the   *)
(* expression in hand has applied binds tighter than all that still waits. *)
(***************************************************************************)
EXTENDS ExprParser, SequenceTheorems, TLAPS

\* The token in front of the operand that a call reads or has in hand.
Bound(c) == IF c.ops = <<>> THEN c.at ELSE LastOf(c.ops)

\* An expression's nodes lie within its tokens.
ExprOK(e) ==
    /\ e \in Expr
    /\ e.from <= e.to
    /\ \A m \in e.nodes : /\ m.call <= e.to
                          /\ e.from <= m.op /\ m.op <= e.to
                          /\ m.to <= e.to

\* Entry i of the two stacks of call c, in the input s.
EntryOK(s, c, i) ==
    /\ ExprOK(c.output[i])
    /\ c.output[i].to + 1 = c.ops[i]
    /\ c.output[i].from = (IF i = 1 THEN c.at ELSE c.ops[i - 1]) + 1
    /\ c.ops[i] \in 1..Len(s)
    /\ s[c.ops[i]] \in Op
    /\ \A m \in c.output[i].nodes : m.call >= c.at /\ (i # 1 => m.call # c.at)

\* The operator stack is ordered, by place and by precedence.
Rising(s, c) ==
    \A i, j \in 1..Len(c.ops) :
        i < j => c.ops[i] < c.ops[j] /\ Prec[s[c.ops[i]]] < Prec[s[c.ops[j]]]

CallOK(s, c) ==
    /\ c \in Call
    /\ Len(c.output) = Len(c.ops)
    /\ \A i \in 1..Len(c.ops) : EntryOK(s, c, i)
    /\ Rising(s, c)

\* e is the operand call c has in hand when p is the current token.
InHand(s, c, e, p) ==
    /\ ExprOK(e)
    /\ e.from = Bound(c) + 1
    /\ e.to + 1 = p
    /\ \A m \in e.nodes :
         /\ m.call >= c.at
         /\ m.call = c.at => \A i \in 1..Len(c.ops) : Prec[s[c.ops[i]]] < Prec[s[m.op]]

\* What e holds was applied by calls that c made.
NotOwn(c, e) == \A m \in e.nodes : m.call # c.at

\* Each call was made for the operand its caller reads.
CallsOK(s, cs) ==
    /\ cs \in Seq(Call) /\ cs # <<>>
    /\ \A k \in 1..Len(cs) : CallOK(s, cs[k])
    /\ \A k \in 1..Len(cs) : k # 1 => cs[k].at = Bound(cs[k - 1]) + 1 /\ cs[k].at \in 1..Len(s)
    /\ \A j, k \in 1..Len(cs) : j < k => Bound(cs[j]) < cs[k].at

Reading == pc \in {"start", "operand"}
Holding == pc \in {"op", "reduce", "drain"}

Stacks ==
    /\ CallsOK(input, calls)
    /\ Reading => pos = Bound(Top) + 1
    /\ pc = "operand" => Top.ops # <<>> \/ Curr \in {"term"} \cup Prefix
    /\ Holding => InHand(input, Top, ex, pos)
    /\ pc = "op" => NotOwn(Top, ex)
    /\ pc = "reduce" => Curr \in Op

IInv == TypeOK /\ Stacks /\ RightBindsTighter

-----------------------------------------------------------------------------
(* The two stacks of a call *)

LEMMA LastFacts ==
    ASSUME NEW S, NEW s \in Seq(S), s # <<>>
    PROVE  /\ Len(s) \in Nat \ {0} /\ Len(s) \in 1..Len(s)
           /\ LastOf(s) = s[Len(s)] /\ LastOf(s) \in S
           /\ ButLast(s) \in Seq(S) /\ Len(ButLast(s)) = Len(s) - 1
           /\ \A i \in 1..(Len(s) - 1) : ButLast(s)[i] = s[i]
<1>1. Len(s) \in Nat \ {0} /\ Len(s) \in 1..Len(s) /\ Len(s) - 1 \in Nat
  OBVIOUS
<1>2. LastOf(s) = s[Len(s)] /\ LastOf(s) \in S
  BY <1>1 DEF LastOf
<1>3. ButLast(s) = [i \in 1..(Len(s) - 1) |-> s[i]]
  BY <1>1 DEF ButLast
<1>4. ButLast(s) \in Seq(S)
  BY <1>1, <1>3
<1> QED
  BY <1>1, <1>2, <1>3, <1>4

\* What a call's operators and its bound are.
LEMMA BoundFacts ==
    ASSUME NEW s, NEW c, CallOK(s, c)
    PROVE  /\ c.at \in Nat /\ c.ops \in Seq(Nat) /\ c.output \in Seq(Expr)
           /\ Bound(c) \in Nat
           /\ c.ops # <<>> => /\ Len(c.ops) \in 1..Len(c.ops)
                              /\ LastOf(c.ops) = c.ops[Len(c.ops)]
                              /\ Bound(c) = c.ops[Len(c.ops)]
                              /\ LastOf(c.output) = c.output[Len(c.ops)]
           /\ \A i \in 1..Len(c.ops) : c.ops[i] <= Bound(c) /\ c.at < c.ops[i]
           /\ c.at <= Bound(c)
<1>1. /\ c.at \in Nat /\ c.ops \in Seq(Nat) /\ c.output \in Seq(Expr)
      /\ Len(c.ops) \in Nat /\ Len(c.output) = Len(c.ops)
  BY DEF CallOK, Call
<1>2. c.ops # <<>> => /\ Len(c.ops) \in 1..Len(c.ops)
                      /\ LastOf(c.ops) = c.ops[Len(c.ops)]
                      /\ Bound(c) = c.ops[Len(c.ops)]
                      /\ LastOf(c.output) = c.output[Len(c.ops)]
  BY <1>1 DEF LastOf, Bound
<1>3. Bound(c) \in Nat
  BY <1>1, <1>2 DEF Bound
<1>4. ASSUME NEW i \in 1..Len(c.ops) PROVE c.ops[i] <= Bound(c) /\ c.at < c.ops[i]
  <2>1. c.ops # <<>> /\ c.ops[i] \in Nat /\ c.ops[1] \in Nat /\ 1 \in 1..Len(c.ops)
    BY <1>1, <1>4
  <2>2. c.ops[i] <= Bound(c)
    BY <2>1, <1>1, <1>2, <1>4 DEF CallOK, Rising
  <2>3. c.at < c.ops[1]
    <3>1. EntryOK(s, c, 1)
      BY <2>1 DEF CallOK
    <3>2. c.output[1].from \in Nat /\ c.output[1].to \in Nat /\ c.output[1].from <= c.output[1].to
      BY <3>1 DEF EntryOK, ExprOK, Expr
    <3>3. c.output[1].to + 1 = c.ops[1] /\ c.output[1].from = c.at + 1
      BY <3>1 DEF EntryOK
    <3> QED
      BY <3>2, <3>3, <1>1, <2>1
  <2>4. c.ops[1] <= c.ops[i]
    BY <2>1, <1>1, <1>4 DEF CallOK, Rising
  <2> QED
    BY <2>1, <2>2, <2>3, <2>4, <1>1
<1>5. c.at <= Bound(c)
  <2>1. CASE c.ops = <<>>
    BY <2>1, <1>1 DEF Bound
  <2>2. CASE c.ops # <<>>
    BY <2>2, <1>1, <1>2, <1>3, <1>4
  <2> QED
    BY <2>1, <2>2
<1> QED
  BY <1>1, <1>2, <1>3, <1>4, <1>5

\* An operand and the operator behind it are pushed.
LEMMA PushOK ==
    ASSUME NEW s, NEW c, NEW e, NEW p \in 1..Len(s), Len(s) \in Nat,
           CallOK(s, c), InHand(s, c, e, p), s[p] \in Op,
           c.ops # <<>> => NotOwn(c, e) /\ Prec[s[LastOf(c.ops)]] < Prec[s[p]],
           Prec \in [Op -> Nat]
    PROVE  CallOK(s, Pushed(c, e, p)) /\ Bound(Pushed(c, e, p)) = p
<1> DEFINE d == Pushed(c, e, p)
           n == Len(c.ops)
<1>0. c \in Call /\ e \in Expr /\ p \in Nat
  BY DEF CallOK, InHand, ExprOK
<1>1. d.at = c.at /\ d.output = Append(c.output, e) /\ d.ops = Append(c.ops, p)
      /\ d = [at |-> c.at, output |-> Append(c.output, e), ops |-> Append(c.ops, p)]
  BY DEF Pushed
<1> HIDE DEF d
<1>2. c.ops \in Seq(Nat) /\ c.output \in Seq(Expr) /\ c.at \in Nat /\ n \in Nat /\ Len(c.output) = n
  BY <1>0 DEF Call, CallOK
<1>3. /\ d.ops \in Seq(Nat) /\ d.output \in Seq(Expr)
      /\ Len(d.ops) = n + 1 /\ Len(d.output) = n + 1
      /\ d.ops[n + 1] = p /\ d.output[n + 1] = e
      /\ \A i \in 1..n : d.ops[i] = c.ops[i] /\ d.output[i] = c.output[i]
  BY <1>0, <1>1, <1>2
<1>4. d \in Call
  BY <1>1, <1>2, <1>3 DEF Call
<1>5. Bound(d) = p
  <2>1. d.ops # <<>>
    BY <1>3, <1>2
  <2> QED
    BY <2>1, <1>3 DEF Bound, LastOf
<1>6. ASSUME NEW i \in 1..(n + 1) PROVE EntryOK(s, d, i)
  <2>1. CASE i \in 1..n
    <3>1. EntryOK(s, c, i)
      BY <2>1 DEF CallOK
    <3>2. i # 1 => d.ops[i - 1] = c.ops[i - 1]
      BY <2>1, <1>2, <1>3
    <3> QED
      BY <3>1, <3>2, <2>1, <1>1, <1>3 DEF EntryOK
  <2>2. CASE i = n + 1
    <3>1. ExprOK(e) /\ e.to + 1 = p /\ \A m \in e.nodes : m.call >= c.at
      BY DEF InHand
    <3>2. e.from = (IF i = 1 THEN c.at ELSE d.ops[i - 1]) + 1
      <4>1. CASE n = 0
        <5>1. c.ops = <<>> /\ i = 1
          BY <4>1, <1>2, <2>2
        <5> QED
          BY <5>1 DEF InHand, Bound
      <4>2. CASE n # 0
        <5>1. c.ops # <<>> /\ i # 1 /\ i - 1 = n /\ n \in 1..n
          BY <4>2, <1>2, <2>2
        <5>2. Bound(c) = c.ops[n]
          BY <5>1 DEF Bound, LastOf
        <5> QED
          BY <5>1, <5>2, <1>3 DEF InHand
      <4> QED
        BY <4>1, <4>2
    <3>3. i # 1 => NotOwn(c, e)
      <4>1. i # 1 => c.ops # <<>>
        BY <2>2, <1>2
      <4> QED
        BY <4>1
    <3>4. d.output[i] = e /\ d.ops[i] = p /\ d.at = c.at
      BY <2>2, <1>3, <1>1
    <3> QED
      BY <3>1, <3>2, <3>3, <3>4 DEF EntryOK, NotOwn
  <2> QED
    BY <2>1, <2>2, <1>2
<1>n. n \in Nat
  BY <1>2
<1>7. Rising(s, d)
  <2> SUFFICES ASSUME NEW i \in 1..(n + 1), NEW j \in 1..(n + 1), i < j
               PROVE  d.ops[i] < d.ops[j] /\ Prec[s[d.ops[i]]] < Prec[s[d.ops[j]]]
    BY <1>3 DEF Rising
  <2>1. CASE j \in 1..n
    <3>1. i \in 1..n
      BY <2>1, <1>2
    <3> QED
      BY <3>1, <2>1, <1>3 DEF CallOK, Rising
  <2>2. CASE j = n + 1
    <3>1. i \in 1..n /\ n # 0 /\ c.ops # <<>> /\ n \in 1..n
      BY <2>2, <1>2
    <3>2. d.ops[i] = c.ops[i] /\ d.ops[j] = p
      BY <3>1, <2>2, <1>3
    <3>3. c.ops[i] <= Bound(c) /\ Bound(c) \in Nat /\ Bound(c) = c.ops[n] /\ LastOf(c.ops) = c.ops[n]
      BY <3>1, BoundFacts
    <3>4. Bound(c) < p
      <4>1. e.from \in Nat /\ e.to \in Nat /\ e.from <= e.to /\ e.from = Bound(c) + 1 /\ e.to + 1 = p
        BY DEF InHand, ExprOK, Expr
      <4> QED
        BY <4>1, <3>3
    <3>5. c.ops[i] \in Nat
      BY <3>1, <1>2
    <3>6. /\ Prec[s[c.ops[n]]] < Prec[s[p]]
          /\ Prec[s[c.ops[n]]] \in Nat /\ Prec[s[p]] \in Nat /\ Prec[s[c.ops[i]]] \in Nat
      <4>1. s[c.ops[n]] \in Op /\ s[c.ops[i]] \in Op
        BY <3>1 DEF CallOK, EntryOK
      <4>2. Prec[s[c.ops[n]]] < Prec[s[p]]
        BY <3>1, <3>3
      <4> QED
        BY <4>1, <4>2
    <3>7. i = n \/ Prec[s[c.ops[i]]] < Prec[s[c.ops[n]]]
      <4>1. i = n \/ i < n
        BY <3>1, <1>n
      <4> QED
        BY <4>1, <3>1 DEF CallOK, Rising
    <3>8. Prec[s[c.ops[i]]] < Prec[s[p]]
      BY <3>6, <3>7
    <3> QED
      BY <3>2, <3>3, <3>4, <3>5, <3>8, <1>0
  <2>3. j \in 1..n \/ j = n + 1
    BY <1>n
  <2> QED
    BY <2>1, <2>2, <2>3
<1>8. CallOK(s, d)
  BY <1>3, <1>4, <1>6, <1>7 DEF CallOK
<1> QED
  BY <1>5, <1>8 DEF d

\* The last operand and operator are popped and applied to the one in hand.
LEMMA PopOK ==
    ASSUME NEW s, NEW c, NEW e, NEW p \in Nat,
           CallOK(s, c), InHand(s, c, e, p), c.ops # <<>>
    PROVE  /\ CallOK(s, Popped(c)) /\ Popped(c).at = c.at
           /\ Bound(Popped(c)) < Bound(c)
           /\ InHand(s, Popped(c), Binary(c, e), p)
<1> DEFINE d == Popped(c)
           n == Len(c.ops)
           l == c.output[n]
           b == Binary(c, e)
           x == [call |-> c.at, op |-> c.ops[n], from |-> l.from, to |-> e.to]
<1>0. c \in Call /\ e \in Expr
  BY DEF CallOK, InHand, ExprOK
<1>1. d.at = c.at /\ d.output = ButLast(c.output) /\ d.ops = ButLast(c.ops)
      /\ d = [at |-> c.at, output |-> ButLast(c.output), ops |-> ButLast(c.ops)]
  BY DEF Popped
<1> HIDE DEF d
<1>2. /\ c.ops \in Seq(Nat) /\ c.output \in Seq(Expr) /\ c.at \in Nat
      /\ n \in Nat \ {0} /\ n \in 1..n /\ Len(c.output) = n /\ c.output # <<>>
      /\ LastOf(c.ops) = c.ops[n] /\ LastOf(c.output) = l
  BY <1>0 DEF Call, CallOK, LastOf
<1>3. /\ d.ops \in Seq(Nat) /\ d.output \in Seq(Expr)
      /\ Len(d.ops) = n - 1 /\ Len(d.output) = n - 1
      /\ \A i \in 1..(n - 1) : d.ops[i] = c.ops[i] /\ d.output[i] = c.output[i]
  BY <1>1, <1>2, LastFacts
<1>4. d \in Call
  BY <1>1, <1>2, <1>3 DEF Call
<1>5. ASSUME NEW i \in 1..(n - 1) PROVE EntryOK(s, d, i)
  <2>1. EntryOK(s, c, i) /\ i \in 1..n
    BY <1>2 DEF CallOK
  <2>2. i # 1 => d.ops[i - 1] = c.ops[i - 1]
    BY <1>2, <1>3
  <2> QED
    BY <2>1, <2>2, <1>1, <1>3 DEF EntryOK
<1>6. Rising(s, d)
  <2>1. \A i \in 1..(n - 1) : i \in 1..n
    BY <1>2
  <2> QED
    BY <2>1, <1>3 DEF Rising, CallOK
<1>7. CallOK(s, d)
  BY <1>3, <1>4, <1>5, <1>6 DEF CallOK
<1>8. EntryOK(s, c, n)
  BY <1>2 DEF CallOK
<1>9. /\ l \in Expr /\ l.from \in Nat /\ l.to \in Nat /\ l.from <= l.to /\ l.to + 1 = c.ops[n]
      /\ e.from \in Nat /\ e.to \in Nat /\ e.from <= e.to /\ e.from = c.ops[n] + 1 /\ e.to + 1 = p
      /\ c.ops[n] \in Nat
  <2>1. l \in Expr /\ l.from <= l.to /\ l.to + 1 = c.ops[n]
    BY <1>8 DEF EntryOK, ExprOK
  <2>2. e.from <= e.to /\ e.from = Bound(c) + 1 /\ e.to + 1 = p
    BY DEF InHand, ExprOK
  <2>3. Bound(c) = c.ops[n] /\ c.ops[n] \in Nat
    BY <1>2 DEF Bound
  <2>4. l.from \in Nat /\ l.to \in Nat /\ e.from \in Nat /\ e.to \in Nat
    BY <1>0, <2>1 DEF Expr
  <2> QED
    BY <2>1, <2>2, <2>3, <2>4
<1>9a. /\ l.from \in Nat /\ l.to \in Nat /\ l.from <= l.to /\ l.to + 1 = c.ops[n]
       /\ e.from \in Nat /\ e.to \in Nat /\ e.from <= e.to /\ e.from = c.ops[n] + 1
       /\ c.ops[n] \in Nat
  BY <1>9
<1>c. c.at \in Nat
  BY <1>2
<1>n. n \in Nat /\ n # 0 /\ n >= 1
  BY <1>2
<1>10. l.from = Bound(d) + 1 /\ Bound(d) \in Nat
  <2>1. CASE n = 1
    <3>1. d.ops = <<>>
      BY <2>1, <1>3
    <3> QED
      BY <3>1, <2>1, <1>1, <1>2, <1>8 DEF EntryOK, Bound
  <2>2. CASE n # 1
    <3>1. d.ops # <<>> /\ n - 1 \in 1..(n - 1)
      <4>1. n - 1 \in 1..(n - 1) /\ n - 1 # 0
        <5> HIDE DEF n
        <5> QED
          BY <2>2, <1>n
      <4> QED
        BY <4>1, <1>3
    <3>2. Bound(d) = c.ops[n - 1]
      BY <3>1, <1>3 DEF Bound, LastOf
    <3> QED
      BY <3>1, <3>2, <2>2, <1>2, <1>8 DEF EntryOK
  <2> QED
    BY <2>1, <2>2
<1>11. Bound(c) = c.ops[n]
  BY <1>2 DEF Bound
<1>12. b = [from |-> l.from, to |-> e.to, nodes |-> l.nodes \cup e.nodes \cup {x}]
  BY <1>2 DEF Binary
<1> HIDE DEF b, n, l
<1>13. x \in Node /\ b \in Expr
  <2>1. x \in Node
    BY <1>2, <1>9 DEF Node
  <2>2. l.nodes \subseteq Node /\ e.nodes \subseteq Node
    BY <1>0, <1>9 DEF Expr
  <2> QED
    BY <2>1, <2>2, <1>9, <1>12 DEF Expr
<1>14. x.call = c.at /\ x.op = c.ops[n] /\ x.to = e.to /\ x.from = l.from
  OBVIOUS
<1> HIDE DEF x
<1>15. b.from = l.from /\ b.to = e.to /\ b.nodes = l.nodes \cup e.nodes \cup {x}
  BY <1>12
<1>16. c.at < c.ops[n]
  BY <1>2, BoundFacts
<1>17. ASSUME NEW m \in b.nodes
       PROVE  m.call <= b.to /\ b.from <= m.op /\ m.op <= b.to /\ m.to <= b.to /\ m.call >= c.at
  <2>0. m \in Node /\ m.call \in Nat /\ m.op \in Nat /\ m.to \in Nat
    BY <1>13, <1>17 DEF Expr, Node
  <2>1. CASE m \in l.nodes
    <3>1. m.call <= l.to /\ l.from <= m.op /\ m.op <= l.to /\ m.to <= l.to /\ m.call >= c.at
      BY <2>1, <1>8 DEF EntryOK, ExprOK, l
    <3> QED
      BY <3>1, <2>0, <1>c, <1>9a, <1>15
  <2>2. CASE m \in e.nodes
    <3>1. m.call <= e.to /\ e.from <= m.op /\ m.op <= e.to /\ m.to <= e.to /\ m.call >= c.at
      BY <2>2 DEF InHand, ExprOK
    <3> QED
      BY <3>1, <2>0, <1>c, <1>9a, <1>15
  <2>3. CASE m = x
    BY <2>3, <1>c, <1>9a, <1>14, <1>15, <1>16
  <2> QED
    BY <2>1, <2>2, <2>3, <1>15
<1>18. ASSUME NEW m \in b.nodes, m.call = c.at, NEW i \in 1..(n - 1)
       PROVE  Prec[s[d.ops[i]]] < Prec[s[m.op]]
  <2>0. i \in 1..n /\ n # 1 /\ i < n
    BY <1>n
  <2>1. i \in 1..n /\ n # 1 /\ d.ops[i] = c.ops[i] /\ i < n
    BY <2>0, <1>3
  <2>2. m \notin l.nodes
    BY <2>1, <1>8, <1>18 DEF EntryOK, l
  <2>3. CASE m \in e.nodes
    BY <2>1, <2>3, <1>18 DEF InHand, n
  <2>4. CASE m = x
    <3>1. n \in 1..n
      BY <1>n
    <3> QED
      BY <3>1, <2>1, <2>4, <1>14 DEF CallOK, Rising, n
  <2> QED
    BY <2>2, <2>3, <2>4, <1>15
<1>19. ExprOK(b)
  <2>1. b.from <= b.to
    BY <1>9, <1>15
  <2> QED
    BY <2>1, <1>13, <1>17 DEF ExprOK
<1>20. InHand(s, d, b, p)
  BY <1>1, <1>3, <1>9, <1>10, <1>15, <1>17, <1>18, <1>19 DEF InHand
<1>21. Bound(d) < Bound(c)
  BY <1>9, <1>10, <1>11
<1> QED
  BY <1>1, <1>7, <1>20, <1>21 DEF d, b

-----------------------------------------------------------------------------
(* The active calls *)

LEMMA TopFacts ==
    ASSUME NEW s, NEW cs, CallsOK(s, cs)
    PROVE  /\ cs \in Seq(Call) /\ Len(cs) \in Nat \ {0} /\ Len(cs) \in 1..Len(cs)
           /\ CallOK(s, cs[Len(cs)]) /\ cs[Len(cs)] \in Call
BY DEF CallsOK, CallOK

LEMMA ReplaceTop ==
    ASSUME NEW s, NEW cs, NEW d, CallsOK(s, cs), CallOK(s, d), d.at = cs[Len(cs)].at
    PROVE  LET new == [cs EXCEPT ![Len(cs)] = d]
           IN  CallsOK(s, new) /\ Len(new) = Len(cs) /\ new[Len(new)] = d
               /\ \A k \in 1..(Len(cs) - 1) : new[k] = cs[k]
<1> DEFINE new == [cs EXCEPT ![Len(cs)] = d]
<1>1. cs \in Seq(Call) /\ Len(cs) \in Nat /\ Len(cs) \in 1..Len(cs) /\ d \in Call
  BY TopFacts DEF CallOK
<1> DEFINE n == Len(cs)
<1>2. new \in Seq(Call) /\ Len(new) = n /\ new[n] = d /\ \A k \in 1..n : k # n => new[k] = cs[k]
  BY <1>1
<1>n. n \in Nat /\ n \in 1..n
  BY <1>1
<1>3. \A k \in 1..n : CallOK(s, new[k]) /\ new[k].at = cs[k].at
  BY <1>2 DEF CallsOK
<1> HIDE DEF n, new
<1>4. ASSUME NEW k \in 1..n, k # 1 PROVE k - 1 \in 1..n /\ k - 1 # n
  BY <1>n, <1>4
<1>5. ASSUME NEW k \in 1..n, k # 1
      PROVE  new[k].at = Bound(new[k - 1]) + 1 /\ new[k].at \in 1..Len(s)
  BY <1>2, <1>3, <1>4, <1>5 DEF CallsOK, n
<1>6. ASSUME NEW j \in 1..n, NEW k \in 1..n, j < k PROVE Bound(new[j]) < new[k].at
  <2>1. j # n
    BY <1>n, <1>6
  <2> QED
    BY <2>1, <1>2, <1>3, <1>6 DEF CallsOK, n
<1>7. new # <<>>
  BY <1>2, <1>n
<1>8. \A k \in 1..(n - 1) : k \in 1..n /\ k # n
  BY <1>n
<1> QED
  BY <1>2, <1>3, <1>5, <1>6, <1>7, <1>8 DEF CallsOK, n, new

LEMMA AppendCall ==
    ASSUME NEW s, NEW cs, NEW p \in 1..Len(s), Len(s) \in Nat,
           CallsOK(s, cs), p = Bound(cs[Len(cs)]) + 1
    PROVE  LET new == Append(cs, NewCall(p))
           IN  CallsOK(s, new) /\ Len(new) = Len(cs) + 1 /\ new[Len(new)] = NewCall(p)
               /\ \A k \in 1..Len(cs) : new[k] = cs[k]
<1> DEFINE new == Append(cs, NewCall(p))
           n == Len(cs)
           d == NewCall(p)
<1>1. cs \in Seq(Call) /\ n \in Nat /\ n \in 1..n
  BY TopFacts
<1>2. d \in Call /\ d.at = p /\ d.ops = <<>> /\ d.output = <<>> /\ p \in Nat
  BY DEF NewCall, Call
<1>3. CallOK(s, d)
  BY <1>2 DEF CallOK, Rising
<1> HIDE DEF d
<1>4. new \in Seq(Call) /\ Len(new) = n + 1 /\ new[n + 1] = d /\ \A k \in 1..n : new[k] = cs[k]
  BY <1>1, <1>2 DEF d
<1>n. n \in Nat /\ n \in 1..n
  BY <1>1
<1> HIDE DEF n, new
<1>5. ASSUME NEW k \in 1..(n + 1) PROVE k \in 1..n \/ k = n + 1
  BY <1>n
<1>6. \A k \in 1..(n + 1) : CallOK(s, new[k])
  BY <1>3, <1>4, <1>5 DEF CallsOK, n
<1>7. ASSUME NEW k \in 1..(n + 1), k # 1
      PROVE  new[k].at = Bound(new[k - 1]) + 1 /\ new[k].at \in 1..Len(s)
  <2>1. k - 1 \in 1..n
    BY <1>n, <1>7
  <2>2. CASE k \in 1..n
    BY <2>1, <2>2, <1>4, <1>7 DEF CallsOK, n
  <2>3. CASE k = n + 1
    <3>1. k - 1 = n
      BY <2>3, <1>n
    <3> QED
      BY <3>1, <2>1, <2>3, <1>2, <1>4 DEF n
  <2> QED
    BY <2>2, <2>3, <1>5
<1>8. ASSUME NEW j \in 1..n PROVE Bound(cs[j]) < p
  <2>1. CallOK(s, cs[n]) /\ CallOK(s, cs[j])
    BY <1>n DEF CallsOK, n
  <2>2. cs[n].at <= Bound(cs[n]) /\ cs[n].at \in Nat /\ Bound(cs[n]) \in Nat /\ Bound(cs[j]) \in Nat
    BY <2>1, BoundFacts
  <2>3. j = n \/ j < n
    BY <1>n
  <2>4. j < n => Bound(cs[j]) < cs[n].at
    BY <1>n DEF CallsOK, n
  <2> QED
    BY <2>2, <2>3, <2>4 DEF n
<1>9. ASSUME NEW j \in 1..(n + 1), NEW k \in 1..(n + 1), j < k PROVE Bound(new[j]) < new[k].at
  <2>1. j \in 1..n
    BY <1>n, <1>9
  <2>2. CASE k \in 1..n
    BY <2>1, <2>2, <1>4, <1>9 DEF CallsOK, n
  <2>3. CASE k = n + 1
    BY <2>1, <2>3, <1>2, <1>4, <1>8
  <2> QED
    BY <2>2, <2>3, <1>5
<1>10. new # <<>>
  BY <1>4, <1>n
<1>11. CallsOK(s, new)
  BY <1>4, <1>6, <1>7, <1>9, <1>10 DEF CallsOK
<1> QED
  BY <1>4, <1>11 DEF new, d, n

LEMMA DropCall ==
    ASSUME NEW s, NEW cs, CallsOK(s, cs), Len(cs) # 1
    PROVE  LET new == ButLast(cs)
           IN  /\ CallsOK(s, new) /\ Len(new) = Len(cs) - 1
               /\ \A k \in 1..Len(new) : k \in 1..Len(cs) /\ new[k] = cs[k]
               /\ cs[Len(cs)].at = Bound(new[Len(new)]) + 1
               /\ cs[Len(cs)].at \in 1..Len(s)
<1> DEFINE new == ButLast(cs)
           n == Len(cs)
<1>1. cs \in Seq(Call) /\ n \in Nat /\ n \in 1..n /\ cs # <<>>
  BY TopFacts DEF CallsOK
<1>2. new \in Seq(Call) /\ Len(new) = n - 1 /\ \A k \in 1..(n - 1) : new[k] = cs[k]
  BY <1>1, LastFacts
<1>n. n \in Nat /\ n \in 1..n /\ n # 1
  BY <1>1
<1> HIDE DEF n, new
<1>3. \A k \in 1..(n - 1) : k \in 1..n
  BY <1>n
<1>4. n - 1 \in 1..(n - 1) /\ n - 1 # 0
  BY <1>n
<1>5. new # <<>>
  BY <1>2, <1>4
<1>6. \A k \in 1..(n - 1) : k # 1 => k - 1 \in 1..(n - 1)
  BY <1>n
<1>7. \A k \in 1..(n - 1) : CallOK(s, new[k])
  BY <1>2, <1>3 DEF CallsOK, n
<1>8. \A k \in 1..(n - 1) : k # 1 => new[k].at = Bound(new[k - 1]) + 1 /\ new[k].at \in 1..Len(s)
  BY <1>2, <1>3, <1>6 DEF CallsOK, n
<1>9. \A j, k \in 1..(n - 1) : j < k => Bound(new[j]) < new[k].at
  BY <1>2, <1>3 DEF CallsOK, n
<1>10. CallsOK(s, new)
  BY <1>2, <1>5, <1>7, <1>8, <1>9 DEF CallsOK
<1>11. cs[n].at = Bound(cs[n - 1]) + 1 /\ cs[n].at \in 1..Len(s)
  BY <1>n DEF CallsOK, n
<1> QED
  BY <1>2, <1>3, <1>4, <1>10, <1>11 DEF new, n

-----------------------------------------------------------------------------
(* The nodes *)

NodesOf(cs, e) ==
    e.nodes \cup UNION {UNION {cs[k].output[i].nodes : i \in 1..Len(cs[k].output)} : k \in 1..Len(cs)}

Stacked(cs, m) ==
    \E k \in 1..Len(cs) : \E i \in 1..Len(cs[k].output) : m \in cs[k].output[i].nodes

LEMMA NodesAre ==
    /\ Nodes = NodesOf(calls, ex)
    /\ Nodes' = NodesOf(calls', ex')
    /\ \A m : m \in Nodes <=> m \in ex.nodes \/ Stacked(calls, m)
    /\ \A m : m \in Nodes' <=> m \in ex'.nodes \/ Stacked(calls', m)
<1>1. \A cs, e, m : m \in NodesOf(cs, e) <=> m \in e.nodes \/ Stacked(cs, m)
  BY DEF NodesOf, Stacked
<1>2. Nodes = NodesOf(calls, ex) /\ Nodes' = NodesOf(calls', ex')
  BY DEF Nodes, NodesOf
<1> QED
  BY <1>1, <1>2

LEMMA NodesShrink ==
    ASSUME RightBindsTighter, input' = input, Nodes' \subseteq Nodes
    PROVE  RightBindsTighter'
BY DEF RightBindsTighter, PrecAt

\* A node that call c itself applied is in its hand or on its own output, in
\* front of its last operator.
LEMMA OwnNodes ==
    ASSUME NEW s, NEW cs, CallsOK(s, cs), NEW m, Stacked(cs, m),
           NEW c, c = cs[Len(cs)], m.call = c.at
    PROVE  m \in Node /\ c.ops # <<>> /\ m.op < LastOf(c.ops) /\ m.to < LastOf(c.ops)
<1>1. PICK k \in 1..Len(cs) : \E i \in 1..Len(cs[k].output) : m \in cs[k].output[i].nodes
  BY DEF Stacked
<1>2. PICK i \in 1..Len(cs[k].output) : m \in cs[k].output[i].nodes
  BY <1>1
<1>3. CallOK(s, cs[k]) /\ Len(cs) \in Nat /\ Len(cs) \in 1..Len(cs)
  BY TopFacts DEF CallsOK
<1>4. i \in 1..Len(cs[k].ops) /\ EntryOK(s, cs[k], i)
  BY <1>3 DEF CallOK
<1> DEFINE e == cs[k].output[i]
<1>5. e \in Expr /\ e.to + 1 = cs[k].ops[i] /\ m.call <= e.to /\ m.op <= e.to /\ m.to <= e.to
  BY <1>2, <1>4 DEF EntryOK, ExprOK
<1>6. m \in Node /\ m.op \in Nat /\ m.to \in Nat /\ m.call \in Nat /\ e.to \in Nat
  BY <1>2, <1>5 DEF Expr, Node
<1>7. cs[k].ops[i] <= Bound(cs[k]) /\ Bound(cs[k]) \in Nat /\ cs[k].ops \in Seq(Nat)
  BY <1>3, <1>4, BoundFacts
<1>8. cs[k].ops # <<>> /\ Bound(cs[k]) = LastOf(cs[k].ops)
  BY <1>4, <1>7, BoundFacts DEF Bound
<1> HIDE DEF e
<1>9. m.call < Bound(cs[k]) /\ m.op < Bound(cs[k]) /\ m.to < Bound(cs[k])
  <2>1. cs[k].ops[i] \in Nat
    BY <1>4, <1>7
  <2> QED
    BY <2>1, <1>5, <1>6, <1>7
<1>10. k = Len(cs)
  <2>1. k # Len(cs) => Bound(cs[k]) < c.at
    <3>1. k # Len(cs) => k < Len(cs)
      BY <1>3
    <3> QED
      BY <3>1, <1>3 DEF CallsOK
  <2>2. c.at \in Nat
    BY <1>3, TopFacts DEF Call
  <2> QED
    BY <2>1, <2>2, <1>6, <1>7, <1>9
<1> QED
  BY <1>6, <1>8, <1>9, <1>10

-----------------------------------------------------------------------------
(* The steps *)

\* What every step starts from.
LEMMA StateFacts ==
    ASSUME IInv
    PROVE  /\ input \in Inputs /\ Len(input) \in Nat /\ pos \in 1..Len(input) /\ pos \in Nat
           /\ \A p \in 1..Len(input) : input[p] # ";" => p + 1 \in 1..Len(input)
           /\ calls \in Seq(Call) /\ calls # <<>> /\ Len(calls) \in 1..Len(calls)
           /\ \A k \in 1..Len(calls) : k \in 1..(Len(calls) - 1) \/ k = Len(calls)
           /\ CallsOK(input, calls) /\ CallOK(input, Top)
           /\ Top \in Call /\ Top.at \in Nat /\ Bound(Top) \in Nat /\ Top.at <= Bound(Top)
           /\ Top.output \in Seq(Expr) /\ Top.ops \in Seq(Nat)
           /\ ex \in Expr /\ pc \in PC
           /\ Prec \in [Op -> Nat] /\ ";" \notin Op
<1>1. /\ input \in Inputs /\ pos \in 1..Len(input) /\ ex \in Expr /\ pc \in PC
      /\ CallsOK(input, calls)
  BY DEF IInv, TypeOK, Stacks
<1>2. input \in Seq(Token) /\ input[Len(input)] = ";" /\ Prec \in [Op -> Nat]
      /\ Op \cap (Operand \cup Prefix \cup Stop) = {}
  BY <1>1, ExprAssumption
<1>a. input \in Seq(Token)
  BY <1>2
<1>3. Len(input) \in Nat
  BY <1>a
<1>4. \A p \in 1..Len(input) : input[p] # ";" => p + 1 \in 1..Len(input)
  <2>1. SUFFICES ASSUME NEW p \in 1..Len(input), p # Len(input) PROVE p + 1 \in 1..Len(input)
    BY <1>2
  <2> QED
    BY <1>3, <2>1
<1>5. ";" \notin Op
  BY <1>2 DEF Stop
<1>6. /\ calls \in Seq(Call) /\ Len(calls) \in 1..Len(calls) /\ calls # <<>>
      /\ CallOK(input, Top) /\ Top \in Call
  BY <1>1, TopFacts DEF CallsOK, Top
<1>7. Top.at \in Nat /\ Bound(Top) \in Nat /\ Top.at <= Bound(Top)
      /\ Top.output \in Seq(Expr) /\ Top.ops \in Seq(Nat)
  BY <1>6, BoundFacts
<1>8. pos \in Nat
  BY <1>1, <1>3
<1>9. \A k \in 1..Len(calls) : k \in 1..(Len(calls) - 1) \/ k = Len(calls)
  <2>1. Len(calls) \in Nat
    BY <1>1, TopFacts
  <2> QED
    BY <2>1
<1> QED
  BY <1>1, <1>2, <1>3, <1>4, <1>5, <1>6, <1>7, <1>8, <1>9

\* A step that leaves the stacks and the expression in hand alone.
LEMMA SameStacks ==
    ASSUME IInv, UNCHANGED <<input, calls, ex>>,
           pos' \in 1..Len(input), pc' \in PC,
           Reading' => pos' = Bound(Top) + 1,
           pc' = "operand" => input[pos'] \in {"term"} \cup Prefix,
           Holding' => pc' = "drain" /\ Holding /\ pos' = pos
    PROVE  IInv'
<1>1. CallsOK(input, calls)' /\ Top' = Top
  BY DEF IInv, Stacks, Top
<1>2. TypeOK'
  BY DEF IInv, TypeOK
<1>3. Holding' => InHand(input', Top', ex', pos')
  BY <1>1 DEF IInv, Stacks
<1>4. pc' = "op" => Holding'
  BY DEF Holding
<1>5. pc' = "reduce" => Holding'
  BY DEF Holding
<1>6. Curr' = input[pos']
  BY DEF Curr
<1>7. Stacks'
  BY <1>1, <1>3, <1>4, <1>5, <1>6 DEF Stacks
<1>8. RightBindsTighter'
  <2>1. Nodes' = Nodes
    BY NodesAre
  <2> QED
    BY <2>1, NodesShrink DEF IInv
<1> QED
  BY <1>2, <1>7, <1>8 DEF IInv

LEMMA ReturnInv ==
    ASSUME IInv, NEW e, NEW next \in 1..Len(input), Return(e, next),
           ExprOK(e), Top.at < e.from, e.to < next,
           \A m \in e.nodes : m \in Nodes /\ m.call >= Top.at
    PROVE  IInv'
<1>1. /\ CallsOK(input, calls) /\ Len(input) \in Nat /\ ";" \notin Op
      /\ \A p \in 1..Len(input) : input[p] # ";" => p + 1 \in 1..Len(input)
      /\ Top.at \in Nat /\ input \in Inputs /\ calls \in Seq(Call) /\ calls # <<>>
  BY StateFacts
<1>2. e \in Expr /\ e.from \in Nat /\ e.to \in Nat /\ e.nodes \subseteq Node /\ e.from <= e.to
  BY DEF ExprOK, Expr
<1>l. Len(input) \in Nat
  BY <1>1
<1>n. Top.at \in Nat /\ e.from \in Nat /\ e.to \in Nat /\ e.from <= e.to
  BY <1>1, <1>2
<1>3. CASE Len(calls) = 1
  <2>1. ex' = e /\ pos' = next /\ pc' = "ok" /\ input' = input /\ calls' = calls
    BY <1>3 DEF Return
  <2>2. TypeOK'
    BY <2>1, <1>1, <1>2 DEF TypeOK, PC, Outcome
  <2>3. Stacks'
    BY <2>1, <1>1 DEF Stacks, Reading, Holding
  <2>4. Nodes' \subseteq Nodes
    BY <2>1, NodesAre
  <2> QED
    BY <2>1, <2>2, <2>3, <2>4, NodesShrink DEF IInv
<1>4. CASE Len(calls) # 1
  <2> DEFINE end == IF ClosesAt(next) THEN next + 1 ELSE next
             r == [from |-> Top.at, to |-> end - 1, nodes |-> e.nodes]
             new == ButLast(calls)
  <2>1. ex' = r /\ pos' = end /\ pc' = "op" /\ input' = input /\ calls' = new
    BY <1>4 DEF Return
  <2>2. end \in 1..Len(input) /\ next <= end /\ next \in Nat /\ end \in Nat
    <3>1. ClosesAt(next) => input[next] # ";"
      BY DEF ClosesAt
    <3>2. ClosesAt(next) => next + 1 \in 1..Len(input)
      BY <3>1, <1>1
    <3>3. next \in Nat /\ next <= next + 1
      BY <1>l
    <3>4. CASE ClosesAt(next)
      BY <3>2, <3>3, <3>4, <1>l
    <3>5. CASE ~ ClosesAt(next)
      BY <3>3, <3>5
    <3> QED
      BY <3>4, <3>5
  <2>3. /\ CallsOK(input, new) /\ Len(new) = Len(calls) - 1
        /\ \A k \in 1..Len(new) : k \in 1..Len(calls) /\ new[k] = calls[k]
        /\ Top.at = Bound(new[Len(new)]) + 1
    BY <1>1, <1>4, DropCall DEF Top
  <2> HIDE DEF end, new
  <2>4. r.from = Top.at /\ r.to = end - 1 /\ r.nodes = e.nodes
    OBVIOUS
  <2>5. r \in Expr
    <3>1. end - 1 \in Nat
      BY <2>2
    <3> QED
      BY <3>1, <1>n, <1>2 DEF Expr
  <2> HIDE DEF r
  <2>6. ASSUME NEW m \in r.nodes
        PROVE  /\ m \in Nodes /\ m.call \in Nat /\ m.call >= Top.at /\ m.call <= r.to
               /\ r.from <= m.op /\ m.op <= r.to /\ m.to <= r.to
    <3>1. m \in Nodes /\ m.call >= Top.at /\ m.call <= e.to /\ e.from <= m.op /\ m.op <= e.to /\ m.to <= e.to
      BY <2>4, <2>6 DEF ExprOK
    <3>2. m.call \in Nat /\ m.op \in Nat /\ m.to \in Nat
      BY <1>2, <2>4, <2>6 DEF Node
    <3> QED
      BY <3>1, <3>2, <1>n, <2>2, <2>4
  <2>7. ExprOK(r)
    <3>1. r.from <= r.to
      BY <1>n, <2>2, <2>4
    <3> QED
      BY <3>1, <2>5, <2>6 DEF ExprOK
  <2> DEFINE c == new[Len(new)]
  <2>8. CallOK(input, c)
    BY <2>3, TopFacts
  <2>9. c.at < Top.at /\ c.at \in Nat
    <3>1. c.at <= Bound(c) /\ Bound(c) \in Nat /\ c.at \in Nat
      BY <2>8, BoundFacts
    <3> QED
      BY <3>1, <2>3
  <2>10. Top' = c
    BY <2>1 DEF Top
  <2>11. r.from = Bound(c) + 1
    BY <2>3, <2>4
  <2> HIDE DEF c
  <2>12. \A m \in r.nodes : m.call >= c.at /\ m.call # c.at
    BY <2>6, <2>9, <1>n
  <2>13. InHand(input, c, r, end)
    <3>1. r.to + 1 = end
      BY <2>2, <2>4
    <3> QED
      BY <3>1, <2>7, <2>11, <2>12 DEF InHand
  <2>14. NotOwn(c, r)
    BY <2>12 DEF NotOwn
  <2>15. Stacks'
    BY <2>1, <2>3, <2>10, <2>13, <2>14 DEF Stacks, Reading, Holding
  <2>16. TypeOK'
    BY <2>1, <2>2, <2>3, <2>5, <1>1 DEF TypeOK, PC, CallsOK
  <2>17. Nodes' \subseteq Nodes
    <3>1. ASSUME NEW m, Stacked(new, m) PROVE Stacked(calls, m)
      BY <2>3, <3>1 DEF Stacked
    <3> QED
      BY <3>1, <2>1, <2>6, NodesAre
  <2> QED
    BY <2>1, <2>15, <2>16, <2>17, NodesShrink DEF IInv
<1> QED
  BY <1>3, <1>4

\* The operand and the operator behind it go on the stacks.
LEMMA PushInv ==
    ASSUME IInv, pc \in {"op", "reduce"}, Curr \in Op,
           Top.ops # <<>> => pc = "op" /\ ~ BindsFirst(LastOf(Top.ops), pos),
           SetTop(Pushed(Top, ex, pos)), pos' = pos + 1, pc' = "operand",
           UNCHANGED <<input, ex>>
    PROVE  IInv'
<1> DEFINE d == Pushed(Top, ex, pos)
<1>1. /\ CallsOK(input, calls) /\ CallOK(input, Top) /\ Len(input) \in Nat /\ ";" \notin Op
      /\ \A p \in 1..Len(input) : input[p] # ";" => p + 1 \in 1..Len(input)
      /\ pos \in 1..Len(input) /\ Prec \in [Op -> Nat]
  BY StateFacts
<1>2. InHand(input, Top, ex, pos) /\ (pc = "op" => NotOwn(Top, ex))
  BY DEF IInv, Stacks, Holding
<1>3. input[pos] \in Op
  BY DEF Curr
<1>4. Top.ops # <<>> => NotOwn(Top, ex) /\ Prec[input[LastOf(Top.ops)]] < Prec[input[pos]]
  <2>1. SUFFICES ASSUME Top.ops # <<>> PROVE Prec[input[LastOf(Top.ops)]] < Prec[input[pos]]
    BY <1>2
  <2>2. ~ (Prec[input[pos]] <= Prec[input[LastOf(Top.ops)]])
    BY <2>1 DEF BindsFirst, PrecAt
  <2>3. LastOf(Top.ops) = Top.ops[Len(Top.ops)] /\ Len(Top.ops) \in 1..Len(Top.ops)
    BY <2>1, <1>1, BoundFacts
  <2>4. input[LastOf(Top.ops)] \in Op
    BY <2>3, <1>1 DEF CallOK, EntryOK
  <2>5. Prec[input[pos]] \in Nat /\ Prec[input[LastOf(Top.ops)]] \in Nat
    BY <2>4, <1>1, <1>3
  <2> QED
    BY <2>2, <2>5
<1>5. CallOK(input, d) /\ Bound(d) = pos
  <2>1. CallOK(input, Top) /\ InHand(input, Top, ex, pos) /\ Len(input) \in Nat
        /\ pos \in 1..Len(input) /\ Prec \in [Op -> Nat]
    BY <1>1, <1>2
  <2> QED
    BY <2>1, <1>3, <1>4, PushOK
<1>6. d.at = Top.at /\ d.ops = Append(Top.ops, pos) /\ d.output = Append(Top.output, ex)
  BY DEF Pushed
<1> HIDE DEF d
<1>7. CallsOK(input, calls') /\ Len(calls') = Len(calls) /\ calls'[Len(calls')] = d
      /\ \A k \in 1..(Len(calls) - 1) : calls'[k] = calls[k]
  <2>1. calls' = [calls EXCEPT ![Len(calls)] = d]
    BY DEF SetTop, d
  <2>2. d.at = calls[Len(calls)].at
    BY <1>6 DEF Top
  <2> QED
    <3>1. CallsOK(input, calls) /\ CallOK(input, d)
      BY <1>1, <1>5
    <3> DEFINE upd == [calls EXCEPT ![Len(calls)] = d]
    <3>2. CallsOK(input, upd) /\ Len(upd) = Len(calls) /\ upd[Len(upd)] = d
          /\ \A k \in 1..(Len(calls) - 1) : upd[k] = calls[k]
      BY <3>1, <2>2, ReplaceTop
    <3>3. calls' = upd
      BY <2>1
    <3> HIDE DEF upd
    <3> QED
      BY <3>2, <3>3
<1>8. Top' = d /\ pos' \in 1..Len(input)
  <2>1. input[pos] # ";"
    BY <1>1, <1>3
  <2> QED
    BY <2>1, <1>1, <1>7 DEF Top
<1>9. d.ops # <<>>
  <2>1. Top.ops \in Seq(Nat)
    BY StateFacts
  <2> QED
    BY <2>1, <1>6
<1>10. Stacks'
  BY <1>5, <1>7, <1>8, <1>9 DEF Stacks, Reading, Holding
<1>11. TypeOK'
  BY <1>7, <1>8 DEF IInv, TypeOK, CallsOK, PC
<1>12. Nodes' \subseteq Nodes
  <2>1. ASSUME NEW m, Stacked(calls', m) PROVE m \in ex.nodes \/ Stacked(calls, m)
    <3>1. PICK k \in 1..Len(calls) : \E i \in 1..Len(calls'[k].output) : m \in calls'[k].output[i].nodes
      BY <2>1, <1>7 DEF Stacked
    <3>2. PICK i \in 1..Len(calls'[k].output) : m \in calls'[k].output[i].nodes
      BY <3>1
    <3>3. CASE k \in 1..(Len(calls) - 1)
      BY <3>2, <3>3, <1>7 DEF Stacked
    <3>4. CASE k = Len(calls)
      <4>1. i \in 1..Len(d.output) /\ m \in d.output[i].nodes
        BY <3>2, <3>4, <1>7
      <4>2. Top.output \in Seq(Expr) /\ ex \in Expr
        BY StateFacts
      <4>3. \/ i \in 1..Len(Top.output) /\ d.output[i] = Top.output[i]
            \/ d.output[i] = ex
        BY <4>1, <4>2, <1>6
      <4> QED
        BY <4>1, <4>3, <3>4 DEF Stacked, Top
    <3>5. k \in 1..(Len(calls) - 1) \/ k = Len(calls)
      BY StateFacts
    <3> QED
      BY <3>3, <3>4, <3>5
  <2> QED
    BY <2>1, NodesAre
<1> QED
  BY <1>10, <1>11, <1>12, NodesShrink DEF IInv

\* The last operator is applied to the last operand and the one in hand.
LEMMA ApplyInv ==
    ASSUME IInv, Holding, Top.ops # <<>>,
           ex' = Binary(Top, ex), SetTop(Popped(Top)),
           pc' \in {"reduce", "drain"}, pc' = "reduce" => Curr \in Op,
           UNCHANGED <<input, pos>>
    PROVE  IInv'
<1> DEFINE d == Popped(Top)
           b == Binary(Top, ex)
           o == LastOf(Top.ops)
           l == LastOf(Top.output)
           x == [call |-> Top.at, op |-> o, from |-> l.from, to |-> ex.to]
<1>1. /\ CallsOK(input, calls) /\ CallOK(input, Top) /\ Len(input) \in Nat
      /\ pos \in 1..Len(input) /\ pos \in Nat /\ Top.output \in Seq(Expr) /\ Top.ops \in Seq(Nat)
  BY StateFacts
<1>2. InHand(input, Top, ex, pos)
  BY DEF IInv, Stacks
<1>3. CallOK(input, d) /\ d.at = Top.at /\ InHand(input, d, b, pos)
  BY <1>1, <1>2, PopOK
<1>4. d.ops = ButLast(Top.ops) /\ d.output = ButLast(Top.output)
  BY DEF Popped
<1>5. b.nodes = l.nodes \cup ex.nodes \cup {x}
  BY DEF Binary
<1>6. x.call = Top.at /\ x.op = o /\ x.to = ex.to
  OBVIOUS
<1>7. Len(Top.output) = Len(Top.ops) /\ Len(Top.ops) \in 1..Len(Top.ops) /\ Top.output # <<>>
      /\ l = Top.output[Len(Top.output)] /\ Bound(Top) = o /\ o \in Nat
  BY <1>1, BoundFacts DEF CallOK, LastOf
<1> HIDE DEF d, b, o, l, x
<1>8. CallsOK(input, calls') /\ Len(calls') = Len(calls) /\ calls'[Len(calls')] = d
      /\ \A k \in 1..(Len(calls) - 1) : calls'[k] = calls[k]
  <2>1. calls' = [calls EXCEPT ![Len(calls)] = d]
    BY DEF SetTop, d
  <2>2. d.at = calls[Len(calls)].at
    BY <1>3 DEF Top
  <2> QED
    <3>1. CallsOK(input, calls) /\ CallOK(input, d)
      BY <1>1, <1>3
    <3> DEFINE upd == [calls EXCEPT ![Len(calls)] = d]
    <3>2. CallsOK(input, upd) /\ Len(upd) = Len(calls) /\ upd[Len(upd)] = d
          /\ \A k \in 1..(Len(calls) - 1) : upd[k] = calls[k]
      BY <3>1, <2>2, ReplaceTop
    <3>3. calls' = upd
      BY <2>1
    <3> HIDE DEF upd
    <3> QED
      BY <3>2, <3>3
<1>9. Top' = d /\ ex' = b
  BY <1>8 DEF Top, b
<1>10. Stacks'
  BY <1>3, <1>8, <1>9 DEF Stacks, Reading, Holding, Curr
<1>11. TypeOK'
  <2>1. b \in Expr
    BY <1>3 DEF InHand, ExprOK
  <2> QED
    BY <2>1, <1>8, <1>9 DEF IInv, TypeOK, CallsOK, PC
<1>12. ASSUME NEW m \in Nodes' PROVE m = x \/ m \in ex.nodes \/ Stacked(calls, m)
  <2>1. Stacked(calls, m) \/ m \notin l.nodes
    BY <1>7, StateFacts DEF Stacked, Top
  <2>2. ASSUME Stacked(calls', m) PROVE Stacked(calls, m)
    <3>1. PICK k \in 1..Len(calls) : \E i \in 1..Len(calls'[k].output) : m \in calls'[k].output[i].nodes
      BY <2>2, <1>8 DEF Stacked
    <3>2. PICK i \in 1..Len(calls'[k].output) : m \in calls'[k].output[i].nodes
      BY <3>1
    <3>3. CASE k \in 1..(Len(calls) - 1)
      BY <3>2, <3>3, <1>8 DEF Stacked
    <3>4. CASE k = Len(calls)
      <4>1. i \in 1..Len(d.output) /\ m \in d.output[i].nodes
        BY <3>2, <3>4, <1>8
      <4>2. Len(d.output) = Len(Top.output) - 1 /\ \A j \in 1..(Len(Top.output) - 1) : d.output[j] = Top.output[j]
        BY <1>1, <1>4, <1>7, LastFacts
      <4>3. i \in 1..Len(Top.output) /\ d.output[i] = Top.output[i]
        BY <4>1, <4>2, <1>1
      <4> QED
        BY <4>1, <4>3, <3>4 DEF Stacked, Top
    <3>5. k \in 1..(Len(calls) - 1) \/ k = Len(calls)
      BY StateFacts
    <3> QED
      BY <3>3, <3>4, <3>5
  <2> QED
    BY <2>1, <2>2, <1>5, <1>9, NodesAre
<1>13. \A m : m \in ex.nodes \/ Stacked(calls, m) => m \in Nodes
  BY NodesAre
\* A node of the same call in the right operand of the new one is in hand.
<1>14. ASSUME NEW m, m \in ex.nodes \/ Stacked(calls, m), m.call = x.call, x.op < m.op
       PROVE  PrecAt(x.op) < PrecAt(m.op)
  <2>1. m \in ex.nodes
    <3>1. ~ (m.op < o) \/ m \notin Node
      BY <1>6, <1>7, <1>14 DEF Node
    <3> QED
      BY <3>1, <1>1, <1>6, <1>14, OwnNodes DEF o, Top
  <2>2. \A i \in 1..Len(Top.ops) : Prec[input[Top.ops[i]]] < Prec[input[m.op]]
    BY <2>1, <1>2, <1>6, <1>14 DEF InHand
  <2> QED
    BY <2>2, <1>6, <1>7 DEF PrecAt, o, LastOf
\* The new node is in no right operand.
<1>15. ASSUME NEW n, n \in ex.nodes \/ Stacked(calls, n), n.call = x.call, n.op < x.op
       PROVE  ~ (x.op <= n.to)
  <2>1. n \notin ex.nodes
    <3>1. ASSUME n \in ex.nodes PROVE FALSE
      <4>1. ex.from <= n.op /\ ex.from = o + 1 /\ ex \in Expr
        BY <3>1, <1>2, <1>7 DEF InHand, ExprOK
      <4>2. n.op \in Nat /\ ex.from \in Nat
        BY <3>1, <4>1 DEF Expr, Node
      <4> QED
        BY <4>1, <4>2, <1>6, <1>7, <1>15
    <3> QED
      BY <3>1
  <2>2. n \in Node /\ n.to < o
    BY <2>1, <1>1, <1>6, <1>15, OwnNodes DEF o, Top
  <2> QED
    BY <2>2, <1>6, <1>7 DEF Node
<1>16. RightBindsTighter'
  <2>1. SUFFICES ASSUME NEW m \in Nodes', NEW n \in Nodes',
                        m.call = n.call, n.op < m.op, m.op <= n.to
                 PROVE  PrecAt(n.op) < PrecAt(m.op)
    BY DEF RightBindsTighter, PrecAt
  <2>2. CASE m = x /\ n = x
    BY <2>1, <2>2, <1>6, <1>7
  <2>3. CASE n = x /\ m # x
    BY <2>1, <2>3, <1>12, <1>14
  <2>4. CASE m = x /\ n # x
    BY <2>1, <2>4, <1>12, <1>15
  <2>5. CASE m # x /\ n # x
    BY <2>1, <2>5, <1>12, <1>13 DEF IInv, RightBindsTighter
  <2> QED
    BY <2>2, <2>3, <2>4, <2>5
<1> QED
  BY <1>10, <1>11, <1>16 DEF IInv

LEMMA InitInv ==
    ASSUME Init
    PROVE  IInv
<1>1. input \in Inputs /\ pos = 1 /\ calls = <<NewCall(0)>> /\ ex = Leaf(0) /\ pc = "start"
  BY DEF Init
<1>2. input \in Seq(Token) /\ input # <<>>
  BY <1>1, ExprAssumption
<1>3. Len(input) \in Nat /\ 1 \in 1..Len(input)
  BY <1>2
<1>4. NewCall(0) \in Call /\ NewCall(0).at = 0 /\ NewCall(0).ops = <<>> /\ NewCall(0).output = <<>>
  BY DEF NewCall, Call
<1>5. CallOK(input, NewCall(0))
  BY <1>4 DEF CallOK, Rising
<1>6. calls \in Seq(Call) /\ Len(calls) = 1 /\ calls[1] = NewCall(0) /\ calls # <<>> /\ Top = NewCall(0)
  BY <1>1, <1>4 DEF Top
<1>7. CallsOK(input, calls)
  BY <1>5, <1>6 DEF CallsOK
<1>8. Stacks
  BY <1>1, <1>4, <1>6, <1>7 DEF Stacks, Bound, Reading, Holding
<1>9. ex \in Expr /\ ex.nodes = {}
  BY <1>1 DEF Leaf, Expr
<1>10. TypeOK
  BY <1>1, <1>3, <1>6, <1>9 DEF TypeOK, PC
<1>11. \A m : m \notin Nodes
  <2>1. \A m : ~ Stacked(calls, m)
    BY <1>4, <1>6 DEF Stacked
  <2> QED
    BY <2>1, <1>9, NodesAre
<1> QED
  BY <1>8, <1>10, <1>11 DEF IInv, RightBindsTighter

LEMMA LeafOK ==
    ASSUME NEW p \in Nat
    PROVE  ExprOK(Leaf(p)) /\ Leaf(p) \in Expr /\ Leaf(p).from = p /\ Leaf(p).to = p /\ Leaf(p).nodes = {}
BY DEF Leaf, Expr, ExprOK

LEMMA AbandonInv ==
    ASSUME IInv, NEW outcome \in {"error", "panic"}, Abandon(outcome)
    PROVE  IInv'
<1>1. UNCHANGED <<input, calls, ex>> /\ pos' = pos /\ pc' = outcome
  BY DEF Abandon
<1>2. pos' \in 1..Len(input) /\ pc' \in PC /\ ~ Reading' /\ ~ Holding' /\ pc' # "operand"
  BY <1>1, StateFacts DEF PC, Outcome, Reading, Holding
<1> QED
  BY <1>1, <1>2, SameStacks

LEMMA BeginInv ==
    ASSUME IInv, Begin
    PROVE  IInv'
<1>1. CASE Curr \in {"term"} \cup Prefix /\ pc' = "operand" /\ UNCHANGED <<input, pos, calls, ex>>
  <2>1. pc = "start"
    BY DEF Begin
  <2>2. pos' \in 1..Len(input) /\ pc' \in PC /\ ~ Holding' /\ input[pos'] \in {"term"} \cup Prefix
    BY <1>1, StateFacts DEF PC, Holding, Curr
  <2>3. pos' = Bound(Top) + 1
    BY <1>1, <2>1 DEF IInv, Stacks, Reading
  <2> QED
    BY <1>1, <2>2, <2>3, SameStacks
<1>2. CASE Curr = "bool" /\ Return(Leaf(pos), pos + 1)
  <2>1. pos = Bound(Top) + 1
    BY DEF Begin, IInv, Stacks, Reading
  <2>2. pos \in Nat /\ Top.at \in Nat /\ Bound(Top) \in Nat /\ Top.at <= Bound(Top)
    BY StateFacts
  <2>3. Top.at < Leaf(pos).from /\ Leaf(pos).to < pos + 1
    BY <2>1, <2>2, LeafOK
  <2>4. pos + 1 \in 1..Len(input)
    <3>1. input[pos] # ";"
      BY <1>2 DEF Curr
    <3> QED
      BY <3>1, StateFacts
  <2>5. ExprOK(Leaf(pos)) /\ Leaf(pos).nodes = {}
    BY <2>2, LeafOK
  <2> QED
    BY <1>2, <2>3, <2>4, <2>5, ReturnInv
<1>3. CASE Abandon("panic")
  BY <1>3, AbandonInv
<1> QED
  BY <1>1, <1>2, <1>3 DEF Begin

LEMMA LoopEndsInv ==
    ASSUME IInv, LoopEnds
    PROVE  IInv'
<1> DEFINE e == LastOf(Top.output)
           n == Len(Top.ops)
<1>1. pc = "operand" /\ Curr = ";" /\ Return(e, pos)
  BY DEF LoopEnds
<1>2. Top.ops # <<>>
  <2>1. Curr \notin {"term"} \cup Prefix
    BY <1>1 DEF Prefix
  <2> QED
    BY <1>1, <2>1 DEF IInv, Stacks
<1>3. /\ CallOK(input, Top) /\ Top.at \in Nat /\ Top.ops \in Seq(Nat)
      /\ pos \in Nat /\ pos \in 1..Len(input) /\ Bound(Top) \in Nat
  BY StateFacts
<1>4. n \in 1..n /\ Bound(Top) = Top.ops[n] /\ e = Top.output[n] /\ Top.at < Top.ops[n]
  BY <1>2, <1>3, BoundFacts
<1>5. EntryOK(input, Top, n) /\ Len(Top.output) = n
  BY <1>3, <1>4 DEF CallOK
<1> HIDE DEF e, n
<1>6. ExprOK(e) /\ e.to + 1 = Top.ops[n] /\ \A m \in e.nodes : m.call >= Top.at
  BY <1>4, <1>5 DEF EntryOK
<1>7. Top.at < e.from
  <2>1. e.from = (IF n = 1 THEN Top.at ELSE Top.ops[n - 1]) + 1
    BY <1>4, <1>5 DEF EntryOK
  <2>2. n # 1 => Top.at < Top.ops[n - 1] /\ Top.ops[n - 1] \in Nat
    <3>1. n # 1 => n - 1 \in 1..n
      <4>1. n \in Nat
        BY <1>3 DEF n
      <4> QED
        BY <4>1, <1>4
    <3>2. \A i \in 1..n : Top.at < Top.ops[i] /\ Top.ops[i] \in Nat
      BY <1>3, BoundFacts DEF n
    <3> QED
      BY <3>1, <3>2
  <2> QED
    BY <2>1, <2>2, <1>3
<1>8. e.to < pos
  <2>1. pos = Bound(Top) + 1
    BY <1>1 DEF IInv, Stacks, Reading
  <2>2. e.to \in Nat
    BY <1>6 DEF ExprOK, Expr
  <2> QED
    BY <2>1, <2>2, <1>3, <1>4, <1>6
<1>9. \A m \in e.nodes : m \in Nodes
  <2>1. \A m \in e.nodes : Stacked(calls, m)
    BY <1>4, <1>5, StateFacts DEF Stacked, Top
  <2> QED
    BY <2>1, NodesAre
<1> QED
  BY <1>1, <1>3, <1>6, <1>7, <1>8, <1>9, ReturnInv DEF e

LEMMA MakeOperandInv ==
    ASSUME IInv, MakeOperand
    PROVE  IInv'
<1>1. /\ pc = "operand" /\ Curr \in Operand /\ ex' = Leaf(pos) /\ pos' = pos + 1 /\ pc' = "op"
      /\ UNCHANGED <<input, calls>>
  BY DEF MakeOperand
<1>2. /\ CallsOK(input, calls) /\ pos \in Nat /\ input[pos] # ";" /\ pos + 1 \in 1..Len(input)
      /\ Top.at \in Nat /\ Bound(Top) \in Nat /\ Top.at <= Bound(Top)
  <2>1. input[pos] # ";"
    BY <1>1 DEF Curr, Operand
  <2> QED
    BY <2>1, StateFacts
<1>3. pos = Bound(Top) + 1
  BY <1>1 DEF IInv, Stacks, Reading
<1>4. InHand(input, Top, Leaf(pos), pos + 1) /\ NotOwn(Top, Leaf(pos)) /\ Leaf(pos) \in Expr
  BY <1>2, <1>3, LeafOK DEF InHand, NotOwn
<1>5. Stacks'
  BY <1>1, <1>2, <1>4 DEF Stacks, Reading, Holding, Top
<1>6. TypeOK'
  BY <1>1, <1>2, <1>4 DEF IInv, TypeOK, PC
<1>7. Nodes' \subseteq Nodes
  <2>1. ex'.nodes = {}
    BY <1>1, <1>2, LeafOK
  <2> QED
    BY <1>1, <2>1, NodesAre
<1> QED
  BY <1>1, <1>5, <1>6, <1>7, NodesShrink DEF IInv

LEMMA EnterPrefixInv ==
    ASSUME IInv, EnterPrefix
    PROVE  IInv'
<1> DEFINE new == Append(calls, NewCall(pos))
<1>1. /\ pc = "operand" /\ Curr \in Prefix /\ calls' = new
      /\ pos' = pos + 1 /\ pc' = "start" /\ UNCHANGED <<input, ex>>
  BY DEF EnterPrefix
<1>2. /\ CallsOK(input, calls) /\ pos \in 1..Len(input) /\ Len(input) \in Nat /\ pos + 1 \in 1..Len(input)
  <2>1. input[pos] # ";"
    BY <1>1 DEF Curr, Prefix
  <2> QED
    BY <2>1, StateFacts
<1>3. pos = Bound(calls[Len(calls)]) + 1
  BY <1>1 DEF IInv, Stacks, Reading, Top
<1>4. CallsOK(input, new) /\ Len(new) = Len(calls) + 1 /\ new[Len(new)] = NewCall(pos)
      /\ \A k \in 1..Len(calls) : new[k] = calls[k]
  BY <1>2, <1>3, AppendCall
<1> HIDE DEF new
<1>5. Top' = NewCall(pos) /\ Bound(NewCall(pos)) = pos /\ NewCall(pos).output = <<>>
  BY <1>1, <1>4 DEF Top, NewCall, Bound
<1>6. Stacks'
  BY <1>1, <1>4, <1>5 DEF Stacks, Reading, Holding
<1>7. TypeOK'
  BY <1>1, <1>2, <1>4 DEF IInv, TypeOK, PC, CallsOK
<1>8. Nodes' \subseteq Nodes
  <2>1. ASSUME NEW m, Stacked(new, m) PROVE Stacked(calls, m)
    <3>1. PICK k \in 1..Len(new) : \E i \in 1..Len(new[k].output) : m \in new[k].output[i].nodes
      BY <2>1 DEF Stacked
    <3>2. k # Len(new)
      BY <3>1, <1>4, <1>5
    <3>3. k \in 1..Len(calls)
      <4>1. Len(calls) \in Nat
        BY <1>2, TopFacts
      <4> QED
        BY <4>1, <3>2, <1>4
    <3> QED
      BY <3>1, <3>3, <1>4 DEF Stacked
  <2> QED
    BY <2>1, <1>1, NodesAre
<1> QED
  BY <1>1, <1>6, <1>7, <1>8, NodesShrink DEF IInv

LEMMA ReduceInv ==
    ASSUME IInv, Reduce
    PROVE  IInv'
<1>1. /\ Holding /\ Top.ops # <<>> /\ ex' = Binary(Top, ex) /\ SetTop(Popped(Top))
      /\ pc' = "reduce" /\ Curr \in Op /\ UNCHANGED <<input, pos>>
  BY DEF Reduce, ReduceFirst, Holding
<1> QED
  BY <1>1, ApplyInv

LEMMA ReduceRestInv ==
    ASSUME IInv, ReduceRest
    PROVE  IInv'
<1>1. pc = "reduce" /\ Holding /\ Curr \in Op
  BY DEF ReduceRest, IInv, Stacks, Holding
<1>2. CASE Top.ops # <<>>
  <2>1. ex' = Binary(Top, ex) /\ SetTop(Popped(Top)) /\ pc' = "reduce" /\ UNCHANGED <<input, pos>>
    BY <1>1, <1>2 DEF ReduceRest
  <2> QED
    BY <1>1, <1>2, <2>1, ApplyInv
<1>3. CASE Top.ops = <<>>
  <2>1. SetTop(Pushed(Top, ex, pos)) /\ pos' = pos + 1 /\ pc' = "operand" /\ UNCHANGED <<input, ex>>
    BY <1>3 DEF ReduceRest
  <2> QED
    BY <1>1, <1>3, <2>1, PushInv
<1> QED
  BY <1>2, <1>3

LEMMA ShiftInv ==
    ASSUME IInv, Shift
    PROVE  IInv'
<1>1. /\ pc = "op" /\ Curr \in Op /\ (Top.ops # <<>> => ~ BindsFirst(LastOf(Top.ops), pos))
      /\ SetTop(Pushed(Top, ex, pos)) /\ pos' = pos + 1 /\ pc' = "operand" /\ UNCHANGED <<input, ex>>
  BY DEF Shift, ReduceFirst
<1> QED
  BY <1>1, PushInv

LEMMA FinishInv ==
    ASSUME IInv, Finish
    PROVE  IInv'
<1>1. pc = "op" /\ pc' = "drain" /\ UNCHANGED <<input, calls, ex>> /\ pos' = pos
  BY DEF Finish
<1>2. /\ pos' \in 1..Len(input) /\ pc' \in PC /\ ~ Reading' /\ pc' # "operand"
      /\ Holding
  BY <1>1, StateFacts DEF PC, Reading, Holding
<1> QED
  BY <1>1, <1>2, SameStacks

LEMMA DrainInv ==
    ASSUME IInv, Drain
    PROVE  IInv'
<1>1. pc = "drain" /\ Holding
  BY DEF Drain, Holding
<1>2. CASE Top.ops # <<>>
  <2>1. ex' = Binary(Top, ex) /\ SetTop(Popped(Top)) /\ pc' = "drain" /\ UNCHANGED <<input, pos>>
    BY <1>1, <1>2 DEF Drain
  <2> QED
    BY <1>1, <1>2, <2>1, ApplyInv
<1>3. CASE Top.ops = <<>>
  <2>1. Return(ex, pos)
    BY <1>3 DEF Drain
  <2>2. InHand(input, Top, ex, pos)
    BY <1>1 DEF IInv, Stacks
  <2>3. pos \in 1..Len(input) /\ pos \in Nat /\ Top.at \in Nat
    BY StateFacts
  <2>4. ExprOK(ex) /\ ex.from = Top.at + 1 /\ ex.to + 1 = pos /\ \A m \in ex.nodes : m.call >= Top.at
    BY <2>2, <1>3 DEF InHand, Bound
  <2>5. Top.at < ex.from /\ ex.to < pos
    <3>1. ex.to \in Nat
      BY <2>4 DEF ExprOK, Expr
    <3> QED
      BY <3>1, <2>3, <2>4
  <2>6. \A m \in ex.nodes : m \in Nodes
    BY NodesAre
  <2> QED
    BY <2>1, <2>3, <2>4, <2>5, <2>6, ReturnInv
<1> QED
  BY <1>2, <1>3

LEMMA NextInv ==
    ASSUME IInv, [Next]_vars
    PROVE  IInv'
<1>1. CASE Begin
  BY <1>1, BeginInv
<1>2. CASE LoopEnds
  BY <1>2, LoopEndsInv
<1>3. CASE MakeOperand
  BY <1>3, MakeOperandInv
<1>4. CASE EnterPrefix
  BY <1>4, EnterPrefixInv
<1>5. CASE NoOperand
  BY <1>5, AbandonInv DEF NoOperand
<1>6. CASE NoOp
  BY <1>6, AbandonInv DEF NoOp
<1>7. CASE Shift
  BY <1>7, ShiftInv
<1>8. CASE Reduce
  BY <1>8, ReduceInv
<1>9. CASE ReduceRest
  BY <1>9, ReduceRestInv
<1>10. CASE Finish
  BY <1>10, FinishInv
<1>11. CASE Drain
  BY <1>11, DrainInv
<1>12. CASE UNCHANGED vars
  <2>1. TypeOK'
    BY <1>12 DEF IInv, TypeOK, vars
  <2>2. Stacks'
    BY <1>12 DEF IInv, Stacks, vars, Top, Curr, Reading, Holding
  <2>3. Nodes' = Nodes
    BY <1>12, NodesAre DEF vars
  <2> QED
    BY <2>1, <2>2, <2>3, <1>12, NodesShrink DEF IInv, vars
<1> QED
  BY <1>1, <1>2, <1>3, <1>4, <1>5, <1>6, <1>7, <1>8, <1>9, <1>10, <1>11, <1>12 DEF Next

-----------------------------------------------------------------------------
(* The theorems *)

\* The inductive invariant of make_expr holds on every input.
THEOREM InvariantHolds == Spec => []IInv
<1>1. Init => IInv
  BY InitInv
<1>2. IInv /\ [Next]_vars => IInv'
  BY NextInv
<1> QED
  BY <1>1, <1>2, PTL DEF Spec

LEMMA StacksAreInOrder ==
    ASSUME IInv
    PROVE  StacksInOrder
<1> SUFFICES ASSUME NEW k \in 1..Len(calls)
             PROVE  LET c == calls[k] IN
                      /\ Len(c.output) = Len(c.ops)
                      /\ \A i \in 1..Len(c.ops) :
                           /\ c.output[i].to + 1 = c.ops[i]
                           /\ c.output[i].from = (IF i = 1 THEN c.at ELSE c.ops[i - 1]) + 1
                      /\ k = Len(calls) /\ pc \in {"op", "reduce", "drain"} =>
                           /\ ex.from = (IF c.ops = <<>> THEN c.at ELSE LastOf(c.ops)) + 1
                           /\ ex.to + 1 = pos
  BY DEF StacksInOrder
<1>1. CallOK(input, calls[k])
  BY DEF IInv, Stacks, CallsOK
<1>2. Len(calls[k].output) = Len(calls[k].ops) /\ \A i \in 1..Len(calls[k].ops) : EntryOK(input, calls[k], i)
  BY <1>1 DEF CallOK
<1>3. ASSUME NEW i \in 1..Len(calls[k].ops)
      PROVE  /\ calls[k].output[i].to + 1 = calls[k].ops[i]
             /\ calls[k].output[i].from = (IF i = 1 THEN calls[k].at ELSE calls[k].ops[i - 1]) + 1
  BY <1>2 DEF EntryOK
<1>4. k = Len(calls) /\ pc \in {"op", "reduce", "drain"} =>
         ex.from = Bound(calls[k]) + 1 /\ ex.to + 1 = pos
  BY DEF IInv, Stacks, Holding, InHand, Top
<1> QED
  BY <1>2, <1>3, <1>4 DEF Bound

\* Whatever make_expr is given, its variables have their types: no index leaves
\* the token stream and every node is built from two operands.
THEOREM ParserTypes == Spec => []TypeOK
<1>1. IInv => TypeOK
  BY DEF IInv
<1> QED
  BY <1>1, InvariantHolds, PTL

\* On any token stream, malformed ones included, no operand or operator is
\* lost, used twice or taken out of order, and output.pop() never fails.
THEOREM OperandsStayInOrder == Spec => []StacksInOrder
<1>1. IInv => StacksInOrder
  BY StacksAreInOrder
<1> QED
  BY <1>1, InvariantHolds, PTL

\* For any operators and precedences: everything in the right operand of an
\* operator that the same call of make_expr applied binds tighter than it.
THEOREM RightOperandsBindTighter == Spec => []RightBindsTighter
<1>1. IInv => RightBindsTighter
  BY DEF IInv
<1> QED
  BY <1>1, InvariantHolds, PTL
=============================================================================
