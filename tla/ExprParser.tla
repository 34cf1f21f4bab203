----------------------------- MODULE ExprParser -----------------------------
(***************************************************************************)
(* make_expr of ast/parse.rs: the shunting-yard parser for operator        *)
(* expressions, with the recursion of advance_to_op into parentheses and   *)
(* behind `!`, `~` and `&`.  One element of `calls` is one active call of  *)
(* make_expr; every turn of its loops is a step.                           *)
(*                                                                         *)
(* A token is a whole operand (identifier, call, index, dereference or     *)
(* literal with its sign), an operator, or what delimits them.  An         *)
(* expression is the range of tokens it covers with its binary nodes; a    *)
(* node is the place of its operator and the range of its two operands.    *)
(***************************************************************************)
EXTENDS Naturals, Sequences, FiniteSets

CONSTANTS
    Op,       \* the binary operators make_op can return
    Prec,     \* AssocOp::precedence; all of them are left associative
    Inputs    \* token sequences, each ending with the `;` of a statement

Operand == {"term", "bool"}      \* "bool" is `true` or `false`
Prefix == {"(", "!"}             \* "!" stands for `~` and the unary `&`, too
Stop == {")", "stop", ";"}       \* "stop" is `]`, `}`, `{` or `,`

Token == Op \cup Operand \cup Prefix \cup Stop

ASSUME ExprAssumption ==
    /\ Prec \in [Op -> Nat]
    /\ Op \cap (Operand \cup Prefix \cup Stop) = {}
    /\ Inputs \subseteq Seq(Token)
    /\ \A s \in Inputs : s # <<>> /\ s[Len(s)] = ";"

VARIABLES
    input,
    pos,      \* the token in self.curr
    calls,    \* active calls of make_expr, innermost last
    ex,       \* the expression being built: `ex`, `finish`, `rhs`
    pc

vars == <<input, pos, calls, ex, pc>>

Outcome == {"ok", "error", "panic"}

PC == {"start", "operand", "op", "reduce", "drain"} \cup Outcome

Node == [call : Nat, op : Nat, from : Nat, to : Nat]
Expr == [from : Nat, to : Nat, nodes : SUBSET Node]

\* A call knows the token that led to it (0 for the outermost).
Call == [at : Nat, output : Seq(Expr), ops : Seq(Nat)]

NewCall(at) == [at |-> at, output |-> <<>>, ops |-> <<>>]

Leaf(i) == [from |-> i, to |-> i, nodes |-> {}]

Top == calls[Len(calls)]
Curr == input[pos]
LastOf(s) == s[Len(s)]
ButLast(s) == SubSeq(s, 1, Len(s) - 1)

PrecAt(i) == Prec[input[i]]

Init ==
    /\ input \in Inputs
    /\ pos = 1
    /\ calls = <<NewCall(0)>>
    /\ ex = Leaf(0)
    /\ pc = "start"

SetTop(c) == calls' = [calls EXCEPT ![Len(calls)] = c]

\* `?` or a panic leaves every active call.
Abandon(outcome) ==
    /\ pc' = outcome
    /\ UNCHANGED <<input, pos, calls, ex>>

\* The parenthesis is left to the caller's caller.
Mut_ClosesAt(next) == FALSE

\* eat_if(&TokenMatch::CloseParen) behind a parenthesized expression.
ClosesAt(next) == input[Top.at] = "(" /\ input[next] = ")"

\* make_expr returns e, and advance_to_op of the caller wraps it up: behind a
\* parenthesis `)` is eaten if it is there.
Return(e, next) ==
    IF Len(calls) = 1
    THEN /\ ex' = e
         /\ pos' = next
         /\ pc' = "ok"
         /\ UNCHANGED <<input, calls>>
    ELSE LET end == IF ClosesAt(next) THEN next + 1 ELSE next
         IN  /\ ex' = [from |-> Top.at, to |-> end - 1, nodes |-> e.nodes]
             /\ pos' = end
             /\ calls' = ButLast(calls)
             /\ pc' = "op"
             /\ UNCHANGED input

-----------------------------------------------------------------------------
(* make_expr *)

\* What make_expr looks at before its loop: `true` and `false` are returned at
\* once, whatever follows them; a token no expression begins with is a panic.
Begin ==
    /\ pc = "start"
    /\ \/ /\ Curr \in {"term"} \cup Prefix
          /\ pc' = "operand"
          /\ UNCHANGED <<input, pos, calls, ex>>
       \/ /\ Curr = "bool"
          /\ Return(Leaf(pos), pos + 1)
       \/ /\ Curr \notin Operand \cup Prefix
          /\ Abandon("panic")

\* `while self.curr.kind != TokenMatch::Semi` ends: the operator before it has
\* no right operand, and the last operand is all that is returned.
LoopEnds ==
    /\ pc = "operand"
    /\ Curr = ";"
    /\ Return(LastOf(Top.output), pos)

-----------------------------------------------------------------------------
(* advance_to_op: the operand *)

MakeOperand ==
    /\ pc = "operand"
    /\ Curr \in Operand
    /\ ex' = Leaf(pos)
    /\ pos' = pos + 1
    /\ pc' = "op"
    /\ UNCHANGED <<input, calls>>

\* After a prefix: make_expr for everything up to the next token that is no
\* operator.
EnterPrefix ==
    /\ pc = "operand"
    /\ Curr \in Prefix
    /\ calls' = Append(calls, NewCall(pos))
    /\ pos' = pos + 1
    /\ pc' = "start"
    /\ UNCHANGED <<input, ex>>

NoOperand ==
    /\ pc = "operand"
    /\ Curr \notin Operand \cup Prefix \cup {";"}
    /\ Abandon("error")

-----------------------------------------------------------------------------
(* make_op and the two stacks *)

\* Expr::Binary of the last operand on the output, the last operator and e.
Binary(c, e) ==
    LET l == LastOf(c.output)
    IN  [from |-> l.from, to |-> e.to,
         nodes |-> l.nodes \cup e.nodes
                     \cup {[call |-> c.at, op |-> LastOf(c.ops), from |-> l.from, to |-> e.to]}]

\* last() in place of pop(), for both stacks and for the output only.
Mut_PoppedNone(c) == c
Mut_PoppedOps(c) == [c EXCEPT !.ops = ButLast(@)]

Popped(c) == [at |-> c.at, output |-> ButLast(c.output), ops |-> ButLast(c.ops)]

Pushed(c, e, i) == [at |-> c.at, output |-> Append(c.output, e), ops |-> Append(c.ops, i)]

\* next.precedence() < prev.precedence(), the left fixity forgotten.
Mut_BindsFirst(prev, next) == PrecAt(next) < PrecAt(prev)

\* Is the operator on the stack to be applied before the incoming one?
BindsFirst(prev, next) == PrecAt(next) <= PrecAt(prev)

ReduceFirst == Top.ops # <<>> /\ BindsFirst(LastOf(Top.ops), pos)

\* Any token that neither is an operator nor ends an expression is a todo!().
NoOp ==
    /\ pc = "op"
    /\ Curr \in Operand \cup Prefix
    /\ Abandon("panic")

\* Some(prev) of lower precedence, or None: both go on the stacks.
Shift ==
    /\ pc = "op"
    /\ Curr \in Op
    /\ ~ ReduceFirst
    /\ SetTop(Pushed(Top, ex, pos))
    /\ pos' = pos + 1
    /\ pc' = "operand"
    /\ UNCHANGED <<input, ex>>

\* Some(prev) of higher or the same precedence is applied.
Reduce ==
    /\ pc = "op"
    /\ Curr \in Op
    /\ ReduceFirst
    /\ ex' = Binary(Top, ex)
    /\ SetTop(Popped(Top))
    /\ pc' = "reduce"
    /\ UNCHANGED <<input, pos>>

\* `while let Some(lfix_op) = opstack.pop()`: then everything else that is on
\* the stack, since every operator is left associative.
ReduceRest ==
    /\ pc = "reduce"
    /\ \/ /\ Top.ops # <<>>
          /\ ex' = Binary(Top, ex)
          /\ SetTop(Popped(Top))
          /\ UNCHANGED <<input, pos, pc>>
       \/ /\ Top.ops = <<>>
          /\ SetTop(Pushed(Top, ex, pos))
          /\ pos' = pos + 1
          /\ pc' = "operand"
          /\ UNCHANGED <<input, ex>>

\* make_op finds no operator: the stacks are processed.
Finish ==
    /\ pc = "op"
    /\ Curr \in Stop
    /\ pc' = "drain"
    /\ UNCHANGED <<input, pos, calls, ex>>

\* match (output.pop(), opstack.pop())
Drain ==
    /\ pc = "drain"
    /\ \/ /\ Top.ops # <<>>
          /\ ex' = Binary(Top, ex)
          /\ SetTop(Popped(Top))
          /\ UNCHANGED <<input, pos, pc>>
       \/ /\ Top.ops = <<>>
          /\ Return(ex, pos)

Next ==
    \/ Begin \/ LoopEnds
    \/ MakeOperand \/ EnterPrefix \/ NoOperand
    \/ NoOp \/ Shift \/ Reduce \/ ReduceRest
    \/ Finish \/ Drain

Spec == Init /\ [][Next]_vars

\* A sequential program: it goes on while it can.
FairSpec == Spec /\ WF_vars(Next)

-----------------------------------------------------------------------------
(* Properties *)

TypeOK ==
    /\ input \in Inputs
    /\ pos \in 1..Len(input)
    /\ calls \in Seq(Call) /\ calls # <<>>
    /\ ex \in Expr
    /\ pc \in PC

\* The expressions and operators a call has on its stacks follow one another
\* without a gap, from the token behind its opening up to the current one: no
\* operand or operator is lost, used twice or taken out of order, and the
\* output.pop().unwrap() of the two reductions always finds an operand.
StacksInOrder ==
    \A k \in 1..Len(calls) :
        LET c == calls[k] IN
          /\ Len(c.output) = Len(c.ops)
          /\ \A i \in 1..Len(c.ops) :
               /\ c.output[i].to + 1 = c.ops[i]
               /\ c.output[i].from = (IF i = 1 THEN c.at ELSE c.ops[i - 1]) + 1
          /\ k = Len(calls) /\ pc \in {"op", "reduce", "drain"} =>
               /\ ex.from = (IF c.ops = <<>> THEN c.at ELSE LastOf(c.ops)) + 1
               /\ ex.to + 1 = pos

\* The nodes of everything built so far.
Nodes ==
    ex.nodes \cup UNION {UNION {calls[k].output[i].nodes : i \in 1..Len(calls[k].output)} :
                            k \in 1..Len(calls)}

\* `a - b - c` is never `a - (b - c)`, nor `a * b + c` ever `a * (b + c)`: the
\* operators in the right operand of an operator all have a higher precedence.
RightBindsTighter ==
    \A m, n \in Nodes :
        m.call = n.call /\ n.op < m.op /\ m.op <= n.to => PrecAt(n.op) < PrecAt(m.op)

\* How often t is among the first i tokens.
Count(t, i) == Cardinality({j \in 1..i : input[j] = t})

\* An operator expression in the usual grammar, ended by its `;`.
WellFormed ==
    LET n == Len(input) - 1
        ends(i) == i = 0 \/ input[i] \in Op \cup Prefix
    IN  /\ n > 0 /\ ~ ends(n)
        /\ \A i \in 1..n :
             /\ input[i] \notin {"stop", ";"}
             /\ input[i] \in {"term", "bool"} \cup Prefix <=> ends(i - 1)
             /\ Count(")", i) <= Count("(", i)
        /\ Count(")", n) = Count("(", n)

\* `true` or `false` is what the expression, or one in parentheses, begins with,
\* and more follows: make_expr returns it at once.
BoolFirst ==
    \E i \in 1..(Len(input) - 1) :
        /\ input[i] = "bool" /\ input[i + 1] \in Op
        /\ i = 1 \/ input[i - 1] = "("

\* One tree covers all tokens, and each operator is applied once in it.
AcceptedWhole ==
    /\ pc = "ok"
    /\ ex.from = 1 /\ ex.to = Len(input) - 1
    /\ {n.op : n \in ex.nodes} = {i \in 1..Len(input) : input[i] \in Op}
    /\ \A m, n \in ex.nodes : m.op = n.op => m = n

\* Every well-formed expression is accepted as a whole, also with `true` or
\* `false` as an operand; not, however, if one of them begins it and an operator
\* follows.
AcceptsWellFormed == pc \in Outcome /\ WellFormed /\ ~ BoolFirst => AcceptedWhole

\* The loops come to an end on every input, the malformed ones included.
ParseEnds == <>(pc \in Outcome)

-----------------------------------------------------------------------------
(* What the documentation says, and the code does not do *)

\* ops.rs: AssocOp "specifies operator precedence and fixity to the parser":
\* whatever lies in the operands of an operator is applied before it because it
\* binds tighter, or as tight and further left.
PrecedenceRespected ==
    \A m, n \in Nodes :
        m.call = n.call /\ m.op # n.op /\ n.from <= m.op /\ m.op <= n.to =>
            PrecAt(n.op) < PrecAt(m.op) \/ (PrecAt(n.op) = PrecAt(m.op) /\ m.op < n.op)

\* make_expr: `Expected("a term", "only the {} operand")`: an operator without a
\* right operand is an error.
DanglingOperatorRejected ==
    pc = "ok" => \A i \in 1..(pos - 1) : input[i] \in Op => input[i + 1] # ";"

\* make_expr: "This handles top-level expressions": `true && x` is one, and only
\* `true` is parsed.
BoolOperandsAccepted == pc \in Outcome /\ WellFormed => AcceptedWhole

=============================================================================
