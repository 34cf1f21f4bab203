------------------------------ MODULE CodeGen ------------------------------
(***************************************************************************)
(* The code generator for straight-line code: build_value walks one        *)
(* expression, hands out registers, spills, and emits instructions that    *)
(* are executed here as they are emitted, so that what the code computes   *)
(* can be compared with what the expression means.                         *)
(*                                                                         *)
(* The recursion of build_value is the sequence work of what is left to    *)
(* do; an expression is chosen node by node while it is walked.  Every     *)
(* value has 8 bytes, stack offsets are counted in slots of 8 bytes.       *)
(* Floats, strings, globals and nested indexing are left out.              *)
(***************************************************************************)
EXTENDS Integers, Sequences, FiniteSets, SequencesExt

CONSTANTS
    RegOrder,   \* the usable registers, in the order their set is walked
    ArgRegs,    \* ARG_REGS
    Params,     \* initial values of the integer parameters p1, p2, ...
    Lits,       \* literals an expression may contain
    LeftConst,  \* may a comparison have a literal on its left?
    Fragments,  \* parts of the language: see below
    MaxSlots    \* bound: slots of the stack

Regs == {RegOrder[i] : i \in 1..Len(RegOrder)}
Cmp == {"lt", "eq"}

\* A function is written with some operators, kinds of expression and kinds of
\* statement, and calls functions whose bodies write the registers clobbers.
\* Bounds: its statements, the nodes of their expressions, arguments per call.
ASSUME CodeGenAssumption ==
    /\ Len(RegOrder) \in Nat /\ Params \in Seq(Int)
    /\ \A i \in 1..Len(ArgRegs) : ArgRegs[i] \in Regs
    /\ {"RAX", "RDX"} \subseteq Regs
    /\ "none" \notin Regs
    /\ \A f \in Fragments : /\ f.clobbers \subseteq Regs
                            /\ f.maxArgs \in 0..Len(ArgRegs)
    /\ \A v \in Lits : v > 0
    /\ Len(Params) <= Len(ArgRegs) /\ MaxSlots > Len(Params)

VARIABLES
    frag,     \* the fragment the function is written in
    cpu,      \* registers, stack and what the generator knows of them
    work,     \* what is left of the walk, next task first
    opnds,    \* the locations build_value has returned, not yet used
    calls,    \* the calls whose arguments are being built
    vars,     \* where each variable lives, in order of declaration
    env,      \* what the slots of the variables must contain
    nodes,    \* expression nodes so far
    done,     \* the last binary operation: operator, wanted, computed
    phase     \* "run", "end", "panic"

cgvars == <<frag, cpu, work, opnds, calls, vars, env, nodes, done, phase>>

Ops == frag.ops
Kinds == frag.kinds
Stmts == frag.stmts
Clobbers == frag.clobbers
MaxNodes == frag.maxNodes
MaxStmts == frag.maxStmts
MaxArgs == frag.maxArgs

-----------------------------------------------------------------------------
(* Locations and the machine *)

InReg(r) == [k |-> "reg", r |-> r, n |-> 0]
Slot(n)  == [k |-> "stack", r |-> "none", n |-> n]     \* -8n(%rbp)
At(r)    == [k |-> "at", r |-> r, n |-> 0]             \* (%r)
Lit(v)   == [k |-> "const", r |-> "none", n |-> v]

is_stack_offset(loc) == loc.k \in {"stack", "at"}

\* Addresses of slots, and a value nothing computes.
Addr(n) == 1000 - 8 * n
SlotAt(a) == (1000 - a) \div 8
IsAddr(a) == \E n \in 1..MaxSlots : a = Addr(n)
Junk == -777

Read(s, loc) ==
    CASE loc.k = "reg"   -> s.regs[loc.r]
      [] loc.k = "stack" -> s.mem[loc.n]
      [] loc.k = "const" -> loc.n
      [] loc.k = "at"    -> IF IsAddr(s.regs[loc.r])
                            THEN s.mem[SlotAt(s.regs[loc.r])] ELSE Junk

\* A write to an address that is no slot hits memory of someone else, and a
\* literal is no destination at all.
Write(s, loc, v) ==
    CASE loc.k = "reg"   -> [s EXCEPT !.regs[loc.r] = v]
      [] loc.k = "stack" -> [s EXCEPT !.mem[loc.n] = v]
      [] loc.k = "at"    -> IF IsAddr(s.regs[loc.r])
                            THEN [s EXCEPT !.mem[SlotAt(s.regs[loc.r])] = v]
                            ELSE [s EXCEPT !.wild = TRUE]
      [] OTHER -> [s EXCEPT !.wild = TRUE]

\* The machine has no move from memory to memory.
Mov(s, src, dst) ==
    IF is_stack_offset(src) /\ is_stack_offset(dst)
    THEN [Write(s, dst, Read(s, src)) EXCEPT !.wild = TRUE]
    ELSE Write(s, dst, Read(s, src))
Push(s, v) == [s EXCEPT !.sp = @ + 1, !.mem[s.sp + 1] = v]
Pop(s, r) == [s EXCEPT !.sp = @ - 1, !.regs[r] = s.mem[s.sp]]
\* The registers rs, pushed in this order, are popped the other way round.
PopAll(s, rs) ==
    LET bottom == s.sp - Len(rs)
        places(r) == {i \in DOMAIN rs : rs[i] = r}
    IN  [s EXCEPT !.sp = bottom,
                  !.regs = [r \in DOMAIN @ |->
                              IF places(r) = {} THEN s.regs[r]
                              ELSE s.mem[bottom + Min(places(r))]]]
Alloca(s, n) == [s EXCEPT !.sp = @ + n]
Lea(s, loc, r) ==
    [s EXCEPT !.regs[r] = IF loc.k = "stack" THEN Addr(loc.n) ELSE s.regs[loc.r]]

Quot(a, b) ==
    LET abs(x) == IF x < 0 THEN -x ELSE x
        q == abs(a) \div abs(b)
    IN  IF (a < 0) = (b < 0) THEN q ELSE -q

\* What an operator means, and what its instruction leaves in dst.
Meaning(op, a, b) ==
    CASE op = "add" -> a + b
      [] op = "sub" -> a - b
      [] op = "mul" -> a * b
      [] op = "div" -> IF b = 0 THEN Junk ELSE Quot(a, b)
      [] op = "rem" -> IF b = 0 THEN Junk ELSE a - b * Quot(a, b)
      [] op = "lt"  -> IF a < b THEN 1 ELSE 0
      [] op = "eq"  -> IF a = b THEN 1 ELSE 0

Math(s, op, src, dst) == Write(s, dst, Meaning(op, Read(s, dst), Read(s, src)))

\* cdq fills edx from eax, and clears the upper half of rdx; idiv then divides
\* rdx:rax, and traps when the quotient does not fit.
Idiv(s, loc) ==
    LET a == s.regs["RAX"]
        b == Read(s, loc)
    IN  IF a < 0 \/ b = 0
        THEN [s EXCEPT !.trap = TRUE]
        ELSE [s EXCEPT !.regs["RAX"] = Quot(a, b),
                       !.regs["RDX"] = a - b * Quot(a, b)]

-----------------------------------------------------------------------------
(* The register pool *)

\* The first register of the set that is not used; "none" stands for the
\* panic "ran out of registers".
FirstFree(s, except) ==
    LET free == {i \in 1..Len(RegOrder) : RegOrder[i] \notin s.used \cup except}
    IN  IF free = {} THEN "none"
        ELSE RegOrder[CHOOSE i \in free : \A j \in free : i <= j]

free_reg(s) == FirstFree(s, {})
free_reg_except(s, r) == FirstFree(s, {r})
use_reg(s, r) == [s EXCEPT !.used = @ \cup {r}]

\* Only the registers kept stay used; a panic is not undone.
release(s, kept) == [s EXCEPT !.used = kept \cup (@ \cap {"none"})]

\* Mutant: the test of can_clear is turned round.
Mut_clear_regs_except(s, loc, can_clear) ==
    IF can_clear THEN s ELSE release(s, IF loc.k = "reg" THEN {loc.r} ELSE {})

clear_regs_except(s, loc, can_clear) ==
    IF ~ can_clear THEN s ELSE release(s, IF loc.k = "reg" THEN {loc.r} ELSE {})

OutOfRegs(s) == "none" \in s.used

\* Take a register and move loc into it; the location is then the register.
IntoReg(s, loc) ==
    LET r == free_reg(s)
    IN  [s |-> Mov(use_reg(s, r), loc, InReg(r)), loc |-> InReg(r)]

-----------------------------------------------------------------------------
(* Binary operations.  c holds the machine, the two locations and flags. *)

\* Mutant: a subtraction is not swapped.
Mut_order_operands(s, op, l, r) ==
    LET t == IntoReg(s, r)
    IN  IF r.k # "const" THEN [s |-> s, l |-> l, r |-> r, swapped |-> FALSE]
        ELSE IF op \in {"sub", "div", "rem"}
        THEN [s |-> t.s, l |-> l, r |-> t.loc, swapped |-> TRUE]
        ELSE [s |-> s, l |-> r, r |-> l, swapped |-> TRUE]

\* A literal goes to the left where that does no harm, else into a register;
\* the operands of a subtraction are swapped, as sub leaves dst - src.
order_operands(s, op, l, r) ==
    LET sub == op = "sub"
        left  == IF sub THEN r ELSE l
        right == IF sub THEN l ELSE r
        t == IntoReg(s, right)
    IN  IF right.k # "const"
        THEN [s |-> s, l |-> left, r |-> right, swapped |-> sub]
        ELSE IF op \in {"sub", "div", "rem"}
        THEN [s |-> t.s, l |-> left, r |-> t.loc, swapped |-> TRUE]
        ELSE [s |-> s, l |-> right, r |-> left, swapped |-> TRUE]

\* An operand that is an array element is an address so far.
LoadLeft(c) ==
    LET t == IntoReg(c.s, At(c.l.r))
    IN  IF c.l.k = "reg" THEN [c EXCEPT !.s = t.s, !.l = t.loc] ELSE c

LoadRight(c) ==
    LET t == IntoReg(c.s, At(c.r.r))
    IN  IF c.r.k = "reg" THEN [c EXCEPT !.s = t.s, !.r = t.loc] ELSE c

LoadElements(c, larr, rarr) ==
    LET c1 == IF ~ larr THEN c ELSE IF c.swapped THEN LoadRight(c) ELSE LoadLeft(c)
    IN  IF ~ rarr THEN c1 ELSE IF c.swapped THEN LoadLeft(c1) ELSE LoadRight(c1)

RightInReg(c) ==
    LET t == IntoReg(c.s, c.r)
    IN  IF is_stack_offset(c.r) THEN [c EXCEPT !.s = t.s, !.r = t.loc] ELSE c

\* cmp src, dst sets the flags of dst - src.
from_binop_cmp(c, op) ==
    LET cond == free_reg(c.s)
        s1 == use_reg(c.s, cond)
        src == IF c.l.k = "const" THEN c.l ELSE c.r
        dst == IF c.l.k = "const" THEN c.r ELSE c.l
        t == IF is_stack_offset(dst) THEN IntoReg(s1, dst) ELSE [s |-> s1, loc |-> dst]
        s2 == Mov(t.s, Lit(0), InReg(cond))
        flag == Meaning(op, Read(s2, t.loc), Read(s2, src)) = 1
    IN  [c EXCEPT !.s = IF flag THEN Mov(s2, Lit(1), InReg(cond)) ELSE s2,
                  !.r = InReg(cond)]

\* Save reg if it is used; an operand that is in it moves to another register.
SpillFor(c, reg, other) ==
    LET s1 == Push(c.s, c.s.regs[reg])
        new == free_reg_except(s1, other)
        s2 == Pop(use_reg(s1, new), new)
        moved == c.r = InReg(reg) \/ c.l = InReg(reg)
    IN  IF reg \notin c.s.used THEN [c |-> c, spilled |-> FALSE]
        ELSE IF ~ moved THEN [c |-> [c EXCEPT !.s = s1], spilled |-> TRUE]
        ELSE [c |-> [c EXCEPT !.s = s2,
                              !.r = IF @ = InReg(reg) THEN InReg(new) ELSE @,
                              !.l = IF @ = InReg(reg) THEN InReg(new) ELSE @],
              spilled |-> FALSE]

Divide(c) ==
    LET a == SpillFor(c, "RAX", "RDX")
        d == SpillFor(a.c, "RDX", "RAX")
        s1 == Mov(d.c.s, d.c.l, InReg("RAX"))
        s2 == Mov(Idiv(s1, d.c.r), InReg("RAX"), d.c.r)
        s3 == IF a.spilled /\ d.c.r # InReg("RAX") THEN Pop(s2, "RAX") ELSE s2
        s4 == IF d.spilled /\ d.c.l # InReg("RDX") THEN Pop(s3, "RDX") ELSE s3
    IN  [d.c EXCEPT !.s = s4]

from_binop(c, op) == [c EXCEPT !.s = Math(c.s, op, c.l, c.r)]

\* The arm Expr::Binary after both operands are built: where the operands are
\* when the operator is applied, and the code for it.
Operands(s, op, x, y) ==
    RightInReg(LoadElements(order_operands(s, op, x.loc, y.loc), x.arr, y.arr))

OperatorCode(c, op) ==
    CASE op \in Cmp            -> from_binop_cmp(c, op)
      [] op \in {"div", "rem"} -> Divide(c)
      [] OTHER                 -> from_binop(c, op)

\* The address of an element of the array in slot n; slots grow downwards.
\* Without is_addr the slot is taken to hold the address of the array.
index_arr(s, n, idx, is_addr) ==
    LET tmp == free_reg(s)
        s1 == use_reg(s, tmp)
        arr == free_reg(s1)
        s2 == use_reg(s1, arr)
        s3 == IF idx.k = "const" THEN s2
              ELSE Math(Mov(s2, idx, InReg(tmp)), "mul", Lit(8), InReg(tmp))
        s4 == IF is_addr THEN Lea(s3, Slot(n), arr) ELSE Mov(s3, Slot(n), InReg(arr))
        by == IF idx.k = "const" THEN Lit(8 * idx.n) ELSE InReg(tmp)
    IN  [s |-> Math(s4, "add", by, InReg(arr)), loc |-> InReg(arr)]

\* The arm Expr::Urnary for the operator !.
NotCode(s, x) ==
    LET tmp == free_reg(s)
        s1 == use_reg(s, tmp)
        s2 == IF is_stack_offset(x.loc) THEN Mov(s1, x.loc, InReg(tmp)) ELSE s1
        val == IF is_stack_offset(x.loc) THEN InReg(tmp) ELSE x.loc
        cond == free_reg(s2)
        s3 == Mov(use_reg(s2, cond), Lit(0), InReg(cond))
    IN  [s |-> IF Read(s3, val) # 1 THEN Mov(s3, Lit(1), InReg(cond)) ELSE s3,
         loc |-> InReg(cond)]

-----------------------------------------------------------------------------
(* The walk.  A task is what one level of the recursion still has to do. *)

E(ty, clear, arr, side, op) ==
    [k |-> "expr", ty |-> ty, clear |-> clear, arr |-> arr, side |-> side, op |-> op]

\* arr: no array element may stand here, or one may, with is_addr set or not.
Whole(clear, arr) == E("int", clear, arr, "whole", "none")

\* Expr::Binary builds its operands with CanClearRegs::No.
BinaryTasks(op, clear) ==
    << E("int", FALSE, "addr", "left", op), E("int", FALSE, "addr", "right", op),
       [k |-> "binary", op |-> op, clear |-> clear] >>

ArgTasks(i, clear) ==
    << [k |-> "arg", i |-> i], Whole(clear, "addr"), [k |-> "pass", i |-> i] >>

\* One argument after the other, then the call.
CallTasks(n, clear, end) ==
    [j \in 1..(3 * n + 1) |->
        IF j > 3 * n THEN [k |-> end]
        ELSE ArgTasks((j + 2) \div 3, clear)[((j + 2) % 3) + 1]]

Operand(loc, want, arr) == [loc |-> loc, want |-> want, arr |-> arr]

\* What an operand stands for now: an array element is still an address.
Value(s, o) == Read(s, IF o.arr THEN At(o.loc.r) ELSE o.loc)

Doing(k) == phase = "run" /\ work # << >> /\ work[1].k = k

\* The end of every step: code was emitted, tasks replace the first one.
Step(s, ops, tasks) ==
    /\ cpu' = s
    /\ opnds' = ops
    /\ work' = tasks \o Tail(work)
    /\ phase' = IF OutOfRegs(s) THEN "panic" ELSE phase

Top == opnds[Len(opnds)]
Below == opnds[Len(opnds) - 1]
Drop(n) == SubSeq(opnds, 1, Len(opnds) - n)

NewNode(kind, ty) ==
    /\ Doing("expr") /\ work[1].ty = ty /\ kind \in Kinds
    /\ nodes < MaxNodes /\ nodes' = nodes + 1

\* Two literals are folded before code is generated.
Literal(v) ==
    /\ NewNode("lit", "int")
    /\ work[1].side = "right" => Top.loc.k # "const"
    /\ work[1].side = "left" /\ work[1].op \in Cmp => LeftConst
    /\ Step(cpu, Append(opnds, Operand(Lit(v), v, FALSE)), << >>)
    /\ UNCHANGED <<calls, vars, env, done>>

\* An item of an array or of an enum is moved as it is: what is in memory goes
\* to memory directly.  Kinds says whether the function has such items.
MayBeInMemory == work[1].side = "item" => "itemmem" \in Kinds

Variable(i) ==
    /\ NewNode("var", "int") /\ vars[i].ty = "int" /\ MayBeInMemory
    /\ Step(cpu, Append(opnds, Operand(Slot(vars[i].n), env[vars[i].n], FALSE)), << >>)
    /\ UNCHANGED <<calls, vars, env, done>>

\* *p: the address is loaded, the operand is what it points to.
Deref(i) ==
    LET t == IntoReg(cpu, Slot(vars[i].n))
    IN  /\ NewNode("deref", "int") /\ vars[i].ty = "ptr" /\ MayBeInMemory
        /\ Step(t.s, Append(opnds, Operand(At(t.loc.r), env[SlotAt(env[vars[i].n])], FALSE)),
                << >>)
        /\ UNCHANGED <<calls, vars, env, done>>

\* a[j] with a literal index.
Element(i, j) ==
    LET t == index_arr(cpu, vars[i].n, Lit(j), work[1].arr = "addr")
    IN  /\ NewNode("elem", "int") /\ vars[i].ty = "arr" /\ work[1].arr # "no"
        /\ Step(t.s, Append(opnds, Operand(t.loc, env[vars[i].n - j], TRUE)), << >>)
        /\ UNCHANGED <<calls, vars, env, done>>

\* a[e]: e is built first.
Indexing(i) ==
    /\ NewNode("index", "int") /\ vars[i].ty = "arr" /\ work[1].arr = "addr"
    /\ Step(cpu, opnds, << Whole(FALSE, "no"), [k |-> "index", n |-> vars[i].n] >>)
    /\ UNCHANGED <<calls, vars, env, done>>

Binary(op) ==
    /\ NewNode("bin", IF op \in Cmp THEN "bool" ELSE "int")
    /\ Step(cpu, opnds, BinaryTasks(op, work[1].clear))
    /\ UNCHANGED <<calls, vars, env, done>>

\* !e for a boolean e.
Not ==
    /\ NewNode("not", "bool")
    /\ Step(cpu, opnds, << work[1], [k |-> "not"] >>)
    /\ UNCHANGED <<calls, vars, env, done>>

\* A program whose index is out of bounds, or that divides by zero, has no
\* meaning to compare with and is not followed further.
Abandon == phase' = "end" /\ UNCHANGED <<cpu, work, opnds, calls, vars, env, nodes, done>>

IndexEnd ==
    LET n == work[1].n
        t == index_arr(cpu, n, Top.loc, TRUE)
    IN  /\ Doing("index")
        /\ IF Top.want \in 0..1
           THEN /\ Step(t.s, Append(Drop(1), Operand(t.loc, env[n - Top.want], TRUE)), << >>)
                /\ UNCHANGED <<calls, vars, env, nodes, done>>
           ELSE Abandon

BinaryEnd ==
    LET op == work[1].op
        want == Meaning(op, Below.want, Top.want)
    IN  /\ Doing("binary")
        /\ IF op \in {"div", "rem"} /\ Top.want = 0
           THEN Abandon
           ELSE \E ready \in {Operands(cpu, op, Below, Top)} :
                \E c \in {OperatorCode(ready, op)} :
                    /\ Step(clear_regs_except(c.s, c.r, work[1].clear),
                            Append(Drop(2), Operand(c.r, want, FALSE)), << >>)
                    /\ done' = [op |-> op, want |-> want, got |-> Read(c.s, c.r)]
                    /\ UNCHANGED <<calls, vars, env, nodes>>

NotEnd ==
    LET t == NotCode(cpu, Top)
    IN  /\ Doing("not")
        /\ Step(t.s, Append(Drop(1), Operand(t.loc, 1 - Top.want, FALSE)), << >>)
        /\ UNCHANGED <<calls, vars, env, nodes, done>>

-----------------------------------------------------------------------------
(* Calls *)

\* gen_call_expr up to its first argument: the stack is aligned to two slots.
BeginCall(s) ==
    LET pad == s.tot % 2 # 0 \/ s.tot = 0
    IN  [s |-> IF ~ pad THEN s
               ELSE [Alloca(s, 2 - (s.tot % 2)) EXCEPT !.tot = IF @ = 0 THEN 2 ELSE @],
         pad |-> pad]

Frame(pad, rax) == [pad |-> pad, rax |-> rax, spilled |-> << >>, want |-> << >>]

\* Expr::Call saves RAX when it is used, Expr::TraitMeth does not.
Call(n, kind) ==
    LET rax == kind = "call" /\ "RAX" \in cpu.used
        t == BeginCall(IF rax THEN Push(cpu, cpu.regs["RAX"]) ELSE cpu)
    IN  /\ NewNode(kind, "int")
        /\ Step(t.s, opnds, CallTasks(n, work[1].clear, "result"))
        /\ calls' = Append(calls, Frame(t.pad, rax))
        /\ UNCHANGED <<vars, env, done>>

\* The register of the next argument is saved if it is used, and taken.
Arg ==
    LET r == ArgRegs[work[1].i]
        c == Len(calls)
        save == r \in cpu.used
    IN  /\ Doing("arg")
        /\ Step(use_reg(IF save THEN Push(cpu, cpu.regs[r]) ELSE cpu, r), opnds, << >>)
        /\ calls' = IF save THEN [calls EXCEPT ![c].spilled = Append(@, r)] ELSE calls
        /\ UNCHANGED <<vars, env, nodes, done>>

Pass ==
    LET src == IF Top.arr THEN At(Top.loc.r) ELSE Top.loc
        c == Len(calls)
    IN  /\ Doing("pass")
        /\ Step(Mov(cpu, src, InReg(ArgRegs[work[1].i])), Drop(1), << >>)
        /\ calls' = [calls EXCEPT ![c].want = Append(@, Top.want)]
        /\ UNCHANGED <<vars, env, nodes, done>>

\* The called function: what it returns tells all its arguments apart; it may
\* use every slot below the stack pointer and the registers Clobbers.
Callee(args) == FoldLeft(LAMBDA a, b : 3 * a + b, 1, args)

Enter(s, n) ==
    [s EXCEPT !.regs = [r \in DOMAIN @ |->
                          IF r = "RAX" THEN Callee([i \in 1..n |-> s.regs[ArgRegs[i]]])
                          ELSE IF r \in Clobbers THEN Junk ELSE s.regs[r]],
              !.mem = [i \in DOMAIN @ |-> IF i > s.sp THEN Junk ELSE s.mem[i]],
              !.misaligned = @ \/ s.sp % 2 # 0]

\* Mutant: saved registers stay on the stack.
Mut_EndCall(s, frame) ==
    LET s1 == Enter(s, Len(frame.want))
    IN  use_reg(IF frame.pad THEN Alloca(s1, -(2 - (s1.tot % 2))) ELSE s1, "RAX")

\* After the call the padding is taken off the stack, then the saved
\* registers are popped, last one first.
EndCall(s, frame) ==
    LET s1 == Enter(s, Len(frame.want))
        s2 == IF frame.pad THEN Alloca(s1, -(2 - (s1.tot % 2))) ELSE s1
    IN  use_reg(PopAll(s2, frame.spilled), "RAX")

Result ==
    LET frame == calls[Len(calls)]
        s == EndCall(cpu, frame)
        t == IntoReg(s, InReg("RAX"))
        want == Callee(frame.want)
    IN  /\ Doing("result")
        /\ IF frame.rax
           THEN Step(Pop(t.s, "RAX"), Append(opnds, Operand(t.loc, want, FALSE)), << >>)
           ELSE Step(s, Append(opnds, Operand(InReg("RAX"), want, FALSE)), << >>)
        /\ calls' = Front(calls)
        /\ UNCHANGED <<vars, env, nodes, done>>

-----------------------------------------------------------------------------
(* Statements *)

\* The right side is an array element, whose address is in r; so is the left
\* side if larr.  Without it no register is released.
StoreElement(s, l, larr, r) ==
    LET kept == IF larr THEN clear_regs_except(s, l, TRUE) ELSE s
        tmp == IntoReg(kept, At(r.r))
    IN  Mov(tmp.s, tmp.loc, IF larr THEN At(l.r) ELSE l)

\* The right side is any other value.
StoreValue(s, l, larr, r) ==
    LET kept == clear_regs_except(s, l, TRUE)
        before == IntoReg(s, r)
        after == IntoReg(kept, r)
    IN  IF larr
        THEN IF is_stack_offset(r) THEN Mov(after.s, after.loc, At(l.r)) ELSE Mov(kept, r, At(l.r))
        ELSE IF is_stack_offset(l) /\ is_stack_offset(r)
        THEN Mov(release(before.s, {}), before.loc, l)
        ELSE Mov(kept, r, l)

\* Place what is in r (an address, if rarr) in l (an address, if larr).
Store(s, l, larr, r, rarr) ==
    IF l = r THEN s
    ELSE IF rarr THEN StoreElement(s, l, larr, r)
    ELSE StoreValue(s, l, larr, r)

\* push_stack and alloc_stack for n slots; only an array is left unset.
alloc_stack(s, n, zero) ==
    [s EXCEPT !.sp = @ + n, !.cur = @ + n, !.tot = @ + n,
              !.mem = [i \in DOMAIN @ |->
                         IF zero /\ i \in (s.sp + 1)..(s.sp + n) THEN 0 ELSE s.mem[i]]]

Var(n, ty) == [n |-> n, ty |-> ty]

\* The next statement of the function, if one is left.
NewStmt(kind) == Doing("stmts") /\ work[1].left > 0 /\ kind \in Stmts
Rest == [work[1] EXCEPT !.left = @ - 1]
Assign(l, larr, n) == [k |-> "assign", l |-> l, larr |-> larr, n |-> n]

\* The name can be used once the statement is complete, see AssignEnd.
Let ==
    LET s == alloc_stack(cpu, 1, TRUE)
    IN  /\ NewStmt("let")
        /\ Step(s, opnds, << Whole(TRUE, "addr"), Assign(Slot(s.cur), FALSE, s.cur), Rest >>)
        /\ UNCHANGED <<calls, vars, env, nodes, done>>

Set(i) ==
    LET n == vars[i].n
    IN  /\ NewStmt("set") /\ vars[i].ty = "int"
        /\ Step(cpu, opnds, << Whole(TRUE, "addr"), Assign(Slot(n), FALSE, n), Rest >>)
        /\ UNCHANGED <<calls, vars, env, nodes, done>>

SetElement(i, j) ==
    LET t == index_arr(cpu, vars[i].n, Lit(j), TRUE)
    IN  /\ NewStmt("setelem") /\ vars[i].ty = "arr"
        /\ Step(t.s, opnds,
                << Whole(TRUE, "addr"), Assign(t.loc, TRUE, vars[i].n - j), Rest >>)
        /\ UNCHANGED <<calls, vars, env, nodes, done>>

SetDeref(i) ==
    LET n == vars[i].n
        t == IntoReg(cpu, Slot(n))
    IN  /\ NewStmt("setptr") /\ vars[i].ty = "ptr"
        /\ Step(t.s, opnds,
                << Whole(TRUE, "addr"), Assign(At(t.loc.r), FALSE, SlotAt(env[n])), Rest >>)
        /\ UNCHANGED <<calls, vars, env, nodes, done>>

AssignEnd ==
    LET t == work[1]
    IN  /\ Doing("assign")
        /\ Step(Store(cpu, t.l, t.larr, Top.loc, Top.arr), Drop(1), << >>)
        /\ env' = [n \in DOMAIN env \cup {t.n} |-> IF n = t.n THEN Top.want ELSE env[n]]
        /\ vars' = IF t.n \in DOMAIN env THEN vars ELSE Append(vars, Var(t.n, "int"))
        /\ UNCHANGED <<calls, nodes, done>>

\* let p = &x
LetAddr(i) ==
    LET s == alloc_stack(cpu, 1, TRUE)
        r == free_reg(s)
        s1 == Lea(use_reg(s, r), Slot(vars[i].n), r)
    IN  /\ NewStmt("letptr") /\ vars[i].ty = "int"
        /\ Step(Store(s1, Slot(s.cur), FALSE, InReg(r), FALSE), opnds, <<Rest>>)
        /\ env' = [n \in DOMAIN env \cup {s.cur} |->
                     IF n = s.cur THEN Addr(vars[i].n) ELSE env[n]]
        /\ vars' = Append(vars, Var(s.cur, "ptr"))
        /\ UNCHANGED <<calls, nodes, done>>

\* The field of a struct, the item of an array or of an enum.
Part(side) == E("int", TRUE, IF "partelem" \in Kinds THEN "addr" ELSE "no", side, "none")

\* An item goes to slot n; new are the variables it completes.
Item(n, new) == << Part("item"), [k |-> "item", n |-> n, new |-> new] >>

\* let a = { e1, e2 }
LetArray ==
    LET s == alloc_stack(cpu, 2, FALSE)
    IN  /\ NewStmt("letarr")
        /\ Step(s, opnds,
                Item(s.cur, << >>) \o Item(s.cur - 1, << Var(s.cur, "arr") >>) \o <<Rest>>)
        /\ UNCHANGED <<calls, vars, env, nodes, done>>

\* let s = S { f: e1, g: e2 }; the fields are then variables like others.
LetStruct ==
    LET s == alloc_stack(cpu, 2, TRUE)
        Field(n) == << Part("whole"), [k |-> "field", n |-> n] >>
    IN  /\ NewStmt("letstruct")
        /\ Step(s, opnds, Field(s.cur) \o Field(s.cur - 1) \o <<Rest>>)
        /\ UNCHANGED <<calls, vars, env, nodes, done>>

FieldEnd ==
    LET n == work[1].n
        t == IntoReg(cpu, Top.loc)
        tmp == IF is_stack_offset(Top.loc)
               THEN [s |-> release(t.s, cpu.used), loc |-> t.loc]
               ELSE [s |-> cpu, loc |-> Top.loc]
    IN  /\ Doing("field")
        /\ Step(Mov(tmp.s, tmp.loc, Slot(n)), Drop(1), << >>)
        /\ env' = [m \in DOMAIN env \cup {n} |-> IF m = n THEN Top.want ELSE env[m]]
        /\ vars' = Append(vars, Var(n, "int"))
        /\ UNCHANGED <<calls, nodes, done>>

\* let e = E::V(e1): the tag, then the payload one slot above it, which can then
\* be bound to a name by a match.
LetEnum(tag) ==
    LET s == alloc_stack(cpu, 2, FALSE)
    IN  /\ NewStmt("letenum")
        /\ Step(Mov(s, Lit(tag), Slot(s.cur)), opnds,
                Item(s.cur - 1, << Var(s.cur - 1, "int") >>) \o <<Rest>>)
        /\ env' = [n \in DOMAIN env \cup {s.cur} |-> IF n = s.cur THEN tag ELSE env[n]]
        /\ UNCHANGED <<calls, vars, nodes, done>>

ItemEnd ==
    LET n == work[1].n
    IN  /\ Doing("item")
        /\ Step(Mov(cpu, Top.loc, Slot(n)), Drop(1), << >>)
        /\ env' = [m \in DOMAIN env \cup {n} |-> IF m = n THEN Top.want ELSE env[m]]
        /\ vars' = vars \o work[1].new
        /\ UNCHANGED <<calls, nodes, done>>

\* Stmt::Call: no register is saved for the result, nor for the caller.
CallStmt(n) ==
    LET t == BeginCall(cpu)
    IN  /\ NewStmt("call")
        /\ Step(t.s, opnds, Append(CallTasks(n, FALSE, "called"), Rest))
        /\ calls' = Append(calls, Frame(t.pad, FALSE))
        /\ UNCHANGED <<vars, env, nodes, done>>

CallStmtEnd ==
    LET frame == calls[Len(calls)]
        s == EndCall(cpu, frame)
    IN  /\ Doing("called")
        /\ Step(clear_regs_except(s, InReg("RAX"), TRUE), opnds, << >>)
        /\ calls' = Front(calls)
        /\ done' = [op |-> "call", want |-> Callee(frame.want), got |-> s.regs["RAX"]]
        /\ UNCHANGED <<vars, env, nodes>>

\* The condition of an if, and the comparison with 1 that follows it.
If ==
    /\ NewStmt("if")
    /\ Step(cpu, opnds, << E("bool", TRUE, "no", "whole", "none"), [k |-> "cond"], Rest >>)
    /\ UNCHANGED <<calls, vars, env, nodes, done>>

Cond ==
    /\ Doing("cond")
    /\ Step(cpu, Drop(1), << >>)
    /\ done' = [op |-> "if", want |-> Top.want, got |-> Read(cpu, Top.loc)]
    /\ UNCHANGED <<calls, vars, env, nodes>>

Ret ==
    /\ NewStmt("ret")
    /\ Step(cpu, opnds,
            << Whole(TRUE, IF "retelem" \in Kinds THEN "val" ELSE "no"), [k |-> "ret"] >>)
    /\ UNCHANGED <<calls, vars, env, nodes, done>>

RetEnd ==
    LET s == Mov(cpu, IF Top.arr THEN At(Top.loc.r) ELSE Top.loc, InReg("RAX"))
    IN  /\ Doing("ret")
        /\ cpu' = s /\ phase' = "end"
        /\ opnds' = Drop(1) /\ work' = << >>
        /\ done' = [op |-> "ret", want |-> Top.want, got |-> s.regs["RAX"]]
        /\ UNCHANGED <<calls, vars, env, nodes>>

Finish ==
    /\ Doing("stmts")
    /\ phase' = "end"
    /\ UNCHANGED <<cpu, work, opnds, calls, vars, env, nodes, done>>

-----------------------------------------------------------------------------

\* visit_func: alloc_arg pushes the register of every parameter.
Init ==
    LET m == Len(Params)
    IN  /\ frag \in Fragments
        /\ cpu = [used |-> {},
                  regs |-> [r \in Regs \cup {"none"} |-> Junk],
                  mem |-> [i \in 1..MaxSlots |-> IF i <= m THEN Params[i] ELSE Junk],
                  sp |-> m, cur |-> m, tot |-> m,
                  wild |-> FALSE, trap |-> FALSE, misaligned |-> FALSE]
        /\ work = << [k |-> "stmts", left |-> MaxStmts] >>
        /\ opnds = << >> /\ calls = << >>
        /\ vars = [i \in 1..m |-> Var(i, "int")]
        /\ env = [i \in 1..m |-> Params[i]]
        /\ nodes = 0
        /\ done = [op |-> "none", want |-> 0, got |-> 0]
        /\ phase = "run"

ExprStep ==
    \/ \E v \in Lits : Literal(v)
    \/ \E i \in DOMAIN vars : Variable(i) \/ Deref(i) \/ Indexing(i)
    \/ \E i \in DOMAIN vars, j \in 0..1 : Element(i, j)
    \/ \E op \in Ops : Binary(op)
    \/ \E n \in 1..MaxArgs, kind \in {"call", "meth"} : Call(n, kind)
    \/ Not \/ NotEnd \/ BinaryEnd \/ IndexEnd \/ Arg \/ Pass \/ Result

StmtStep ==
    \/ Let \/ LetArray \/ LetStruct \/ If \/ Ret
    \/ \E i \in DOMAIN vars : Set(i) \/ SetDeref(i) \/ LetAddr(i)
    \/ \E i \in DOMAIN vars, j \in 0..1 : SetElement(i, j)
    \/ \E tag \in 0..1 : LetEnum(tag)
    \/ \E n \in 1..MaxArgs : CallStmt(n)
    \/ AssignEnd \/ FieldEnd \/ ItemEnd \/ CallStmtEnd \/ Cond \/ RetEnd \/ Finish

Next == (ExprStep \/ StmtStep) /\ UNCHANGED frag

Spec == Init /\ [][Next]_cgvars

-----------------------------------------------------------------------------
(* Properties *)

Locations == [k : {"reg", "stack", "at", "const"}, r : Regs \cup {"none"}, n : Int]

\* The type invariant of the generator and of the machine it drives.
TypeOK ==
    /\ cpu.used \subseteq Regs \cup {"none"}
    /\ DOMAIN cpu.regs = Regs \cup {"none"} /\ DOMAIN cpu.mem = 1..MaxSlots
    /\ cpu.sp \in 0..MaxSlots /\ cpu.cur \in 0..MaxSlots /\ cpu.tot \in 0..MaxSlots
    /\ \A i \in DOMAIN opnds : opnds[i].loc \in Locations /\ opnds[i].want \in Int
    /\ DOMAIN env \subseteq 1..cpu.cur
    /\ \A i \in DOMAIN vars : vars[i].n \in DOMAIN env
    /\ nodes \in 0..MaxNodes
    /\ phase \in {"run", "end", "panic"}

\* A location build_value has returned keeps its value, whatever code is
\* emitted before the location is used: loads, spills, divisions, calls.
OperandsIntact ==
    phase = "run" => \A i \in DOMAIN opnds : Value(cpu, opnds[i]) = opnds[i].want

\* What the code computes for an operator, a call, a condition or a return is
\* what the expression means.
ResultRight == done.got = done.want

\* The memory of every variable, element and field holds the value last
\* assigned to it.
VarsIntact == \A n \in DOMAIN env : cpu.mem[n] = env[n]

\* No code traps, writes through a pointer to nowhere, or moves memory to
\* memory, in fragments without items in memory and negative dividends.
NoWildAccess == ~ cpu.wild /\ ~ cpu.trap

\* The emitted code computes what the source means: its intermediate values,
\* its results and the memory of its variables, and it never goes astray.  The
\* fragments MCCodeGen names one by one are known not to have it.
CodeRight == OperandsIntact /\ ResultRight /\ VarsIntact /\ NoWildAccess

\* Between two statements every push has been popped: the variables are where
\* their offsets say and nothing lies below the last one.
StackBalanced == Doing("stmts") => cpu.sp = cpu.cur /\ calls = << >> /\ opnds = << >>

\* The pool knows the registers of the pending operands, and no two of them
\* share one; a trait method call, which does not save RAX, may break the second.
PendingRegs(i) == IF opnds[i].loc.k \in {"reg", "at"} THEN {opnds[i].loc.r} ELSE {}
OperandsApart ==
    phase = "run" =>
        /\ \A i \in DOMAIN opnds : PendingRegs(i) \subseteq cpu.used
        /\ "meth" \notin Kinds =>
             \A i, j \in DOMAIN opnds : i # j => PendingRegs(i) \cap PendingRegs(j) = {}

\* The pool knows the registers of the arguments passed to calls not yet made.
ArgumentsHeld ==
    phase = "run" =>
        \A c \in DOMAIN calls : \A a \in DOMAIN calls[c].want : ArgRegs[a] \in cpu.used

\* Statements made of variables, operators and calls leave no register taken
\* but that of their result: the pool, whose exhaustion free_reg answers with
\* a panic, is full again for the next one.
PoolReleased ==
    Doing("stmts") /\ Kinds \cap {"elem", "index", "deref", "not"} = {} =>
        Cardinality(cpu.used) <= 1

\* The register pool holds every register with a live value while an
\* expression is compiled, and none of a finished statement.
PoolExact == OperandsApart /\ ArgumentsHeld /\ PoolReleased

-----------------------------------------------------------------------------
(* What the code does not guarantee: MCCodeGen has the counterexamples. *)

\* free_reg always finds a register: its expect never fails.
NeverOutOfRegs == phase # "panic"

\* Every function is entered with a stack aligned to 16 bytes.
CallsAligned == ~ cpu.misaligned

=============================================================================
