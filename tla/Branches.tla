------------------------------ MODULE Branches ------------------------------
(***************************************************************************)
(* The code generator for control flow: gen_statement for if, while, match *)
(* and the statements in their blocks.  First the statements of a function *)
(* are walked and asm_buf is filled, then the code is run.                 *)
(*                                                                         *)
(* Labels are named after the length asm_buf has when they are made, so    *)
(* what is emitted is kept instruction by instruction; what an expression  *)
(* compiles to is one comparison, whose outcome is chosen when it runs.    *)
(* The instructions "in" and "val" are no code: the first marks where a    *)
(* block begins, and which outcomes of the last comparison lead there, the *)
(* second is where a value is known that no comparison precedes.           *)
(*                                                                         *)
(* An arm is the sequence of what gen_match_arm compares: its variant or   *)
(* literal, and behind it, in the order written, the variants and literals *)
(* in its payload.  A name, `_` and an array are compared with nothing.    *)
(***************************************************************************)
EXTENDS Integers, FiniteSets, Sequences, SequencesExt

CONSTANTS
    StmtKinds,   \* kinds of statement: "let", "call", "if", "while", "match"
    NestInArms,  \* may the block of an arm contain control flow?
    LetInBlocks, \* may a block declare a variable?
    Matches,     \* the matches there are: sequences of arms
    StmtBound,   \* bound: statements of the function
    MaxDepth,    \* bound: nested blocks
    MaxSteps     \* bound: instructions executed

Variants == 0..1    \* what is matched: a tag, or a boolean
NoVal == 9

Patterns == [k : {"enum", "value"}, v : Variants]

ASSUME BranchesAssumption ==
    /\ {NestInArms, LetInBlocks} \subseteq BOOLEAN
    /\ Matches \subseteq Seq(Seq(Patterns))
    /\ NoVal \notin Variants
    /\ StmtBound \in Nat /\ MaxDepth \in Nat /\ MaxSteps \in Nat

VARIABLES
    asm_buf,        \* the instructions emitted so far
    current_stack,  \* slots the generator has handed out
    streams,        \* for each open match: the outer buffer, and the code of its arms
    walk,           \* what is left of the walk
    scope,          \* slots of the variables in scope
    stmts,          \* statements so far
    stage,          \* "gen", "run", "end"
    pc, sp, flag,   \* next instruction, slots pushed, last compared value
    steps           \* instructions executed

brvars == <<asm_buf, current_stack, streams, walk, scope, stmts, stage,
            pc, sp, flag, steps>>

machine == <<pc, sp, flag, steps>>

-----------------------------------------------------------------------------
(* Instructions *)

I(op, lbl, val, slots) == [op |-> op, lbl |-> lbl, val |-> val, slots |-> slots]
Label(l)   == I("label", l, NoVal, {})
Jmp(l)     == I("jmp", l, NoVal, {})
JmpEq(l, v) == I("je", l, v, {})
JmpNe(l, v) == I("jne", l, v, {})
Compare(vals)  == I("cmp", << >>, NoVal, vals)     \* picks the value compared
In(vals)   == I("in", << >>, NoVal, vals)
Val(vals)  == I("val", << >>, NoVal, vals)
Test       == I("test", << >>, NoVal, {})      \* compares that value again
PushSlot       == I("push", << >>, NoVal, {})
CallWith(vars) == I("call", << >>, NoVal, vars)

\* The length of a buffer, for which marks do not count.
Size(buf) == Cardinality({i \in DOMAIN buf : buf[i].op \notin {"in", "val"}})

Name(kind, buf) == <<kind, Size(buf), NoVal>>

-----------------------------------------------------------------------------
(* The walk *)

AtTask(k) == stage = "gen" /\ walk # << >> /\ walk[1].k = k

Block(depth, arm) == [k |-> "block", depth |-> depth, arm |-> arm]

Emit(buf, tasks) ==
    /\ asm_buf' = buf
    /\ walk' = tasks \o Tail(walk)

StartStmt(kind) ==
    /\ AtTask("block") /\ kind \in StmtKinds
    /\ stmts < StmtBound /\ stmts' = stmts + 1

\* A statement with blocks of its own.
StartNested(kind) ==
    /\ StartStmt(kind)
    /\ walk[1].depth < MaxDepth
    /\ walk[1].arm => NestInArms

Inner == Block(walk[1].depth + 1, FALSE)

\* Mutant: the slot is not pushed.
Mut_LetUnpushed ==
    /\ StartStmt("let")
    /\ walk[1].depth > 0 => LetInBlocks
    /\ Emit(asm_buf, <<walk[1]>>)
    /\ current_stack' = current_stack + 1
    /\ scope' = scope \cup {current_stack + 1}
    /\ UNCHANGED <<streams, stage, machine>>

StmtLet ==
    /\ StartStmt("let")
    /\ walk[1].depth > 0 => LetInBlocks
    /\ Emit(Append(asm_buf, PushSlot), <<walk[1]>>)
    /\ current_stack' = current_stack + 1
    /\ scope' = scope \cup {current_stack + 1}
    /\ UNCHANGED <<streams, stage, machine>>

StmtCall ==
    /\ StartStmt("call")
    /\ Emit(Append(asm_buf, CallWith(scope)), <<walk[1]>>)
    /\ UNCHANGED <<current_stack, streams, scope, stage, machine>>

\* The end of a block: what it declared is out of scope.
EndBlock ==
    /\ AtTask("block") /\ walk[1].depth > 0
    /\ Emit(asm_buf, << >>)
    /\ scope' = walk[2].scope
    /\ UNCHANGED <<current_stack, streams, stmts, stage, machine>>

StmtIf(else) ==
    LET b1 == Append(asm_buf, Compare({0, 1}))
        name == Name("jmpif", b1)
    IN  /\ StartNested("if")
        /\ Emit(b1 \o <<JmpNe(name, 1), In({1})>>,
                << Inner, [k |-> "then", name |-> name, else |-> else, scope |-> scope],
                   walk[1] >>)
        /\ UNCHANGED <<current_stack, streams, scope, stage, machine>>

\* After the block: jump to the merge point, and the label of the other side.
Then ==
    LET t == walk[1]
        merge == Name("mergeif", asm_buf)
        b == asm_buf \o <<Jmp(merge), Label(t.name), In({0})>>
    IN  /\ AtTask("then")
        /\ IF t.else
           THEN Emit(b, << Block(walk[2].depth + 1, FALSE),
                           [k |-> "merge", name |-> merge, scope |-> scope] >>)
           ELSE Emit(Append(b, Label(merge)), << >>)
        /\ UNCHANGED <<current_stack, streams, scope, stmts, stage, machine>>

\* Mutant: the merge point gets the name of the buffer as it is now.
Mut_Merge ==
    /\ AtTask("merge")
    /\ Emit(Append(asm_buf, Label(Name("mergeif", asm_buf))), << >>)
    /\ UNCHANGED <<current_stack, streams, scope, stmts, stage, machine>>

Merge ==
    /\ AtTask("merge")
    /\ Emit(Append(asm_buf, Label(walk[1].name)), << >>)
    /\ UNCHANGED <<current_stack, streams, scope, stmts, stage, machine>>

StmtWhile ==
    LET uncond == Name("uncondwhile", asm_buf)
        b1 == Append(asm_buf, Jmp(uncond))
        name == Name("jmpwhile", b1)
    IN  /\ StartNested("while")
        /\ Emit(b1 \o <<Label(name), In({1})>>,
                << Inner, [k |-> "cond", name |-> name, uncond |-> uncond, scope |-> scope],
                   walk[1] >>)
        /\ UNCHANGED <<current_stack, streams, scope, stage, machine>>

\* The condition follows the body; while (true) has none.
WhileEnd ==
    LET t == walk[1]
        b == Append(asm_buf, Label(t.uncond))
    IN  /\ AtTask("cond")
        /\ \/ Emit(b \o <<Compare({0, 1}), JmpEq(t.name, 1), In({0})>>, << >>)
           \/ Emit(b \o <<Val({1}), Jmp(t.name)>>, << >>)
        /\ UNCHANGED <<current_stack, streams, scope, stmts, stage, machine>>

StmtMatch(arms) ==
    /\ StartNested("match")
    /\ Emit(Append(asm_buf, Val(Variants)),
            << [k |-> "match", arms |-> arms, rest |-> Variants, depth |-> walk[1].depth + 1,
                merge |-> Name("matchmerge", asm_buf), scope |-> scope], walk[1] >>)
    /\ streams' = Append(streams, [outer |-> << >>, arms |-> << >>])
    /\ UNCHANGED <<current_stack, scope, stage, machine>>

\* The label of the i-th thing an arm compares: of a variant it has the number,
\* of a literal it has not.
PatName(pats, i) ==
    LET kind == IF pats[i].k = "enum" THEN "matcharm" ELSE "bindval"
    IN  <<kind, Size(asm_buf) + 2 * (i - 1), IF pats[i].k = "enum" THEN pats[i].v ELSE NoVal>>

\* The values an arm is written for: the payload is no part of them.
TakenBy(pats) == IF pats = << >> THEN Variants ELSE {pats[1].v}

\* gen_match_arm: whatever is compared, in the payload too, is compared with the
\* tag, in the outer buffer, and labels the stream of the arm; then the buffers
\* are swapped.
gen_match_arm ==
    LET t == walk[1]
        m == Len(streams)
        pats == t.arms[1]
        tests == [i \in 1..2 * Len(pats) |->
                     IF i % 2 = 1 THEN Test ELSE JmpEq(PatName(pats, i \div 2), pats[i \div 2].v)]
        labels == [i \in 1..Len(pats) |-> Label(PatName(pats, i))]
    IN  /\ AtTask("match") /\ t.arms # << >>
        /\ streams' = [streams EXCEPT ![m].outer = asm_buf \o tests]
        /\ Emit(Append(labels, In(TakenBy(pats) \cap t.rest)),
                << Block(t.depth, TRUE),
                   [k |-> "armend", merge |-> t.merge, scope |-> scope],
                   [t EXCEPT !.arms = Tail(t.arms), !.rest = t.rest \ TakenBy(pats)] >>)
        /\ UNCHANGED <<current_stack, scope, stmts, stage, machine>>

ArmEnd ==
    LET m == Len(streams)
    IN  /\ AtTask("armend")
        /\ streams' = [streams EXCEPT
                          ![m].arms = @ \o Append(asm_buf, Jmp(walk[1].merge))]
        /\ Emit(streams[m].outer, << >>)
        /\ UNCHANGED <<current_stack, scope, stmts, stage, machine>>

MatchEnd ==
    LET m == Len(streams)
    IN  /\ AtTask("match") /\ walk[1].arms = << >>
        /\ Emit(asm_buf \o streams[m].arms \o <<Label(walk[1].merge)>>, << >>)
        /\ streams' = Front(streams)
        /\ UNCHANGED <<current_stack, scope, stmts, stage, machine>>

\* visit_func: leave and ret follow the last statement.
EndFunc ==
    /\ AtTask("block") /\ walk[1].depth = 0
    /\ stage' = "run"
    /\ UNCHANGED <<asm_buf, current_stack, streams, walk, scope, stmts, machine>>

-----------------------------------------------------------------------------
(* Running the code *)

Target(l) == {i \in DOMAIN asm_buf : asm_buf[i] = Label(l)}

Exec ==
    LET i == asm_buf[pc]
        jump == \/ i.op = "jmp"
                \/ i.op = "je" /\ flag = i.val
                \/ i.op = "jne" /\ flag # i.val
    IN  /\ stage = "run" /\ pc <= Len(asm_buf) /\ steps < MaxSteps
        /\ steps' = steps + 1
        /\ IF jump THEN \E t \in Target(i.lbl) : pc' = t ELSE pc' = pc + 1
        /\ sp' = IF i.op = "push" THEN sp + 1 ELSE sp
        /\ IF i.op \in {"cmp", "val"} THEN \E v \in i.slots : flag' = v ELSE flag' = flag
        /\ UNCHANGED <<asm_buf, current_stack, streams, walk, scope, stmts, stage>>

Leave ==
    /\ stage = "run"
    /\ pc > Len(asm_buf) \/ steps = MaxSteps
    /\ stage' = "end"
    /\ UNCHANGED <<asm_buf, current_stack, streams, walk, scope, stmts, machine>>

BranchInit ==
    /\ asm_buf = << >> /\ streams = << >>
    /\ current_stack = 0 /\ scope = {} /\ stmts = 0
    /\ walk = <<Block(0, FALSE)>>
    /\ stage = "gen"
    /\ pc = 1 /\ sp = 0 /\ flag = NoVal /\ steps = 0

BranchNext ==
    \/ StmtLet \/ StmtCall \/ EndBlock
    \/ \E else \in BOOLEAN : StmtIf(else)
    \/ Then \/ Merge \/ StmtWhile \/ WhileEnd
    \/ \E arms \in Matches : StmtMatch(arms)
    \/ gen_match_arm \/ ArmEnd \/ MatchEnd \/ EndFunc
    \/ Exec \/ Leave

BranchSpec == BranchInit /\ [][BranchNext]_brvars

-----------------------------------------------------------------------------
(* Properties *)

Opcodes == {"label", "jmp", "je", "jne", "cmp", "test", "val", "in", "push", "call"}

\* The type invariant.
BranchTypeOK ==
    /\ \A i \in DOMAIN asm_buf : asm_buf[i].op \in Opcodes
    /\ current_stack \in 0..StmtBound /\ scope \subseteq 1..current_stack
    /\ stmts \in 0..StmtBound /\ steps \in 0..MaxSteps
    /\ pc \in 1..(Len(asm_buf) + 1) /\ sp \in 0..MaxSteps
    /\ flag \in {0, 1, NoVal}
    /\ stage \in {"gen", "run", "end"}

\* Every jump of the finished code has exactly one target, although labels are
\* named after buffer lengths and buffers are swapped.
LabelsUnique ==
    stage = "run" /\ steps = 0 =>
        \A i \in DOMAIN asm_buf :
            asm_buf[i].op \in {"jmp", "je", "jne"} =>
                \E t \in DOMAIN asm_buf : Target(asm_buf[i].lbl) = {t}

\* A block is entered exactly when the source says so: a then block or a loop
\* body when the condition held, an else block or what follows a loop when it
\* did not, an arm when its variant was matched.
RightBlock ==
    stage = "run" /\ pc <= Len(asm_buf) /\ asm_buf[pc].op = "in" => flag \in asm_buf[pc].slots

\* Every jump has one target and leads to the block the source names.
JumpsRight == LabelsUnique /\ RightBlock

\* At every call the variables in scope are above the stack pointer, so that
\* the callee cannot overwrite them, whatever path led there and whatever the
\* blocks on it declared: those, at least, below which no slot lies that a block
\* which has ended took, on this path or on another.
VarsOnStack ==
    stage = "run" /\ pc <= Len(asm_buf) /\ asm_buf[pc].op = "call" =>
        \A v \in asm_buf[pc].slots : 1..v \subseteq asm_buf[pc].slots => v <= sp

\* The others, too.
AllVarsOnStack ==
    stage = "run" /\ pc <= Len(asm_buf) /\ asm_buf[pc].op = "call" =>
        \A v \in asm_buf[pc].slots : v <= sp
=============================================================================
