---------------------------- MODULE ParserProofs ----------------------------
(***************************************************************************)
(* Proofs about Parser: whatever the text, its type invariant holds, and   *)
(* eat_tkn never runs past the end of the tokens but in an attribute that  *)
(* has no `]`.                                                             *)
(***************************************************************************)
EXTENDS Parser, TLAPS, SequenceTheorems, WellFoundedInduction

-----------------------------------------------------------------------------
(* The inductive invariant *)

\* The methods, and the parts of them, that a method may leave to be done.
\* eat_attr is not among them: only parse calls it, as the next thing.
Methods ==
    {"ws", "make_ident", "make_path", "make_seg", "seg", "more_segs", "make_ty",
     "fn_params", "ret", "ty_args", "make_array_type", "types<", "more_fn_params",
     "make_type_args", "type_args", "each_type_arg", "more_type_args", "make_generics",
     "each_generic", "bound", "more_generics", "make_literal", "number", "literal",
     "parse_const", "parse_fn", "parse_linked_fn", "parse_impl", "parse_struct",
     "parse_enum", "parse_trait", "parse_import", "make_expr", "opt_params", "make_params",
     "make_block", "linked_body", "make_fields", "make_variants", "make_trait_fn",
     "default", "more_variants", "types(", "more_fields", "more_params", "count", "expr",
     "make_expr_list", "make_arg_list", "builtin", "advance_to_op", "fail", "more_exprs",
     "more_args", "make_field_list", "each_init", "more_inits", "size_of_arg", "one_type",
     "only_type", "make_lh_expr", "make_op", "stars", "next_operand", "pointee", "index",
     "lh_path", "more_index", "block", "each_stmt", "make_stmt", "make_assignment",
     "make_if_stmt", "make_while_stmt", "make_return_stmt", "in_match", "make_match_stmt",
     "out_of_match", "make_asm_stmt", "make_expr_stmt", "let_ty", "els", "make_arms",
     "returned", "asm_block", "each_inst", "make_assembly_inst", "src", "make_location",
     "dst", "inst_end", "register", "lh_stmt", "assign_stmt", "make_pat", "path_pat",
     "make_pat_list", "more_pats", "each_type<", "more_types<", "each_type(", "more_types("}

\* What a method may leave to be done, and what may be done.
Task == Matched \cup Node \cup Methods \cup {"parse"}

Call == Task \cup {"eat_attr"}

\* The tokens that are left: the end of the text, with its EOF.
Rest(ts, t) == \E k \in 1..Len(t) : ts = SubSeq(t, k, Len(t))

\* An attribute in the text without its `]`.
Unclosed(t) ==
    \E i \in 1..Len(t) : /\ i < Len(t) /\ t[i] = "#" /\ t[i + 1] = "["
                         /\ \A j \in i..Len(t) : t[j] # "]"

\* A call stack: the outermost call is that of parse.
Stack(w) ==
    /\ w \in Seq(Call) /\ w # <<>>
    /\ Tail(w) \in Seq(Task)
    /\ w[Len(w)] = "parse"

WorkOK ==
    work # <<>> => /\ Stack(work)
                   /\ Head(work) = "eat_attr" => Curr = "#"

PInv ==
    /\ input \in Inputs
    /\ WorkOK
    /\ work # <<>> => Rest(toks, input.t)
    /\ status = "past the end" => Unclosed(input.t)
    /\ TypeOK

-----------------------------------------------------------------------------
(* The tokens that are left *)

\* A set of numbers has its least element.
LEMMA LeastNumber ==
    ASSUME NEW S, S \subseteq Nat, S # {}
    PROVE  Min(S) \in S /\ \A y \in S : Min(S) <= y
<1> DEFINE R == OpToRel(<, Nat)
<1>1. IsWellFoundedOn(R, Nat)
  BY NatLessThanWellFounded
<1>2. \A x, y \in Nat : x < y => <<x, y>> \in R
  BY DEF OpToRel
<1> HIDE DEF R
<1>3. PICK x \in S : \A y \in S : ~ (<<y, x>> \in R)
  BY <1>1, WFMin
<1>4. ASSUME NEW y \in S PROVE x <= y
  <2>1. x \in Nat /\ y \in Nat /\ ~ (y < x)
    BY Zenon, <1>2, <1>3
  <2> QED
    BY <2>1
<1>5. \E m \in S : \A y \in S : m <= y
  BY <1>4
<1> QED
  BY <1>5 DEF Min

\* A text of Inputs is a sequence of tokens that ends with EOF.
LEMMA InputText ==
    ASSUME input \in Inputs
    PROVE  /\ input.t \in Seq(Token) /\ Len(input.t) \in Nat \ {0}
           /\ input.t[Len(input.t)] = "EOF"
<1>1. input.t \in Seq(Token) /\ input.t # <<>> /\ Last(input.t) = "EOF"
  BY InputsAssumption
<1> QED
  BY <1>1 DEF Last

\* The rest of a text is not empty, and ends with its EOF.
LEMMA RestFacts ==
    ASSUME NEW t \in Seq(Token), Len(t) # 0, t[Len(t)] = "EOF", NEW ts, Rest(ts, t)
    PROVE  /\ ts \in Seq(Token) /\ ts # <<>> /\ Len(ts) \in Nat \ {0}
           /\ ts[Len(ts)] = "EOF"
           /\ Head(ts) = ts[1]
<1>1. PICK k \in 1..Len(t) : ts = SubSeq(t, k, Len(t))
  BY DEF Rest
<1>2. /\ ts \in Seq(Token) /\ Len(ts) = Len(t) - k + 1
      /\ \A i \in 1..Len(ts) : ts[i] = t[k + i - 1]
  BY <1>1
<1>3. Len(ts) \in 1..Len(ts) /\ k + Len(ts) - 1 = Len(t) /\ Len(ts) \in Nat \ {0}
  BY <1>2
<1> QED
  BY <1>2, <1>3

\* What is left when tokens before the n-th are eaten.
LEMMA RestEnd ==
    ASSUME NEW t \in Seq(Token), Len(t) # 0, t[Len(t)] = "EOF", NEW ts, Rest(ts, t),
           NEW n \in 1..Len(ts)
    PROVE  Rest(SubSeq(ts, n, Len(ts)), t)
<1>1. PICK k \in 1..Len(t) : ts = SubSeq(t, k, Len(t))
  BY DEF Rest
<1>2. /\ ts \in Seq(Token) /\ Len(ts) = Len(t) - k + 1
      /\ \A i \in 1..Len(ts) : ts[i] = t[k + i - 1]
  BY <1>1
<1> DEFINE m == k + n - 1
           u == SubSeq(ts, n, Len(ts))
           v == SubSeq(t, m, Len(t))
<1>3. m \in 1..Len(t)
  BY <1>2
<1>4. /\ u \in Seq(Token) /\ Len(u) = Len(ts) - n + 1 /\ \A i \in 1..Len(u) : u[i] = ts[n + i - 1]
      /\ v \in Seq(Token) /\ Len(v) = Len(t) - m + 1 /\ \A i \in 1..Len(v) : v[i] = t[m + i - 1]
  BY <1>2, <1>3
<1>5. u = v
  <2>1. Len(u) = Len(v)
    BY <1>2, <1>4
  <2>2. \A i \in 1..Len(u) : u[i] = v[i]
    BY <1>2, <1>4
  <2> QED
    BY <1>4, <2>1, <2>2, SeqEqual
<1> QED
  BY <1>3, <1>5 DEF Rest

\* A token that is not the last is eaten.
LEMMA RestTail ==
    ASSUME NEW t \in Seq(Token), Len(t) # 0, t[Len(t)] = "EOF", NEW ts, Rest(ts, t),
           Head(ts) # "EOF"
    PROVE  Rest(Tail(ts), t)
<1>1. /\ ts \in Seq(Token) /\ ts # <<>> /\ Len(ts) \in Nat \ {0}
      /\ ts[Len(ts)] = "EOF" /\ Head(ts) = ts[1]
  BY RestFacts
<1>2. Len(ts) # 1
  BY <1>1
<1>3. 2 \in 1..Len(ts) /\ Tail(ts) = SubSeq(ts, 2, Len(ts))
  BY <1>1, <1>2
<1> QED
  BY <1>3, RestEnd

-----------------------------------------------------------------------------
(* What is left to be done *)

\* eat_attr is called by no method but parse, and "nothing" is the empty stack.
LEMMA TaskFacts ==
    /\ Task \subseteq Call
    /\ {"eat_attr", "nothing"} \cap Task = {}
    /\ Seq(Task) \subseteq Seq(Call)
<1>1. Task \subseteq Call /\ {"eat_attr", "nothing"} \cap Task = {}
  BY DEF Call, Task, Matched, Node, Methods, Punct, Keywords, Decls, Operand, LhExpr,
         Pats, Types, Stmts, Items
<1>2. ASSUME NEW s \in Seq(Task) PROVE s \in Seq(Call)
  <2>1. Len(s) \in Nat /\ s \in [1..Len(s) -> Task]
    BY LenProperties
  <2>2. s \in [1..Len(s) -> Call]
    BY <1>1, <2>1
  <2> QED
    BY <2>1, <2>2, SeqDef
<1> QED
  BY <1>1, <1>2

\* What is below the next call is empty, or ends with the call of parse.
LEMMA StackParts ==
    ASSUME NEW w, Stack(w)
    PROVE  /\ Len(w) \in Nat \ {0} /\ Head(w) = w[1]
           /\ Tail(w) = <<>> => Head(w) = "parse"
           /\ Tail(w) # <<>> => /\ Len(Tail(w)) \in Nat \ {0}
                                /\ Tail(w)[Len(Tail(w))] = "parse"
<1> DEFINE r == Tail(w)
<1>1. w \in Seq(Call) /\ w # <<>> /\ w[Len(w)] = "parse"
  BY DEF Stack
<1>2. Len(w) \in Nat \ {0} /\ Head(w) = w[1]
  BY <1>1
<1>3. r \in Seq(Call) /\ Len(r) = Len(w) - 1 /\ \A i \in 1..Len(r) : r[i] = w[i + 1]
  BY <1>1, HeadTailProperties
<1> HIDE DEF r
<1>4. ASSUME r = <<>> PROVE Head(w) = "parse"
  <2>1. Len(r) = 0
    BY <1>4
  <2>2. Len(w) = 1
    BY <1>2, <1>3, <2>1
  <2> QED
    BY <1>1, <1>2, <2>2
<1>5. ASSUME r # <<>> PROVE Len(r) \in Nat \ {0} /\ r[Len(r)] = "parse"
  <2>1. Len(r) \in Nat \ {0}
    BY <1>3, <1>5
  <2>2. Len(r) \in 1..Len(r) /\ Len(r) + 1 = Len(w)
    BY <1>2, <1>3, <2>1
  <2> QED
    BY <1>1, <1>3, <2>1, <2>2
<1> QED
  BY <1>2, <1>4, <1>5 DEF r

\* A call is replaced by what it leaves to be done.
LEMMA StackReplaced ==
    ASSUME NEW w, Stack(w), Head(w) # "parse", NEW b \in Seq(Task)
    PROVE  /\ Stack(b \o Tail(w)) /\ Head(b \o Tail(w)) # "eat_attr"
           /\ b \o Tail(w) # <<>>
<1> DEFINE r == Tail(w)
           n == b \o r
<1>1. /\ r \in Seq(Task) /\ Len(r) \in Nat \ {0} /\ r[Len(r)] = "parse"
  BY StackParts DEF Stack
<1> HIDE DEF r
<1>2. /\ n \in Seq(Task) /\ Len(n) = Len(b) + Len(r)
      /\ \A i \in 1..Len(b) + Len(r) : n[i] = IF i <= Len(b) THEN b[i] ELSE r[i - Len(b)]
  BY <1>1, ConcatProperties
<1>3. /\ Len(b) \in Nat /\ Len(n) \in Nat \ {0} /\ Len(n) \in 1..Len(b) + Len(r)
      /\ ~ (Len(n) <= Len(b)) /\ Len(n) - Len(b) = Len(r)
  <2>1. Len(b) \in Nat
    BY LenProperties
  <2> QED
    BY <1>1, <1>2, <2>1
<1> HIDE DEF n
<1>4. n[Len(n)] = "parse"
  BY <1>1, <1>2, <1>3
<1>5. n # <<>>
  BY <1>3
<1>6. Tail(n) \in Seq(Task) /\ Head(n) \in Task /\ n \in Seq(Call)
  BY <1>2, <1>5, HeadTailProperties, TaskFacts
<1> QED
  BY <1>4, <1>5, <1>6, TaskFacts DEF n, r, Stack

\* Nothing takes its place.
LEMMA StackPopped ==
    ASSUME NEW w, Stack(w), Head(w) # "parse"
    PROVE  /\ Stack(Tail(w)) /\ Head(Tail(w)) # "eat_attr"
           /\ Tail(w) # <<>>
<1> DEFINE r == Tail(w)
<1>1. /\ r \in Seq(Task) /\ Len(r) \in Nat \ {0} /\ r[Len(r)] = "parse"
  BY StackParts DEF Stack
<1> HIDE DEF r
<1>2. r # <<>>
  BY <1>1
<1>3. Tail(r) \in Seq(Task) /\ Head(r) \in Task /\ r \in Seq(Call)
  BY <1>1, <1>2, HeadTailProperties, TaskFacts
<1> QED
  BY <1>1, <1>2, <1>3, TaskFacts DEF r, Stack

\* What parse leaves to be done ends with its next turn.
LEMMA StackOfParse ==
    ASSUME NEW w, Stack(w), NEW b \in Seq(Call), b # <<>>, Tail(b) \in Seq(Task),
           b[Len(b)] = "parse"
    PROVE  /\ Stack(b \o Tail(w)) /\ Head(b \o Tail(w)) = Head(b)
           /\ b \o Tail(w) # <<>>
<1> DEFINE r == Tail(w)
           n == b \o r
<1>1. /\ r \in Seq(Task)
      /\ r # <<>> => Len(r) \in Nat \ {0} /\ r[Len(r)] = "parse"
  BY StackParts DEF Stack
<1>2. r \in Seq(Call)
  BY <1>1, TaskFacts
<1> HIDE DEF r
<1>3. Len(b) \in Nat \ {0} /\ Len(r) \in Nat
  BY <1>2, LenProperties, EmptySeq
<1>4. /\ n \in Seq(Call) /\ Len(n) = Len(b) + Len(r)
      /\ \A i \in 1..Len(b) + Len(r) : n[i] = IF i <= Len(b) THEN b[i] ELSE r[i - Len(b)]
  BY <1>2, ConcatProperties
<1> HIDE DEF n
<1>5. n # <<>> /\ Len(n) \in Nat \ {0}
  BY <1>3, <1>4
<1>6. Head(n) = Head(b)
  <2>1. 1 \in 1..Len(b) + Len(r) /\ 1 <= Len(b)
    BY <1>3
  <2> QED
    BY <1>4, <1>5, <2>1
<1>7. n[Len(n)] = "parse"
  <2>1. CASE r = <<>>
    <3>1. Len(r) = 0
      BY <2>1
    <3>2. Len(n) \in 1..Len(b) + Len(r) /\ Len(n) <= Len(b) /\ Len(n) = Len(b)
      BY <1>3, <1>4, <3>1
    <3> QED
      BY <1>4, <3>2
  <2>2. CASE r # <<>>
    <3>1. Len(r) \in Nat \ {0} /\ r[Len(r)] = "parse"
      BY <1>1, <2>2
    <3>2. /\ Len(n) \in 1..Len(b) + Len(r) /\ ~ (Len(n) <= Len(b))
          /\ Len(n) - Len(b) = Len(r)
      BY <1>3, <1>4, <3>1
    <3> QED
      BY <1>4, <3>1, <3>2
  <2> QED
    BY <2>1, <2>2
<1>8. Tail(n) \in Seq(Task)
  <2> DEFINE u == Tail(n)
  <2>1. u \in Seq(Call) /\ Len(u) = Len(n) - 1 /\ \A i \in 1..Len(u) : u[i] = n[i + 1]
    BY <1>4, <1>5, HeadTailProperties
  <2>2. Len(Tail(b)) = Len(b) - 1 /\ \A i \in 1..Len(Tail(b)) : Tail(b)[i] = b[i + 1]
    BY HeadTailProperties
  <2> HIDE DEF u
  <2>3. ASSUME NEW i \in 1..Len(u) PROVE u[i] \in Task
    <3>1. u[i] = n[i + 1] /\ i + 1 \in 1..Len(b) + Len(r) /\ i \in Nat \ {0}
      BY <1>3, <1>4, <2>1
    <3>2. CASE i + 1 <= Len(b)
      <4>1. i \in 1..Len(Tail(b))
        BY <1>3, <2>2, <3>1, <3>2
      <4>2. u[i] = b[i + 1] /\ Tail(b)[i] = b[i + 1]
        BY <1>4, <2>2, <3>1, <3>2, <4>1
      <4>3. Tail(b)[i] \in Task
        BY <4>1, ElementOfSeq
      <4> QED
        BY <4>2, <4>3
    <3>3. CASE ~ (i + 1 <= Len(b))
      <4>1. i + 1 - Len(b) \in 1..Len(r)
        BY <1>3, <3>1, <3>3
      <4>2. u[i] = r[i + 1 - Len(b)]
        BY <1>4, <3>1, <3>3
      <4> QED
        BY <1>1, <4>1, <4>2, ElementOfSeq
    <3> QED
      BY <3>2, <3>3
  <2>4. Len(u) \in Nat /\ u \in [1..Len(u) -> Call]
    BY <2>1, LenProperties
  <2>5. u \in [1..Len(u) -> Task]
    BY <2>3, <2>4
  <2> QED
    BY <2>4, <2>5, SeqDef DEF u
<1> QED
  BY <1>4, <1>5, <1>6, <1>7, <1>8 DEF n, r, Stack

-----------------------------------------------------------------------------
(* The steps of the machine *)

\* The next thing to do is done, and nothing but the tokens and the call stack
\* changes.
LEMMA EatingKept ==
    ASSUME PInv, NEW p, p \notin {"nothing", "parse"}, NEW ts, Rest(ts, input.t),
           NEW body \in Seq(Task), Eating(p, ts, body)
    PROVE  PInv'
<1>1. work # <<>> /\ Stack(work) /\ Head(work) # "parse"
  BY DEF PInv, WorkOK, Eating, Top, Called
<1>2. ts \in Seq(Token) /\ ts # <<>>
  BY InputText, RestFacts DEF PInv
<1>3. /\ toks' = ts /\ work' = body \o Tail(work) /\ status' = status
      /\ UNCHANGED <<segs, inMatch, out, input>>
  BY <1>2 DEF Eating
<1>4. Stack(work') /\ Head(work') # "eat_attr" /\ work' # <<>>
  BY <1>1, <1>3, StackReplaced
<1>5. status = "run"
  BY <1>1 DEF PInv, TypeOK
<1> QED
  BY <1>2, <1>3, <1>4, <1>5 DEF PInv, TypeOK, WorkOK, Stack, Rest

\* The same, with no token eaten.
LEMMA DoKept ==
    ASSUME PInv, NEW p, p \notin {"nothing", "parse"}, NEW body \in Seq(Task), Do(p, body)
    PROVE  PInv'
<1>1. Rest(toks, input.t)
  BY DEF PInv, Do, Eating, Top, Called
<1> QED
  BY <1>1, EatingKept DEF Do

\* The parse ends where it is.
LEMMA EndsKept ==
    ASSUME PInv, NEW p, p # "nothing",
           NEW how \in {"ok", "error", "todo", "unreachable", "overflow"}, Ends(p, how)
    PROVE  PInv'
<1>1. work # <<>> /\ status = "run"
  BY DEF PInv, TypeOK, Ends, Top, Called
<1>2. /\ work' = <<>> /\ status' = how
      /\ UNCHANGED <<toks, segs, inMatch, out, input>>
  BY DEF Ends
<1> QED
  BY <1>1, <1>2 DEF PInv, TypeOK, WorkOK

\* An error, a todo!() and an unreachable!().
LEMMA ErrKept ==
    ASSUME PInv, NEW p, p # "nothing", Err(p) \/ Todo(p) \/ Unreachable(p)
    PROVE  PInv'
BY EndsKept DEF Err, Todo, Unreachable

-----------------------------------------------------------------------------
(* What the methods eat *)

\* A method that runs has tokens left, the last of them EOF.
LEMMA TokensLeft ==
    ASSUME PInv, NEW p, p # "nothing", Top(p)
    PROVE  /\ Rest(toks, input.t) /\ toks \in Seq(Token) /\ toks # <<>>
           /\ Len(toks) \in Nat \ {0} /\ toks[Len(toks)] = "EOF"
           /\ Curr = Head(toks) /\ Head(toks) = toks[1]
<1>1. Rest(toks, input.t)
  BY DEF PInv, Top, Called
<1> QED
  BY <1>1, InputText, RestFacts DEF PInv, Curr

\* The types of what no method of the recursion reads.
LEMMA StateTypes ==
    ASSUME PInv
    PROVE  segs \in Nat /\ inMatch \in BOOLEAN /\ out \in Seq(Node)
BY DEF PInv, TypeOK

\* A token other than EOF is not the last.
LEMMA AteOne ==
    ASSUME PInv, NEW p, p # "nothing", Top(p), Curr # "EOF"
    PROVE  Rest(Tail(toks), input.t)
BY TokensLeft, InputText, RestTail DEF PInv

\* eat_seq and eat_seq_ignore_ws never eat the EOF.
LEMMA AteSeq ==
    ASSUME NEW t \in Seq(Token), Len(t) # 0, t[Len(t)] = "EOF", NEW ts, Rest(ts, t),
           NEW k1, NEW k2, k1 # "EOF", k2 # "EOF"
    PROVE  Rest(eat_seq(ts, k1, k2), t) /\ Rest(eat_seq_ignore_ws(ts, k1, k2), t)
<1>1. ASSUME NEW u, Rest(u, t) PROVE Rest(SkipOne(u), t)
  <2>1. "EOF" \notin Blank
    BY DEF Blank
  <2> QED
    BY <1>1, <2>1, RestTail DEF SkipOne
<1>2. Rest(eat_seq(ts, k1, k2), t)
  BY RestTail DEF eat_seq
<1>3. Rest(eat_seq_ignore_ws(ts, k1, k2), t)
  <2> DEFINE r == SkipOne(ts)
             q == SkipOne(Tail(r))
  <2>1. Rest(r, t)
    BY <1>1
  <2>2. CASE Head(r) # k1
    BY <2>1, <2>2 DEF eat_seq_ignore_ws
  <2>3. CASE Head(r) = k1
    <3>1. Rest(q, t)
      BY <1>1, <2>1, <2>3, RestTail
    <3>2. Head(q) = k2 => Rest(Tail(q), t)
      BY <3>1, RestTail
    <3> QED
      BY <2>3, <3>1, <3>2 DEF eat_seq_ignore_ws
  <2> QED
    BY <2>2, <2>3
<1> QED
  BY <1>2, <1>3

\* eat_until and the loops over equal tokens stop at the first that passes.
LEMMA FirstToken ==
    ASSUME NEW m \in Nat, NEW I \in SUBSET (1..m), I # {}
    PROVE  Min(I) \in I
<1>1. I \subseteq Nat
  OBVIOUS
<1> QED
  BY <1>1, LeastNumber

-----------------------------------------------------------------------------
(* The steps that do more than to eat *)

\* A step that goes on behind the call, or in what takes its place.
LEMMA OnwardKept ==
    ASSUME PInv, NEW p, p \notin {"nothing", "parse"}, Top(p), NEW body \in Seq(Task),
           work' = body \o Tail(work) \/ work' = Tail(work),
           UNCHANGED <<toks, status, input>>,
           segs' \in Nat, inMatch' \in BOOLEAN, out' \in Seq(Node)
    PROVE  PInv'
<1>1. work # <<>> /\ Stack(work) /\ Head(work) # "parse" /\ status = "run" /\ Rest(toks, input.t)
  BY DEF PInv, TypeOK, WorkOK, Top, Called
<1>2. Stack(work') /\ Head(work') # "eat_attr" /\ work' # <<>>
  BY <1>1, StackReplaced, StackPopped
<1> QED
  BY <1>1, <1>2 DEF PInv, TypeOK, WorkOK, Stack, Rest

\* A turn of the loop of parse.
LEMMA ParseKept ==
    ASSUME PInv, NEW b \in Seq(Call), b # <<>>, Tail(b) \in Seq(Task), b[Len(b)] = "parse",
           Head(b) = "eat_attr" => Curr = "#", Do("parse", b)
    PROVE  PInv'
<1>1. work # <<>> /\ Stack(work) /\ status = "run" /\ Rest(toks, input.t) /\ toks # <<>>
  BY DEF PInv, TypeOK, WorkOK, Do, Eating, Top, Called
<1>2. /\ toks' = toks /\ work' = b \o Tail(work) /\ status' = status
      /\ UNCHANGED <<segs, inMatch, out, input>>
  BY <1>1 DEF Do, Eating
<1>3. Stack(work') /\ Head(work') = Head(b) /\ work' # <<>>
  BY <1>1, <1>2, StackOfParse
<1>4. Curr' = Curr
  BY <1>2 DEF Curr
<1> QED
  BY <1>1, <1>2, <1>3, <1>4 DEF PInv, TypeOK, WorkOK, Stack, Rest

\* What every list calls.
LEMMA CommaTasks == "," \in Task /\ "ws" \in Task /\ "make_ty" \in Task
BY DEF Task, Matched, Punct, Methods

\* Short sequences over a set.
LEMMA SmallSeq ==
    ASSUME NEW S, NEW a \in S, NEW b \in S, NEW c \in S
    PROVE  <<>> \in Seq(S) /\ <<a>> \in Seq(S) /\ <<a, b>> \in Seq(S) /\ <<a, b, c>> \in Seq(S)
OBVIOUS

\* The same of five elements.
LEMMA LongerSeq ==
    ASSUME NEW S, NEW a \in S, NEW b \in S, NEW c \in S, NEW d \in S, NEW e \in S
    PROVE  <<a, b, c, d, e>> \in Seq(S)
OBVIOUS

\* A list with commas.
LEMMA CommaListKept ==
    ASSUME PInv, NEW p \in Task, NEW more \in Task, "parse" \notin {p, more}, NEW stop,
           NEW stops \in Seq(Task), NEW elem \in Seq(Task), NEW end \in Seq(Task),
           CommaList(p, more, stop, stops, elem, end)
    PROVE  PInv'
<1>1. <<more>> \in Seq(Task) /\ <<",", "ws", p>> \in Seq(Task)
  BY Zenon, CommaTasks, SmallSeq
<1>2. elem \o <<more>> \in Seq(Task)
  BY <1>1, ConcatProperties
<1>3. p # "nothing" /\ more # "nothing"
  BY TaskFacts
<1> QED
  BY <1>1, <1>2, <1>3, DoKept DEF CommaList

\* A list of types in brackets.
LEMMA MakeTypesKept ==
    ASSUME PInv, NEW p \in Task, NEW each \in Task, NEW more \in Task,
           "parse" \notin {p, each, more}, NEW open \in Task, NEW close \in Task,
           make_types(p, each, more, open, close)
    PROVE  PInv'
<1>2. /\ <<open, "ws", each>> \in Seq(Task) /\ <<>> \in Seq(Task)
      /\ <<close, close, "ws">> \in Seq(Task)
      /\ <<"make_ty">> \in Seq(Task)
      /\ <<close, "ws">> \in Seq(Task)
  BY Zenon, CommaTasks, SmallSeq
<1>3. p # "nothing"
  BY TaskFacts
<1>4. CASE CommaList(each, more, close, <<close, close, "ws">>, <<"make_ty">>, <<close, "ws">>)
  BY <1>2, <1>4, CommaListKept
<1>5. CASE ~ CommaList(each, more, close, <<close, close, "ws">>, <<"make_ty">>, <<close, "ws">>)
  BY <1>2, <1>3, <1>5, DoKept DEF make_types
<1> QED
  BY <1>4, <1>5

-----------------------------------------------------------------------------
(* The steps, method by method *)

\* The steps that take tokens, and those that build the tree.
LEMMA PrimitivesKept ==
    ASSUME PInv, Primitive PROVE PInv'
<1>1. ASSUME eat_if PROVE PInv'
  <2>1. PICK k \in Matched : /\ Called = k
                            /\ Eating(k, IF Matches(k, Curr) THEN Tail(toks) ELSE toks, <<>>)
    BY <1>1 DEF eat_if
  <2>2. k \notin {"nothing", "parse"} /\ Top(k)
    BY <2>1 DEF Matched, Punct, Keywords, Decls, Top
  <2>3. Matches(k, Curr) => Curr # "EOF"
    BY DEF Matches, Matched, IsIdent, Literal, Punct, Keywords, Decls, Names, Registers
  <2>4. Rest(IF Matches(k, Curr) THEN Tail(toks) ELSE toks, input.t)
    BY <2>2, <2>3, TokensLeft, AteOne
  <2>5. <<>> \in Seq(Task)
    BY EmptySeq
  <2> QED
    BY <2>1, <2>2, <2>4, <2>5, EatingKept
<1>2. ASSUME eat_whitespace PROVE PInv'
  <2> DEFINE I == {i \in 1..Len(toks) : toks[i] \notin Blank}
             n == IF I # {} THEN Min(I) ELSE 0
  <2>1. Eating("ws", SubSeq(toks, n, Len(toks)), <<>>)
    BY <1>2 DEF eat_whitespace, SelectInSeq
  <2>2. Top("ws")
    BY <2>1 DEF Eating
  <2>3. Len(toks) \in Nat \ {0} /\ toks[Len(toks)] = "EOF" /\ Rest(toks, input.t)
    BY <2>2, TokensLeft
  <2>4. Len(toks) \in I
    <3>1. "EOF" \notin Blank
      BY DEF Blank
    <3> QED
      BY <2>3, <3>1
  <2>5. n \in 1..Len(toks)
    BY <2>3, <2>4, FirstToken
  <2>6. Rest(SubSeq(toks, n, Len(toks)), input.t)
    BY <2>3, <2>5, InputText, RestEnd DEF PInv
  <2>7. <<>> \in Seq(Task)
    BY EmptySeq
  <2> HIDE DEF n
  <2> QED
    BY <2>1, <2>6, <2>7, EatingKept
<1>3. ASSUME build PROVE PInv'
  <2>1. PICK n \in Node : /\ Top(n) /\ out' = Append(out, n) /\ work' = Tail(work)
                         /\ UNCHANGED <<toks, segs, inMatch, status, input>>
    BY <1>3 DEF build
  <2>2. n \notin {"nothing", "parse"}
    BY DEF Node, Operand, LhExpr, Pats, Types, Stmts, Items
  <2>3. out' \in Seq(Node) /\ segs' = segs /\ inMatch' = inMatch
    BY <2>1, StateTypes
  <2>4. <<>> \in Seq(Task)
    BY EmptySeq
  <2> QED
    BY <2>1, <2>2, <2>3, <2>4, StateTypes, OnwardKept
<1>4. ASSUME eat_attr PROVE PInv'
  <2> DEFINE t == input.t
             I == {i \in 1..Len(toks) : toks[i] = "]"}
             n == IF I # {} THEN Min(I) ELSE 0
             ts == IF n = 0 THEN <<>> ELSE SubSeq(toks, n + 1, Len(toks))
  <2>1. \/ Peek = "[" /\ Eating("eat_attr", ts, <<>>)
        \/ Do("eat_attr", <<>>)
    BY <1>4 DEF eat_attr, SelectInSeq
  <2>2. Top("eat_attr")
    BY <2>1 DEF Do, Eating
  <2>3. /\ Rest(toks, t) /\ toks \in Seq(Token) /\ Len(toks) \in Nat \ {0}
        /\ toks[Len(toks)] = "EOF" /\ Curr = toks[1]
    BY <2>2, TokensLeft
  <2>4. t \in Seq(Token) /\ Len(t) \in Nat \ {0} /\ t[Len(t)] = "EOF"
    BY InputText DEF PInv
  <2>5. <<>> \in Seq(Task)
    BY EmptySeq
  <2>6. CASE Do("eat_attr", <<>>)
    BY <2>5, <2>6, DoKept
  <2>7. CASE Eating("eat_attr", ts, <<>>) /\ I # {}
    <3>1. n \in 1..Len(toks) /\ toks[n] = "]"
      BY <2>3, <2>7, FirstToken
    <3>2. n # Len(toks)
      BY <2>3, <3>1
    <3> HIDE DEF n
    <3>3. n + 1 \in 1..Len(toks) /\ n # 0
      BY <2>3, <3>1, <3>2
    <3>4. Rest(ts, t)
      BY <2>3, <2>4, <3>3, RestEnd
    <3> HIDE DEF ts
    <3> QED
      BY <2>5, <2>7, <3>4, EatingKept
  <2>8. CASE Peek = "[" /\ Eating("eat_attr", ts, <<>>) /\ I = {}
    <3>1. /\ toks' = <<>> /\ work' = <<>> /\ status' = "past the end"
          /\ UNCHANGED <<segs, inMatch, out, input>>
      BY <2>8 DEF Eating
    <3>2. toks[1] = "#"
      BY <2>2, <2>3 DEF PInv, WorkOK, Top, Called
    <3>3. Len(toks) > 1 /\ toks[2] = "["
      BY <2>8 DEF Peek
    <3>4. PICK k \in 1..Len(t) : toks = SubSeq(t, k, Len(t))
      BY <2>3 DEF Rest
    <3>5. Len(toks) = Len(t) - k + 1 /\ \A i \in 1..Len(toks) : toks[i] = t[k + i - 1]
      BY <2>4, <3>4
    <3> HIDE DEF t
    <3>6. k < Len(t) /\ t[k] = "#" /\ t[k + 1] = "["
      <4>1. 1 \in 1..Len(toks) /\ 2 \in 1..Len(toks) /\ k + 1 - 1 = k /\ k + 2 - 1 = k + 1
        BY <2>3, <3>3
      <4> QED
        BY <2>4, <3>2, <3>3, <3>5, <4>1
    <3>7. ASSUME NEW j \in k..Len(t) PROVE t[j] # "]"
      <4>1. j - k + 1 \in 1..Len(toks) /\ k + (j - k + 1) - 1 = j
        BY <2>4, <3>5
      <4>2. toks[j - k + 1] = t[j]
        BY <3>5, <4>1
      <4> QED
        BY <2>8, <4>1, <4>2
    <3>8. Unclosed(t)
      BY <3>6, <3>7 DEF Unclosed
    <3>9. TypeOK'
      <4>1. <<>> \in Seq(Token)
        BY EmptySeq
      <4> QED
        BY <3>1, <4>1, StateTypes DEF TypeOK
    <3>10. WorkOK' /\ (work # <<>> => Rest(toks, input.t))' /\ input' \in Inputs
      BY <3>1 DEF PInv, WorkOK
    <3>11. Unclosed(input.t)'
      BY <3>1, <3>8 DEF t
    <3> QED
      BY <3>9, <3>10, <3>11 DEF PInv
  <2> QED
    BY <2>1, <2>6, <2>7, <2>8
<1>5. ASSUME count_eaten_seq PROVE PInv'
  <2> DEFINE I == {i \in 1..Len(toks) : toks[i] # "*"}
             n == IF I # {} THEN Min(I) ELSE 0
  <2>1. Eating("stars", SubSeq(toks, n, Len(toks)), <<>>)
    BY <1>5 DEF count_eaten_seq, SelectInSeq
  <2>2. Top("stars")
    BY <2>1 DEF Eating
  <2>3. Len(toks) \in Nat \ {0} /\ toks[Len(toks)] = "EOF" /\ Rest(toks, input.t)
    BY <2>2, TokensLeft
  <2>4. Len(toks) \in I
    <3>1. "EOF" # "*"
      OBVIOUS
    <3> QED
      BY <2>3, <3>1
  <2>5. n \in 1..Len(toks)
    BY <2>3, <2>4, FirstToken
  <2>6. Rest(SubSeq(toks, n, Len(toks)), input.t)
    BY <2>3, <2>5, InputText, RestEnd DEF PInv
  <2>7. <<>> \in Seq(Task)
    BY EmptySeq
  <2> HIDE DEF n
  <2> QED
    BY <2>1, <2>6, <2>7, EatingKept
<1>6. ASSUME set_in_match PROVE PInv'
  <2>1. PICK p \in {"in_match", "out_of_match"} : Top(p)
    BY <1>6 DEF set_in_match
  <2>2. /\ work' = Tail(work) /\ segs' \in Nat /\ inMatch' \in BOOLEAN
        /\ out' \in Seq(Node) /\ UNCHANGED <<toks, status, input>>
    BY <1>6 DEF set_in_match, PInv, TypeOK
  <2>3. <<>> \in Seq(Task)
    BY EmptySeq
  <2> QED
    BY <2>1, <2>2, <2>3, OnwardKept
<1> QED
  BY <1>1, <1>2, <1>3, <1>4, <1>5, <1>6 DEF Primitive

\* Names, paths, types and literals.
LEMMA TypesKept ==
    ASSUME PInv, Type PROVE PInv'
<1>1. ASSUME make_ident PROVE PInv'
  <2>1. <<"Ident", "ws">> \in Seq(Task)
    BY DEF Task, Matched, Methods
  <2> QED
    BY <1>1, <2>1, DoKept DEF make_ident
<1>2. ASSUME make_path PROVE PInv'
  <2>1. <<"make_seg">> \in Seq(Task)
    BY DEF Task, Methods
  <2>2. /\ work' = <<"make_seg">> \o Tail(work) /\ segs' \in Nat /\ inMatch' \in BOOLEAN
        /\ out' \in Seq(Node) /\ UNCHANGED <<toks, status, input>> /\ Top("make_path")
    BY <1>2 DEF make_path, PInv, TypeOK
  <2> QED
    BY <2>1, <2>2, OnwardKept
<1>3. ASSUME make_seg PROVE PInv'
  <2>1. /\ <<"ws">> \in Seq(Task)
        /\ <<"seg", "make_ident", "more_segs">> \in Seq(Task)
    BY DEF Task, Methods
  <2>2. ASSUME Top("make_seg")
        PROVE  Rest(toks, input.t) /\ Rest(eat_seq(toks, ":", ":"), input.t)
    BY <2>2, TokensLeft, InputText, AteSeq DEF PInv
  <2> QED
    BY <1>3, <2>1, <2>2, DoKept, EatingKept DEF make_seg
<1>4. ASSUME seg PROVE PInv'
  <2>1. <<>> \in Seq(Task)
    BY EmptySeq
  <2>2. segs' \in Nat
    BY <1>4, StateTypes DEF seg
  <2>3. /\ work' = Tail(work) /\ inMatch' \in BOOLEAN /\ out' \in Seq(Node)
        /\ UNCHANGED <<toks, status, input>> /\ Top("seg")
    BY <1>4, StateTypes DEF seg
  <2> QED
    BY <2>1, <2>2, <2>3, OnwardKept
<1>5. ASSUME more_segs PROVE PInv'
  <2>1. /\ <<"ws", "make_seg">> \in Seq(Task)
        /\ <<"ws">> \in Seq(Task)
    BY DEF Task, Methods
  <2> QED
    BY <1>5, <2>1, DoKept DEF more_segs
<1>6. ASSUME make_ty PROVE PInv'
  <2>1. /\ <<"fn", "(", "ws", "fn_params", "ret", "FnTy">> \in Seq(Task)
        /\ <<"Ident", "NamedTy">> \in Seq(Task)
        /\ <<"make_path", "ty_args", "Ident", "PathTy">> \in Seq(Task)
        /\ <<"[", "ws", "make_array_type">> \in Seq(Task)
        /\ <<"*", "make_ty", "PtrTy">> \in Seq(Task)
    BY DEF Task, Matched, Punct, Keywords, Decls, Node, Types, Methods
  <2> QED
    BY <1>6, <2>1, DoKept, ErrKept DEF make_ty
<1>7. ASSUME ty_args PROVE PInv'
  <2>1. /\ <<"types<">> \in Seq(Task)
        /\ <<>> \in Seq(Task)
    BY DEF Task, Methods
  <2> QED
    BY <1>7, <2>1, DoKept DEF ty_args
<1>8. ASSUME fn_params PROVE PInv'
  <2>1. /\ {"fn_params", "more_fn_params"} \subseteq Task
        /\ <<")">> \in Seq(Task)
        /\ <<"make_ty", "ws">> \in Seq(Task)
    BY DEF Task, Matched, Punct, Methods
  <2> QED
    BY <1>8, <2>1, CommaListKept DEF fn_params
<1>9. ASSUME ret PROVE PInv'
  <2>1. /\ <<":", "ws", "make_ty">> \in Seq(Task)
        /\ <<"ws">> \in Seq(Task)
    BY DEF Task, Matched, Punct, Methods
  <2> QED
    BY <1>9, <2>1, DoKept DEF ret
<1>10. ASSUME make_array_type PROVE PInv'
  <2>1. <<"Literal", "ws", ";", "ws", "make_ty", "ArrayTy", "]">> \in Seq(Task)
    BY DEF Task, Matched, Punct, Node, Types, Methods
  <2> QED
    BY <1>10, <2>1, DoKept, ErrKept DEF make_array_type
<1>11. ASSUME make_type_args PROVE PInv'
  <2>1. /\ <<"type_args">> \in Seq(Task)
        /\ <<"<", "ws", "each_type_arg">> \in Seq(Task)
        /\ <<>> \in Seq(Task)
        /\ <<"make_ty", "Arg", "ws", "more_type_args">> \in Seq(Task)
        /\ <<",", "ws", "each_type_arg">> \in Seq(Task)
        /\ <<">">> \in Seq(Task)
    BY DEF Task, Matched, Punct, Node, Items, Methods
  <2>2. ASSUME Top("make_type_args")
        PROVE  Rest(eat_seq_ignore_ws(toks, ":", ":"), input.t)
    BY <2>2, TokensLeft, InputText, AteSeq DEF PInv
  <2>3. ASSUME NEW b, Eating("make_type_args", eat_seq_ignore_ws(toks, ":", ":"), b)
        PROVE  Top("make_type_args")
    BY <2>3 DEF Eating
  <2> QED
    BY <1>11, <2>1, <2>2, <2>3, DoKept, EatingKept DEF make_type_args
<1>12. ASSUME make_generics PROVE PInv'
  <2>1. /\ <<"<", "each_generic">> \in Seq(Task)
        /\ <<"ws">> \in Seq(Task)
        /\ <<"make_ident", "bound", "Generic", "ws", "more_generics">> \in Seq(Task)
        /\ <<",", "ws", "each_generic">> \in Seq(Task)
        /\ <<">", "ws">> \in Seq(Task)
    BY DEF Task, Matched, Punct, Node, Items, Methods
  <2> QED
    BY <1>12, <2>1, DoKept DEF make_generics
<1>13. ASSUME bound PROVE PInv'
  <2>1. /\ <<":", "ws", "make_path">> \in Seq(Task)
        /\ <<>> \in Seq(Task)
    BY DEF Task, Matched, Punct, Methods
  <2> QED
    BY <1>13, <2>1, DoKept DEF bound
<1>14. ASSUME make_literal PROVE PInv'
  <2>1. /\ <<"-", "number">> \in Seq(Task)
        /\ <<"literal">> \in Seq(Task)
        /\ <<>> \in Seq(Task)
    BY DEF Task, Matched, Punct, Methods
  <2>2. ASSUME NEW p, p # "nothing", Curr \in {"true", "false", "1", "1.5", "'c'", "str"},
               Eating(p, Tail(toks), <<>>)
        PROVE  Rest(Tail(toks), input.t)
    BY <2>2, AteOne DEF Eating
  <2> QED
    BY <1>14, <2>1, <2>2, DoKept, EatingKept, ErrKept DEF make_literal
<1>15. ASSUME make_types("types<", "each_type<", "more_types<", "<", ">") PROVE PInv'
  <2>1. {"types<", "each_type<", "more_types<", "<", ">"} \subseteq Task
    BY DEF Task, Matched, Punct, Methods
  <2> QED
    BY <1>15, <2>1, MakeTypesKept
<1>16. ASSUME make_types("types(", "each_type(", "more_types(", "(", ")") PROVE PInv'
  <2>1. {"types(", "each_type(", "more_types(", "(", ")"} \subseteq Task
    BY DEF Task, Matched, Punct, Methods
  <2> QED
    BY <1>16, <2>1, MakeTypesKept
<1> QED
  BY <1>1, <1>2, <1>3, <1>4, <1>5, <1>6, <1>7, <1>8, <1>9, <1>10, <1>11, <1>12, <1>13, <1>14,
         <1>15, <1>16 DEF Type

\* What parse itself leaves to be done.
LEMMA ParseTasks ==
    /\ {"ws", "parse", "}"} \subseteq Task
    /\ {"ws", "parse", "}", "eat_attr"} \subseteq Call
BY DEF Call, Task, Matched, Punct, Methods

\* The calls that parse leaves to be done, with its own next turn at the end.
LEMMA OneCall ==
    ASSUME NEW S, NEW T, NEW a \in S
    PROVE  /\ <<a>> \in Seq(S) /\ <<a>> # <<>> /\ Tail(<<a>>) \in Seq(T)
           /\ <<a>>[Len(<<a>>)] = a /\ Head(<<a>>) = a
OBVIOUS

\* The same of two calls.
LEMMA TwoCalls ==
    ASSUME NEW S, NEW T, NEW a \in S, NEW b \in S, b \in T
    PROVE  /\ <<a, b>> \in Seq(S) /\ <<a, b>> # <<>> /\ Tail(<<a, b>>) \in Seq(T)
           /\ <<a, b>>[Len(<<a, b>>)] = b /\ Head(<<a, b>>) = a
OBVIOUS

\* The same of three calls.
LEMMA ThreeCalls ==
    ASSUME NEW S, NEW T, NEW a \in S, NEW b \in S, NEW c \in S, b \in T, c \in T
    PROVE  /\ <<a, b, c>> \in Seq(S) /\ <<a, b, c>> # <<>> /\ Tail(<<a, b, c>>) \in Seq(T)
           /\ <<a, b, c>>[Len(<<a, b, c>>)] = c /\ Head(<<a, b, c>>) = a
OBVIOUS

\* Declarations.
LEMMA DeclarationsKept ==
    ASSUME PInv, Declaration PROVE PInv'
<1>1. ASSUME parse PROVE PInv'
  <2>1. ASSUME NEW k \in Task, Do("parse", <<k, "ws", "parse">>) PROVE PInv'
    <3> DEFINE b == <<k, "ws", "parse">>
    <3>1. /\ b \in Seq(Call) /\ b # <<>> /\ Tail(b) \in Seq(Task)
          /\ b[Len(b)] = "parse" /\ Head(b) = k
      <4>1. k \in Call /\ "ws" \in Call /\ "parse" \in Call /\ "ws" \in Task /\ "parse" \in Task
        BY ParseTasks, TaskFacts
      <4> QED
        BY <4>1, ThreeCalls
    <3>2. Do("parse", b) /\ k # "eat_attr"
      BY <2>1, TaskFacts
    <3> HIDE DEF b
    <3> QED
      BY <3>1, <3>2, ParseKept
  <2>2. ASSUME NEW k \in Call, k = "eat_attr" => Curr = "#", Do("parse", <<k, "parse">>) PROVE PInv'
    <3> DEFINE b == <<k, "parse">>
    <3>1. /\ b \in Seq(Call) /\ b # <<>> /\ Tail(b) \in Seq(Task)
          /\ b[Len(b)] = "parse" /\ Head(b) = k
      <4>1. k \in Call /\ "parse" \in Call /\ "parse" \in Task
        BY ParseTasks
      <4> QED
        BY <4>1, TwoCalls
    <3>2. Do("parse", b)
      BY <2>2
    <3> HIDE DEF b
    <3> QED
      BY <2>2, <3>1, <3>2, ParseKept
  <2>4. \A d \in Decls : KeywordOf[d] \in Task
    BY DEF Decls, KeywordOf, Task, Methods
  <2>5. CASE Curr = "EOF" /\ Ends("parse", "ok")
    BY <2>5, EndsKept
  <2>6. CASE Curr \in Blank /\ Do("parse", <<"ws", "parse">>)
    BY <2>2, <2>6, ParseTasks
  <2>7. CASE Curr \in Decls /\ Do("parse", <<KeywordOf[Curr], "ws", "parse">>)
    BY <2>1, <2>4, <2>7
  <2>8. CASE Curr = "#" /\ Do("parse", <<"eat_attr", "parse">>)
    BY <2>2, <2>8, ParseTasks
  <2>9. CASE Curr = "}" /\ Do("parse", <<"}", "ws", "parse">>)
    BY <2>1, <2>9, ParseTasks
  <2>10. CASE \/ Unreachable("parse")
              \/ Err("parse")
    BY <2>10, ErrKept
  <2> QED
    BY <1>1, <2>5, <2>6, <2>7, <2>8, <2>9, <2>10 DEF parse
<1>2. ASSUME parse_const PROVE PInv'
  <2>1. <<"const", "ws", "mut", "ws", "make_ident", "ws", ":", "ws", "make_ty", "ws", "=", "ws",
          "make_expr", "ws", ";", "Const">> \in Seq(Task)
    BY DEF Task, Matched, Punct, Keywords, Decls, Node, Items, Methods
  <2> QED
    BY <1>2, <2>1, DoKept DEF parse_const
<1>3. ASSUME opt_params PROVE PInv'
  <2>1. /\ <<")">> \in Seq(Task)
        /\ <<"make_params">> \in Seq(Task)
    BY DEF Task, Matched, Punct, Methods
  <2> QED
    BY <1>3, <2>1, DoKept DEF opt_params
<1>4. ASSUME parse_fn PROVE PInv'
  <2>1. <<"fn", "ws", "make_ident", "make_generics">> \o Signature \o <<"make_block",
          "Fn">> \in Seq(Task)
    BY DEF Signature, Task, Matched, Punct, Keywords, Decls, Node, Items, Methods
  <2> QED
    BY <1>4, <2>1, DoKept DEF parse_fn
<1>5. ASSUME parse_linked_fn PROVE PInv'
  <2>1. /\ <<"linked", "ws", "fn", "ws", "make_ident",
             "make_generics">> \o Signature \o <<"linked_body", "Linked">> \in Seq(Task)
        /\ <<";">> \in Seq(Task)
        /\ <<"make_block">> \in Seq(Task)
    BY DEF Signature, Task, Matched, Punct, Keywords, Decls, Node, Items, Methods
  <2> QED
    BY <1>5, <2>1, DoKept DEF parse_linked_fn
<1>6. ASSUME parse_impl PROVE PInv'
  <2>1. <<"impl", "ws", "make_path", "types<", "{", "ws", "parse_fn", "}", "Impl">> \in Seq(Task)
    BY DEF Task, Matched, Punct, Keywords, Decls, Node, Items, Methods
  <2> QED
    BY <1>6, <2>1, DoKept DEF parse_impl
<1>7. ASSUME parse_struct PROVE PInv'
  <2>1. <<"struct", "ws", "make_ident", "make_generics", "{", "ws", "make_fields", "}",
          "Struct">> \in Seq(Task)
    BY DEF Task, Matched, Punct, Keywords, Decls, Node, Items, Methods
  <2> QED
    BY <1>7, <2>1, DoKept DEF parse_struct
<1>8. ASSUME parse_enum PROVE PInv'
  <2>1. <<"enum", "ws", "make_ident", "make_generics", "{", "ws", "make_variants", "}",
          "Enum">> \in Seq(Task)
    BY DEF Task, Matched, Punct, Keywords, Decls, Node, Items, Methods
  <2> QED
    BY <1>8, <2>1, DoKept DEF parse_enum
<1>9. ASSUME parse_trait PROVE PInv'
  <2>1. <<"trait", "ws", "make_path", "make_generics", "{", "ws", "make_trait_fn", "}",
          "Trait">> \in Seq(Task)
    BY DEF Task, Matched, Punct, Keywords, Decls, Node, Items, Methods
  <2> QED
    BY <1>9, <2>1, DoKept DEF parse_trait
<1>10. ASSUME parse_import PROVE PInv'
  <2>1. <<"import", "ws", "make_path", ";", "Import">> \in Seq(Task)
    BY DEF Task, Matched, Punct, Keywords, Decls, Node, Items, Methods
  <2> QED
    BY <1>10, <2>1, DoKept DEF parse_import
<1>11. ASSUME make_trait_fn PROVE PInv'
  <2>1. /\ <<"fn", "ws", "make_ident">> \o Signature \o <<"default">> \in Seq(Task)
        /\ <<";", "make_block", "Default">> \in Seq(Task)
        /\ <<"NoBody">> \in Seq(Task)
    BY DEF Signature, Task, Matched, Punct, Keywords, Decls, Node, Items, Methods
  <2> QED
    BY <1>11, <2>1, DoKept DEF make_trait_fn
<1>12. ASSUME make_variants PROVE PInv'
  <2>1. /\ {"make_variants", "more_variants"} \subseteq Task
        /\ <<"ws">> \in Seq(Task)
        /\ <<"make_ident", "types(", "Variant", "ws">> \in Seq(Task)
    BY DEF Task, Node, Items, Methods
  <2> QED
    BY <1>12, <2>1, CommaListKept DEF make_variants
<1>13. ASSUME make_fields PROVE PInv'
  <2>1. /\ {"make_fields", "more_fields"} \subseteq Task
        /\ <<"ws">> \in Seq(Task)
        /\ <<"make_ident", ":", "ws", "make_ty", "Field", "ws">> \in Seq(Task)
    BY DEF Task, Matched, Punct, Node, Items, Methods
  <2> QED
    BY <1>13, <2>1, CommaListKept DEF make_fields
<1>14. ASSUME make_params PROVE PInv'
  <2>1. /\ {"make_params", "more_params"} \subseteq Task
        /\ <<")", "ws">> \in Seq(Task)
        /\ <<"make_ident", ":", "ws", "make_ty", "Param", "ws">> \in Seq(Task)
        /\ <<"ws">> \in Seq(Task)
    BY DEF Task, Matched, Punct, Node, Items, Methods
  <2> QED
    BY <1>14, <2>1, CommaListKept DEF make_params
<1> QED
  BY <1>1, <1>2, <1>3, <1>4, <1>5, <1>6, <1>7, <1>8, <1>9, <1>10, <1>11, <1>12, <1>13, <1>14
     DEF Declaration

\* Expressions.
LEMMA ExpressionsKept ==
    ASSUME PInv, Expression PROVE PInv'
<1>1. ASSUME make_expr PROVE PInv'
  <2>1. /\ Expr \in Seq(Task)
        /\ RepeatInit \in Seq(Task)
        /\ <<"[", "ws", "make_expr_list", "ArrayInit">> \in Seq(Task)
        /\ <<"<", "make_type_args", "make_path", "ws", ">", "(", "ws", "make_arg_list", "ws",
             ")", "TraitMeth">> \in Seq(Task)
        /\ <<"@", "builtin">> \in Seq(Task)
        /\ <<"make_literal", "Value">> \in Seq(Task)
        /\ <<"advance_to_op">> \in Seq(Task)
    BY DEF Expr, RepeatInit, Task, Matched, Punct, Node, Operand, Methods
  <2> QED
    BY <1>1, <2>1, DoKept, ErrKept DEF make_expr
<1>2. ASSUME array_count PROVE PInv'
  <2>1. /\ <<"make_literal">> \in Seq(Task)
        /\ <<"make_literal", "fail">> \in Seq(Task)
    BY DEF Task, Methods
  <2> QED
    BY <1>2, <2>1, DoKept, ErrKept, EndsKept DEF array_count
<1>3. ASSUME make_expr_list PROVE PInv'
  <2>1. /\ {"make_expr_list", "more_exprs"} \subseteq Task
        /\ <<"]", "]", "ws">> \in Seq(Task)
        /\ <<"make_expr", "Arg">> \in Seq(Task)
        /\ <<"]", "ws">> \in Seq(Task)
    BY DEF Task, Matched, Punct, Node, Items, Methods
  <2> QED
    BY <1>3, <2>1, CommaListKept DEF make_expr_list
<1>4. ASSUME make_arg_list PROVE PInv'
  <2>1. /\ {"make_arg_list", "more_args"} \subseteq Task
        /\ <<")">> \in Seq(Task)
        /\ <<"make_expr", "Arg", "ws">> \in Seq(Task)
        /\ <<>> \in Seq(Task)
    BY DEF Task, Matched, Punct, Node, Items, Methods
  <2> QED
    BY <1>4, <2>1, CommaListKept DEF make_arg_list
<1>5. ASSUME make_field_list PROVE PInv'
  <2>1. /\ {"each_init", "more_inits"} \subseteq Task
        /\ <<"{", "ws", "each_init">> \in Seq(Task)
        /\ <<"}", "}", "ws">> \in Seq(Task)
        /\ <<"make_ident", "ws", ":", "ws", "make_expr", "Init">> \in Seq(Task)
        /\ <<"}", "ws">> \in Seq(Task)
    BY DEF Task, Matched, Punct, Node, Items, Methods
  <2> QED
    BY <1>5, <2>1, DoKept, CommaListKept DEF make_field_list
<1>6. ASSUME builtin PROVE PInv'
  <2>1. /\ <<"Ident", "Bottom">> \in Seq(Task)
        /\ <<"Ident", "size_of_arg">> \in Seq(Task)
        /\ <<"one_type">> \in Seq(Task)
        /\ <<"<", "ws", "make_ty", "ws", "only_type">> \in Seq(Task)
        /\ <<"more_type_args", "fail">> \in Seq(Task)
        /\ <<">", "SizeOf">> \in Seq(Task)
    BY DEF Task, Matched, Punct, Node, Operand, Methods
  <2>2. ASSUME Top("size_of_arg")
        PROVE  Rest(eat_seq_ignore_ws(toks, ":", ":"), input.t)
    BY <2>2, TokensLeft, InputText, AteSeq DEF PInv
  <2>3. ASSUME NEW b, Eating("size_of_arg", eat_seq_ignore_ws(toks, ":", ":"), b)
        PROVE  Top("size_of_arg")
    BY <2>3 DEF Eating
  <2> QED
    BY <1>6, <2>1, <2>2, <2>3, DoKept, EatingKept, ErrKept DEF builtin
<1>7. ASSUME advance_to_op PROVE PInv'
  <2>1. /\ <<"make_lh_expr", "ws", "make_op">> \in Seq(Task)
        /\ <<"make_literal", "Value", "ws", "make_op">> \in Seq(Task)
        /\ <<"!", "make_expr", "Not", "ws", "make_op">> \in Seq(Task)
        /\ <<"~", "make_expr", "OnesComp", "ws", "make_op">> \in Seq(Task)
        /\ <<"stars", "make_lh_expr", "Deref", "ws", "make_op">> \in Seq(Task)
        /\ <<"&", "make_expr", "AddrOf", "ws", "make_op">> \in Seq(Task)
        /\ <<"(", "make_expr", "Parens", "ws", ")", "ws", "make_op">> \in Seq(Task)
    BY DEF Task, Matched, Punct, Node, Operand, LhExpr, Methods
  <2> QED
    BY <1>7, <2>1, DoKept, ErrKept DEF advance_to_op
<1>8. ASSUME make_op PROVE PInv'
  <2>1. /\ <<"=", "ws">> \in Seq(Task)
        /\ <<"ws">> \in Seq(Task)
        /\ <<"ws", "advance_to_op">> \in Seq(Task)
        /\ <<>> \in Seq(Task)
        /\ OpFound \in Seq(Task)
    BY DEF OpFound, Task, Matched, Punct, Node, Operand, Methods
  <2>2. ASSUME NEW k \in Task, NEW l \in Task
        PROVE  <<k>> \o OpFound \in Seq(Task) /\ <<k, l>> \o OpFound \in Seq(Task)
    BY <2>1, SmallSeq, ConcatProperties
  <2>3. {"+", "-", "*", "/", "%", "^", "&", "|", "=", "!", "<", ">"} \subseteq Task
    BY DEF Task, Matched, Punct
  <2>4. <<"=", "=">> \o OpFound \in Seq(Task) /\ <<"!", "=">> \o OpFound \in Seq(Task)
    BY <2>2, <2>3
  <2>5. ASSUME Curr \in {"+", "-", "*", "/", "%", "^", "&", "|"}
        PROVE  <<Curr>> \o OpFound \in Seq(Task) /\ <<Curr, Curr>> \o OpFound \in Seq(Task)
    BY <2>2, <2>3, <2>5
  <2>6. ASSUME Curr \in {"<", ">"}
        PROVE  /\ <<Curr>> \o OpFound \in Seq(Task)
               /\ Peek \in {Curr, "="} => <<Curr, Peek>> \o OpFound \in Seq(Task)
    BY <2>2, <2>3, <2>6
  <2> QED
    BY <1>8, <2>1, <2>4, <2>5, <2>6, DoKept, ErrKept DEF make_op
<1>9. ASSUME make_lh_expr PROVE PInv'
  <2>1. /\ <<"stars", "pointee", "Deref">> \in Seq(Task)
        /\ <<"make_lh_expr">> \in Seq(Task)
        /\ <<"make_ident", "Name", ".", "make_lh_expr", "FieldAccess">> \in Seq(Task)
        /\ <<"make_ident", "[", "ws", "index">> \in Seq(Task)
        /\ <<"make_path", "lh_path">> \in Seq(Task)
    BY DEF Task, Matched, Punct, Node, Operand, LhExpr, Methods
  <2> QED
    BY <1>9, <2>1, DoKept, ErrKept DEF make_lh_expr
<1>10. ASSUME index PROVE PInv'
  <2>1. /\ <<"make_expr", "Arg", "ws", "more_index">> \in Seq(Task)
        /\ <<"ws", "index">> \in Seq(Task)
        /\ <<"]", "Array">> \in Seq(Task)
    BY DEF Task, Matched, Punct, Node, Operand, LhExpr, Items, Methods
  <2>2. ASSUME Top("more_index")
        PROVE  Rest(eat_seq_ignore_ws(toks, "]", "["), input.t)
    BY <2>2, TokensLeft, InputText, AteSeq DEF PInv
  <2> DEFINE b == IF ate_seq_ignore_ws(toks, "]", "[") THEN <<"ws", "index">> ELSE <<"]", "Array">>
  <2>3. b \in Seq(Task)
    BY <2>1
  <2>4. CASE Do("index", <<"make_expr", "Arg", "ws", "more_index">>)
    BY <2>1, <2>4, DoKept
  <2>5. CASE Top("more_index") /\ Eating("more_index", eat_seq_ignore_ws(toks, "]", "["), b)
    <3> HIDE DEF b
    <3> QED
      BY <2>2, <2>3, <2>5, EatingKept
  <2> QED
    BY <1>10, <2>4, <2>5 DEF index
<1>11. ASSUME lh_path PROVE PInv'
  <2>1. /\ <<"Name">> \in Seq(Task)
        /\ <<"make_type_args", "ws", "(", "ws", "make_arg_list", "ws", ")", "Call">> \in Seq(Task)
        /\ <<"make_field_list", "StructInit">> \in Seq(Task)
        /\ <<"EnumInit">> \in Seq(Task)
    BY DEF Task, Matched, Punct, Node, Operand, LhExpr, Methods
  <2> QED
    BY <1>11, <2>1, DoKept, ErrKept DEF lh_path
<1> QED
  BY <1>1, <1>2, <1>3, <1>4, <1>5, <1>6, <1>7, <1>8, <1>9, <1>10, <1>11 DEF Expression

\* Statements and patterns.
LEMMA StatementsKept ==
    ASSUME PInv, Statement PROVE PInv'
<1>1. ASSUME make_block PROVE PInv'
  <2>1. /\ <<"Open", "Exit", "Block">> \in Seq(Task)
        /\ <<"ws", "block">> \in Seq(Task)
        /\ <<"{", "Open", "ws", "each_stmt", "Block">> \in Seq(Task)
        /\ <<"Block">> \in Seq(Task)
        /\ <<"}">> \in Seq(Task)
        /\ <<"make_stmt", "ws", "each_stmt">> \in Seq(Task)
    BY DEF Task, Matched, Punct, Node, Stmts, Methods
  <2>2. ASSUME Top("make_block")
        PROVE  Rest(eat_seq_ignore_ws(toks, "{", "}"), input.t)
    BY <2>2, TokensLeft, InputText, AteSeq DEF PInv
  <2>3. ASSUME NEW b, Eating("make_block", eat_seq_ignore_ws(toks, "{", "}"), b)
        PROVE  Top("make_block")
    BY <2>3 DEF Eating
  <2> QED
    BY <1>1, <2>1, <2>2, <2>3, DoKept, EatingKept DEF make_block
<1>2. ASSUME make_stmt PROVE PInv'
  <2>1. /\ <<"make_expr_stmt", "ws", ";">> \in Seq(Task)
        /\ <<"ws", ";">> \in Seq(Task)
    BY DEF Task, Matched, Punct, Methods
  <2>2. ASSUME NEW k \in StmtKeywords
        PROVE  k \in Task /\ StmtOf(k) \in Seq(Task)
    <3>1. k \in Task
      BY DEF StmtKeywords, Task, Matched, Punct, Keywords
    <3>2. /\ StmtOf("let") \in Seq(Task) /\ StmtOf("if") \in Seq(Task)
          /\ StmtOf("while") \in Seq(Task) /\ StmtOf("return") \in Seq(Task)
          /\ StmtOf("match") \in Seq(Task) /\ StmtOf("asm") \in Seq(Task)
          /\ StmtOf("exit") \in Seq(Task) /\ StmtOf("@") \in Seq(Task)
      BY DEF StmtOf, Task, Node, Stmts, Methods
    <3> QED
      BY <3>1, <3>2 DEF StmtKeywords
  <2>3. ASSUME Curr \in StmtKeywords
        PROVE  <<Curr>> \o StmtOf(Curr) \o <<"ws", ";">> \in Seq(Task)
    <3>1. <<Curr>> \in Seq(Task) /\ StmtOf(Curr) \in Seq(Task)
      BY <2>2, <2>3
    <3> QED
      BY <2>1, <3>1, ConcatProperties
  <2> QED
    BY <1>2, <2>1, <2>3, DoKept DEF make_stmt
<1>3. ASSUME make_assignment PROVE PInv'
  <2>1. /\ <<"ws", "make_lh_expr", "ws", "let_ty", "=", "ws", "make_expr", "Let">> \in Seq(Task)
        /\ <<":", "ws", "make_ty", "ws">> \in Seq(Task)
        /\ <<>> \in Seq(Task)
    BY DEF Task, Matched, Punct, Node, Stmts, Methods
  <2> QED
    BY <1>3, <2>1, DoKept DEF make_assignment
<1>4. ASSUME make_if_stmt PROVE PInv'
  <2>1. /\ <<"ws", "make_expr", "ws", "make_block", "ws", "els", "If">> \in Seq(Task)
        /\ <<"else", "ws", "make_block", "Else">> \in Seq(Task)
        /\ <<>> \in Seq(Task)
    BY DEF Task, Matched, Keywords, Node, Stmts, Methods
  <2> QED
    BY <1>4, <2>1, DoKept DEF make_if_stmt
<1>5. ASSUME make_while_stmt PROVE PInv'
  <2>1. <<"ws", "make_expr", "ws", "make_block", "ws", "While">> \in Seq(Task)
    BY DEF Task, Node, Stmts, Methods
  <2> QED
    BY <1>5, <2>1, DoKept DEF make_while_stmt
<1>6. ASSUME make_match_stmt PROVE PInv'
  <2>1. <<"ws", "make_expr", "ws", "{", "ws", "make_arms", "ws", "}", "Match">> \in Seq(Task)
    BY DEF Task, Matched, Punct, Node, Stmts, Methods
  <2> QED
    BY <1>6, <2>1, DoKept DEF make_match_stmt
<1>7. ASSUME make_return_stmt PROVE PInv'
  <2>1. /\ <<"ws", "returned">> \in Seq(Task)
        /\ <<"Exit">> \in Seq(Task)
        /\ <<"make_expr", "Ret">> \in Seq(Task)
    BY DEF Task, Node, Stmts, Methods
  <2> QED
    BY <1>7, <2>1, DoKept DEF make_return_stmt
<1>8. ASSUME make_asm_stmt PROVE PInv'
  <2>1. /\ <<"ws", "asm_block">> \in Seq(Task)
        /\ <<"{", "ws", "each_inst">> \in Seq(Task)
        /\ <<"}", "ws", ";", "InlineAsm">> \in Seq(Task)
        /\ <<"make_assembly_inst", "ws", "each_inst">> \in Seq(Task)
    BY DEF Task, Matched, Punct, Node, Stmts, Methods
  <2> QED
    BY <1>8, <2>1, DoKept, ErrKept DEF make_asm_stmt
<1>9. ASSUME make_assembly_inst PROVE PInv'
  <2>1. /\ <<"make_ident", "src">> \in Seq(Task)
        /\ <<";">> \in Seq(Task)
        /\ <<"make_location", "ws", "dst", "inst_end">> \in Seq(Task)
        /\ <<",", "ws", "make_location">> \in Seq(Task)
        /\ <<>> \in Seq(Task)
    BY DEF Task, Matched, Punct, Methods
  <2> QED
    BY <1>9, <2>1, DoKept, ErrKept DEF make_assembly_inst
<1>10. ASSUME make_location PROVE PInv'
  <2>1. /\ <<"(", "make_ident", ")">> \in Seq(Task)
        /\ <<"make_literal">> \in Seq(Task)
        /\ <<"%", "register">> \in Seq(Task)
        /\ <<"Ident">> \in Seq(Task)
    BY DEF Task, Matched, Punct, Methods
  <2> QED
    BY <1>10, <2>1, DoKept, ErrKept DEF make_location
<1>11. ASSUME make_expr_stmt PROVE PInv'
  <2>1. /\ <<"make_lh_expr", "ws", "lh_stmt">> \in Seq(Task)
        /\ <<"make_block", "BlockStmt">> \in Seq(Task)
        /\ <<"CallStmt">> \in Seq(Task)
        /\ <<"assign_stmt">> \in Seq(Task)
    BY DEF Task, Node, Stmts, Methods
  <2> QED
    BY <1>11, <2>1, DoKept, ErrKept DEF make_expr_stmt
<1>12. ASSUME make_assign_stmt_expr PROVE PInv'
  <2>1. <<"=", "ws", "make_expr", "Assign">> \in Seq(Task)
    BY DEF Task, Matched, Punct, Node, Stmts, Methods
  <2>2. AssignOps \subseteq Task /\ {"=", "ws", "make_expr", "AssignOp"} \subseteq Task
    BY DEF AssignOps, Task, Matched, Punct, Node, Stmts, Methods
  <2>3. ASSUME NEW o \in AssignOps PROVE <<o, "=", "ws", "make_expr", "AssignOp">> \in Seq(Task)
    <3>1. o \in Task /\ "=" \in Task /\ "ws" \in Task /\ "make_expr" \in Task /\ "AssignOp" \in Task
      BY <2>2
    <3> QED
      BY Zenon, <3>1, LongerSeq
  <2> QED
    BY <1>12, <2>1, <2>3, DoKept, ErrKept DEF make_assign_stmt_expr
<1>13. ASSUME make_arms PROVE PInv'
  <2>1. /\ <<>> \in Seq(Task)
        /\ <<"make_pat", "ws", "-", ">", "ws", "make_block", ",", "Arm", "ws",
             "make_arms">> \in Seq(Task)
    BY DEF Task, Matched, Punct, Node, Pats, Methods
  <2> QED
    BY <1>13, <2>1, DoKept DEF make_arms
<1>14. ASSUME make_pat PROVE PInv'
  <2>1. /\ <<"make_path", "path_pat">> \in Seq(Task)
        /\ <<"(", "ws", "make_pat_list", "ws", ")", "EnumPat">> \in Seq(Task)
        /\ <<"EnumPat">> \in Seq(Task)
        /\ <<"Wild">> \in Seq(Task)
        /\ <<"[", "ws", "make_pat_list", "ws", "]", "ArrayPat">> \in Seq(Task)
        /\ <<"make_literal", "ValuePat">> \in Seq(Task)
    BY DEF Task, Matched, Punct, Node, Pats, Methods
  <2> QED
    BY <1>14, <2>1, DoKept, ErrKept DEF make_pat
<1>15. ASSUME make_pat_list PROVE PInv'
  <2>1. /\ {"make_pat_list", "more_pats"} \subseteq Task
        /\ <<>> \in Seq(Task)
        /\ <<"make_pat">> \in Seq(Task)
    BY DEF Task, Methods
  <2> QED
    BY <1>15, <2>1, CommaListKept DEF make_pat_list
<1> QED
  BY <1>1, <1>2, <1>3, <1>4, <1>5, <1>6, <1>7, <1>8, <1>9, <1>10, <1>11, <1>12, <1>13, <1>14,
         <1>15 DEF Statement

-----------------------------------------------------------------------------
(* The theorems *)

\* The invariant holds at the start of every text,
LEMMA InitPInv == Init => PInv
<1> SUFFICES ASSUME Init PROVE PInv
  OBVIOUS
<1>1. /\ input.t \in Seq(Token) /\ Len(input.t) \in Nat \ {0} /\ input.t[Len(input.t)] = "EOF"
      /\ input.t # <<>>
  BY InputText DEF Init
<1>2. Rest(toks, input.t)
  <2>1. input.t = SubSeq(input.t, 1, Len(input.t))
    BY <1>1, SubSeqFull
  <2> QED
    BY <1>1, <2>1 DEF Init, Rest
<1>3. Stack(work) /\ Head(work) # "eat_attr"
  <2> DEFINE b == <<"parse">>
  <2>1. /\ b \in Seq(Call) /\ b # <<>> /\ Tail(b) \in Seq(Task)
        /\ b[Len(b)] = "parse" /\ Head(b) = "parse"
    BY Zenon, ParseTasks, OneCall
  <2>2. work = b
    BY DEF Init
  <2> HIDE DEF b
  <2> QED
    BY <2>1, <2>2 DEF Stack
<1>4. TypeOK
  <2>1. <<>> \in Seq(Node)
    BY EmptySeq
  <2>2. work # <<>>
    BY DEF Init
  <2> QED
    BY <1>1, <2>1, <2>2 DEF Init, TypeOK
<1>5. input \in Inputs /\ status # "past the end"
  BY DEF Init
<1> QED
  BY <1>2, <1>3, <1>4, <1>5 DEF PInv, WorkOK

\* and every step of the parser keeps it.
LEMMA NextPInv == PInv /\ [Next]_vars => PInv'
<1> SUFFICES ASSUME PInv, [Next]_vars PROVE PInv'
  OBVIOUS
<1>1. CASE UNCHANGED vars
  BY <1>1 DEF vars, PInv, WorkOK, TypeOK, Curr, Stack, Rest, Unclosed
<1>2. CASE Next
  BY <1>1, <1>2, PrimitivesKept, TypesKept, DeclarationsKept, ExpressionsKept, StatementsKept
     DEF Next, Over
<1> QED
  BY <1>1, <1>2

\* The type invariant, for every set of texts: the work is done exactly when
\* the parse has ended, and the tokens run out only in the panic of eat_tkn.
THEOREM ParserTypeOK == Spec => []TypeOK
<1>1. PInv => TypeOK
  BY DEF PInv
<1> QED
  BY <1>1, InitPInv, NextPInv, PTL DEF Spec

\* Whatever the text, eat_tkn is never called with no token left, but in an
\* attribute that has no `]`.
THEOREM ParserStaysInInput == Spec => []StaysInInput
<1>1. PInv => StaysInInput
  BY DEF PInv, StaysInInput, Unclosed, Attr
<1> QED
  BY <1>1, InitPInv, NextPInv, PTL DEF Spec

=============================================================================
